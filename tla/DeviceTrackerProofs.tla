-------------------------- MODULE DeviceTrackerProofs --------------------------
(***************************************************************************)
(* The list of devices is right about every host the tracker can be right  *)
(* about, for any number of hosts and any length of the streams.           *)
(***************************************************************************)
EXTENDS DeviceTracker, TLAPS

USE BoundsAssumption, NoneAssumption

Note(h, what) == [host |-> h, what |-> what]

RightAbout(h) == RemovalIsClean(h) /\ ListFollows(h) /\ ReportsLast(h) /\ PowerFollows(h)

LEMMA Kinds ==
    /\ \A h \in Hosts, w \in {"Register", "Led"} \cup Powers :
          /\ Note(h, w) \in Events /\ Note(h, w).host = h /\ Note(h, w).what = w
    /\ \A e \in Events : /\ e.host \in Hosts /\ e.what \in {"Register", "Led"} \cup Powers
                         /\ e = Note(e.host, e.what)
    /\ "Register" \notin Powers /\ "Led" \notin Powers
    /\ None \notin Powers /\ None \notin Devices
BY DEF Note, Events, Powers

LEMMA InitHolds == Init => IInv
<1> SUFFICES ASSUME Init PROVE IInv
  OBVIOUS
<1>1. /\ [s \in Services |-> <<>>] \in [Services -> Seq(Events)] /\ <<>> \in Seq(Hosts)
      /\ Len(<<>>) = 0
  OBVIOUS
<1>2. TypeOK
  BY <1>1 DEF Init, TypeOK
<1>3. ASSUME NEW h \in Hosts PROVE RightAbout(h)
  <2>1. /\ \A s \in Services : /\ ~HasRegister(events[s], h) /\ ~HasPower(events[s], h)
                               /\ h \notin known[s] /\ h \notin leaving[s] /\ ~Listed(s, h)
                               /\ told[h][s] = None
        /\ ~InRemovals(h)
    BY <1>1 DEF Init, HasRegister, HasPower, Listed, InRemovals
  <2> QED
    BY <2>1 DEF RightAbout, RemovalIsClean, ListFollows, ReportsLast, PowerFollows
<1> QED BY <1>2, <1>3 DEF IInv, RightAbout

-----------------------------------------------------------------------------
(* Streams of events.                                                      *)

LEMMA AppendSays ==
    ASSUME NEW q \in Seq(Events), NEW e \in Events, NEW h \in Hosts
    PROVE  /\ Append(q, e) \in Seq(Events)
           /\ HasRegister(Append(q, e), h) <=> HasRegister(q, h) \/ e = Note(h, "Register")
           /\ HasPower(Append(q, e), h) <=> HasPower(q, h) \/ IsPower(e, h)
           /\ \A p \in Powers : EndsWith(q, h, p) /\ ~IsPower(e, h) => EndsWith(Append(q, e), h, p)
           /\ \A p \in Powers : e = Note(h, p) => EndsWith(Append(q, e), h, p)
<1> DEFINE r == Append(q, e)
<1>1. /\ r \in Seq(Events) /\ Len(r) = Len(q) + 1 /\ Len(q) \in Nat
      /\ \A i \in 1 .. Len(q) : r[i] = q[i]
      /\ r[Len(q) + 1] = e
  OBVIOUS
<1> HIDE DEF r
<1>2. HasRegister(r, h) <=> HasRegister(q, h) \/ e = Note(h, "Register")
  BY <1>1 DEF HasRegister, Note
<1>3. HasPower(r, h) <=> HasPower(q, h) \/ IsPower(e, h)
  BY <1>1 DEF HasPower
<1>4. ASSUME NEW p \in Powers, EndsWith(q, h, p), ~IsPower(e, h) PROVE EndsWith(r, h, p)
  <2>1. PICK i \in 1 .. Len(q) : q[i] = Note(h, p) /\ \A j \in i + 1 .. Len(q) : ~IsPower(q[j], h)
    BY <1>4 DEF EndsWith, Note
  <2>2. i \in 1 .. Len(r) /\ r[i] = Note(h, p)
    BY <1>1, <2>1
  <2>3. \A j \in i + 1 .. Len(r) : ~IsPower(r[j], h)
    BY <1>1, <1>4, <2>1
  <2> QED BY <2>2, <2>3 DEF EndsWith, Note
<1>5. ASSUME NEW p \in Powers, e = Note(h, p) PROVE EndsWith(r, h, p)
  BY <1>1, <1>5 DEF EndsWith, Note
<1> QED BY <1>1, <1>2, <1>3, <1>4, <1>5 DEF r

LEMMA TailSays ==
    ASSUME NEW q \in Seq(Events), q # <<>>, NEW h \in Hosts
    PROVE  /\ Head(q) \in Events /\ Tail(q) \in Seq(Events)
           /\ HasRegister(q, h) <=> HasRegister(Tail(q), h) \/ Head(q) = Note(h, "Register")
           /\ HasPower(q, h) <=> HasPower(Tail(q), h) \/ IsPower(Head(q), h)
           /\ \A p \in Powers : EndsWith(q, h, p) =>
                 EndsWith(Tail(q), h, p) \/ (Head(q) = Note(h, p) /\ ~HasPower(Tail(q), h))
<1> DEFINE r == Tail(q)
<1>1. /\ r \in Seq(Events) /\ Len(r) = Len(q) - 1 /\ Len(q) \in Nat \ {0}
      /\ \A i \in 1 .. Len(q) - 1 : r[i] = q[i + 1]
      /\ Head(q) = q[1] /\ Head(q) \in Events
  OBVIOUS
<1> HIDE DEF r
<1>2. ASSUME NEW j \in 2 .. Len(q) PROVE j - 1 \in 1 .. Len(r) /\ r[j - 1] = q[j]
  <2>1. j - 1 \in 1 .. Len(q) - 1 /\ (j - 1) + 1 = j
    BY <1>1
  <2> QED BY <1>1, <2>1
<1>3. ASSUME NEW i \in 1 .. Len(r) PROVE i + 1 \in 2 .. Len(q) /\ q[i + 1] = r[i]
  BY <1>1
<1>4. HasRegister(q, h) <=> HasRegister(r, h) \/ Head(q) = Note(h, "Register")
  <2>1. ASSUME HasRegister(q, h) PROVE HasRegister(r, h) \/ Head(q) = Note(h, "Register")
    <3>1. PICK j \in 1 .. Len(q) : q[j] = Note(h, "Register")
      BY <2>1 DEF HasRegister, Note
    <3>2. j = 1 \/ j \in 2 .. Len(q)
      BY <1>1
    <3> QED BY <1>1, <1>2, <3>1, <3>2 DEF HasRegister, Note
  <2>2. ASSUME HasRegister(r, h) \/ Head(q) = Note(h, "Register") PROVE HasRegister(q, h)
    BY <1>1, <1>3, <2>2 DEF HasRegister, Note
  <2> QED BY <2>1, <2>2
<1>5. HasPower(q, h) <=> HasPower(r, h) \/ IsPower(Head(q), h)
  <2>1. ASSUME HasPower(q, h) PROVE HasPower(r, h) \/ IsPower(Head(q), h)
    <3>1. PICK j \in 1 .. Len(q) : IsPower(q[j], h)
      BY <2>1 DEF HasPower
    <3>2. j = 1 \/ j \in 2 .. Len(q)
      BY <1>1
    <3> QED BY <1>1, <1>2, <3>1, <3>2 DEF HasPower
  <2>2. ASSUME HasPower(r, h) \/ IsPower(Head(q), h) PROVE HasPower(q, h)
    BY <1>1, <1>3, <2>2 DEF HasPower
  <2> QED BY <2>1, <2>2
<1>6. ASSUME NEW p \in Powers, EndsWith(q, h, p)
      PROVE  EndsWith(r, h, p) \/ (Head(q) = Note(h, p) /\ ~HasPower(r, h))
  <2>1. PICK i \in 1 .. Len(q) : q[i] = Note(h, p) /\ \A j \in i + 1 .. Len(q) : ~IsPower(q[j], h)
    BY <1>6 DEF EndsWith, Note
  <2>2. CASE i = 1
    <3>1. \A j \in 1 .. Len(r) : ~IsPower(r[j], h)
      BY <1>1, <1>3, <2>1, <2>2
    <3> QED BY <1>1, <2>1, <2>2, <3>1 DEF HasPower
  <2>3. CASE i # 1
    <3>1. i - 1 \in 1 .. Len(r) /\ r[i - 1] = Note(h, p)
      BY <1>1, <1>2, <2>1, <2>3
    <3>2. ASSUME NEW j \in (i - 1) + 1 .. Len(r) PROVE ~IsPower(r[j], h)
      <4>1. j \in 1 .. Len(r) /\ j + 1 \in i + 1 .. Len(q)
        BY <1>1, <2>1, <3>1
      <4> QED BY <1>3, <2>1, <4>1
    <3> QED BY <3>1, <3>2 DEF EndsWith, Note
  <2> QED BY <2>2, <2>3
<1> QED BY <1>1, <1>4, <1>5, <1>6 DEF r

-----------------------------------------------------------------------------
(* The steps.                                                              *)

\* Nothing about h changes.
LEMMA Aside ==
    ASSUME NEW h \in Hosts, RightAbout(h),
           InRemovals(h)' <=> InRemovals(h), objects'[h] = objects[h], told'[h] = told[h],
           \A s \in Services :
              /\ h \in known'[s] <=> h \in known[s]
              /\ h \in leaving'[s] <=> h \in leaving[s]
              /\ HasRegister(events'[s], h) <=> HasRegister(events[s], h)
              /\ HasPower(events'[s], h) <=> HasPower(events[s], h)
              /\ \A p \in Powers : EndsWith(events[s], h, p) => EndsWith(events'[s], h, p)
    PROVE  RightAbout(h)'
<1>1. \A s \in Services : Listed(s, h)' <=> Listed(s, h)
  BY DEF Listed
<1>2. RemovalIsClean(h)'
  BY DEF RightAbout, RemovalIsClean
<1>3. ListFollows(h)'
  BY <1>1 DEF RightAbout, ListFollows
<1>4. ReportsLast(h)'
  BY DEF RightAbout, ReportsLast
<1>5. PowerFollows(h)'
  BY DEF RightAbout, PowerFollows
<1> QED BY <1>2, <1>3, <1>4, <1>5 DEF RightAbout

LEMMA Combine ==
    ASSUME TypeOK', ASSUME NEW h \in Hosts \ astray' PROVE RightAbout(h)'
    PROVE  IInv'
BY DEF IInv, RightAbout

LEMMA PhaseKeeps ==
    ASSUME IInv, phase' \in {"starting", "listening", "running", "stopped"},
           UNCHANGED <<known, leaving, events, removals, objects, sent, told, astray>>
    PROVE  IInv'
<1>1. TypeOK'
  BY DEF IInv, TypeOK
<1>2. ASSUME NEW h \in Hosts \ astray' PROVE RightAbout(h)'
  <2>1. RightAbout(h) /\ (InRemovals(h)' <=> InRemovals(h))
    BY DEF IInv, RightAbout, InRemovals
  <2> QED BY <2>1, Aside
<1> QED BY <1>1, <1>2, Combine

LEMMA SendSays ==
    ASSUME TypeOK, NEW s \in Services, NEW h \in Hosts,
           NEW what \in {"Register", "Led"} \cup Powers, Send(s, h, what)
    PROVE  /\ events' \in [Services -> Seq(Events)] /\ sent' \in 0 .. MaxEvents
           /\ astray \subseteq astray' /\ astray' \subseteq Hosts
           /\ h \notin astray' /\ what # "Led" =>
                 phase # "starting" /\ ~InRemovals(h) /\ h \notin leaving[s]
           /\ \A t \in Services, g \in Hosts :
                 ~(t = s /\ g = h) =>
                    /\ HasRegister(events'[t], g) <=> HasRegister(events[t], g)
                    /\ HasPower(events'[t], g) <=> HasPower(events[t], g)
                    /\ \A p \in Powers : EndsWith(events[t], g, p) => EndsWith(events'[t], g, p)
           /\ HasRegister(events'[s], h) <=>
                 HasRegister(events[s], h) \/ (what = "Register" /\ phase # "starting")
           /\ HasPower(events'[s], h) <=>
                 HasPower(events[s], h) \/ (what \in Powers /\ phase # "starting")
           /\ what \notin Powers =>
                 \A p \in Powers : EndsWith(events[s], h, p) => EndsWith(events'[s], h, p)
           /\ what \in Powers /\ phase # "starting" => EndsWith(events'[s], h, what)
<1> DEFINE e == Note(h, what)
<1>1. /\ e \in Events /\ e.host = h /\ e.what = what
      /\ events \in [Services -> Seq(Events)] /\ sent \in 0 .. MaxEvents /\ astray \subseteq Hosts
  BY Kinds DEF TypeOK
<1>2. /\ sent < MaxEvents /\ sent' = sent + 1
      /\ events' = IF phase = "starting" THEN events ELSE [events EXCEPT ![s] = Append(@, e)]
      /\ astray' = IF what # "Led" /\ (phase = "starting" \/ InRemovals(h) \/ h \in leaving[s])
                   THEN astray \cup {h} ELSE astray
  BY DEF Send, Note
<1>3. /\ e = Note(h, "Register") <=> what = "Register"
      /\ IsPower(e, h) <=> what \in Powers
      /\ \A g \in Hosts : g # h => e # Note(g, "Register") /\ ~IsPower(e, g)
  <2>1. \A g \in Hosts : Note(g, "Register").host = g /\ Note(g, "Register").what = "Register"
    BY Kinds
  <2> QED BY <1>1, <2>1 DEF IsPower
<1> HIDE DEF e
<1>4. sent' \in 0 .. MaxEvents
  BY <1>1, <1>2
<1>5. events' \in [Services -> Seq(Events)]
  <2>1. Append(events[s], e) \in Seq(Events)
    BY <1>1
  <2> QED BY <1>1, <1>2, <2>1
<1>6. /\ astray \subseteq astray' /\ astray' \subseteq Hosts
      /\ h \notin astray' /\ what # "Led" =>
            phase # "starting" /\ ~InRemovals(h) /\ h \notin leaving[s]
  BY <1>1, <1>2
<1>7. ASSUME NEW t \in Services, NEW g \in Hosts, ~(t = s /\ g = h)
      PROVE  /\ HasRegister(events'[t], g) <=> HasRegister(events[t], g)
             /\ HasPower(events'[t], g) <=> HasPower(events[t], g)
             /\ \A p \in Powers : EndsWith(events[t], g, p) => EndsWith(events'[t], g, p)
  <2>1. CASE events'[t] = events[t]
    BY <2>1
  <2>2. CASE events'[t] # events[t]
    <3>1. t = s /\ g # h /\ events'[t] = Append(events[t], e)
      BY <1>1, <1>2, <1>7, <2>2
    <3>2. events[t] \in Seq(Events)
      BY <1>1
    <3>3. e # Note(g, "Register") /\ ~IsPower(e, g)
      BY <1>3, <3>1
    <3> QED BY <1>1, <3>1, <3>2, <3>3, AppendSays
  <2> QED BY <2>1, <2>2
<1>8. CASE phase = "starting"
  BY <1>2, <1>4, <1>5, <1>6, <1>7, <1>8
<1>9. CASE phase # "starting"
  <2>1. events'[s] = Append(events[s], e) /\ events[s] \in Seq(Events)
    BY <1>1, <1>2, <1>9
  <2>2. /\ HasRegister(events'[s], h) <=> HasRegister(events[s], h) \/ what = "Register"
        /\ HasPower(events'[s], h) <=> HasPower(events[s], h) \/ what \in Powers
        /\ what \notin Powers =>
              \A p \in Powers : EndsWith(events[s], h, p) => EndsWith(events'[s], h, p)
        /\ what \in Powers => EndsWith(events'[s], h, what)
    BY <1>1, <1>3, <2>1, AppendSays DEF e
  <2> QED BY <1>4, <1>5, <1>6, <1>7, <1>9, <2>2
<1> QED BY <1>8, <1>9

LEMMA ContactKeeps ==
    ASSUME IInv, NEW s \in Services, NEW h \in Hosts, Contact(s, h)
    PROVE  IInv'
<1> DEFINE what == "Register"
<1>1. /\ h \notin known[s] /\ known' = [known EXCEPT ![s] = @ \cup {h}]
      /\ Send(s, h, "Register") /\ UNCHANGED <<phase, leaving, removals, objects, told>>
  BY DEF Contact
<1>2. TypeOK
  BY DEF IInv
<1>3. "Register" # "Led" /\ "Register" \notin Powers
  BY Kinds
<1>4. TypeOK'
  <2>1. known' \in [Services -> SUBSET Hosts]
    BY <1>1, <1>2 DEF TypeOK
  <2> QED BY <1>1, <1>2, <2>1, SendSays DEF TypeOK
<1>5. \A g \in Hosts : InRemovals(g)' <=> InRemovals(g)
  BY <1>1 DEF InRemovals
<1>6. \A t \in Services : known'[t] = IF t = s THEN known[t] \cup {h} ELSE known[t]
  BY <1>1, <1>2 DEF TypeOK
<1>7. ASSUME NEW g \in Hosts \ astray' PROVE RightAbout(g)'
  <2>1. g \notin astray /\ RightAbout(g)
    BY <1>1, <1>2, SendSays DEF IInv, RightAbout
  <2>2. CASE g # h
    <3>1. \A t \in Services :
              /\ g \in known'[t] <=> g \in known[t]
              /\ g \in leaving'[t] <=> g \in leaving[t]
              /\ HasRegister(events'[t], g) <=> HasRegister(events[t], g)
              /\ HasPower(events'[t], g) <=> HasPower(events[t], g)
              /\ \A p \in Powers : EndsWith(events[t], g, p) => EndsWith(events'[t], g, p)
      BY <1>1, <1>2, <1>6, <2>2, SendSays
    <3> QED BY <1>1, <1>5, <2>1, <3>1, Aside
  <2>3. CASE g = h
    <3>1. phase # "starting" /\ ~InRemovals(h) /\ h \notin leaving[s]
      BY <1>1, <1>2, <1>3, <2>3, SendSays
    <3>2. HasRegister(events'[s], h)
      BY <1>1, <1>2, <3>1, SendSays
    <3>3. \A t \in Services :
              /\ t # s => (HasRegister(events'[t], h) <=> HasRegister(events[t], h))
              /\ HasPower(events'[t], h) <=> HasPower(events[t], h)
              /\ \A p \in Powers : EndsWith(events[t], h, p) => EndsWith(events'[t], h, p)
      BY <1>1, <1>2, <1>3, SendSays
    <3>4. \A t \in Services : Listed(t, h)' <=> Listed(t, h)
      BY <1>1 DEF Listed
    <3>5. RemovalIsClean(h)'
      BY <1>5, <3>1 DEF RemovalIsClean
    <3>6. ListFollows(h)'
      BY <1>1, <1>6, <2>1, <2>3, <3>1, <3>2, <3>3, <3>4 DEF RightAbout, ListFollows
    <3>7. ReportsLast(h)'
      BY <1>1, <2>1, <2>3, <3>3 DEF RightAbout, ReportsLast
    <3>8. PowerFollows(h)'
      BY <1>1, <2>1, <2>3, <3>3 DEF RightAbout, PowerFollows
    <3> QED BY <2>3, <3>5, <3>6, <3>7, <3>8 DEF RightAbout
  <2> QED BY <2>2, <2>3
<1> QED BY <1>4, <1>7, Combine

LEMMA WriteControlKeeps ==
    ASSUME IInv, NEW s \in Services, NEW h \in Hosts, NEW power \in Powers,
           WriteControl(s, h, power)
    PROVE  IInv'
<1>1. /\ Send(s, h, power) /\ told' = [told EXCEPT ![h][s] = power]
      /\ UNCHANGED <<phase, known, leaving, removals, objects>>
  BY DEF WriteControl
<1>2. TypeOK /\ told \in [Hosts -> [Services -> Powers \cup {None}]]
  BY DEF IInv, TypeOK
<1>3. power # "Led" /\ power # "Register" /\ power # None
  BY Kinds
<1>4. /\ told' \in [Hosts -> [Services -> Powers \cup {None}]]
      /\ \A g \in Hosts : g # h => told'[g] = told[g]
      /\ \A t \in Services : told'[h][t] = IF t = s THEN power ELSE told[h][t]
  BY <1>1, <1>2
<1>5. TypeOK'
  BY <1>1, <1>2, <1>4, SendSays DEF TypeOK
<1>6. \A g \in Hosts : InRemovals(g)' <=> InRemovals(g)
  BY <1>1 DEF InRemovals
<1>7. ASSUME NEW g \in Hosts \ astray' PROVE RightAbout(g)'
  <2>1. g \notin astray /\ RightAbout(g)
    BY <1>1, <1>2, SendSays DEF IInv, RightAbout
  <2>2. CASE g # h
    <3>1. \A t \in Services :
              /\ g \in known'[t] <=> g \in known[t]
              /\ g \in leaving'[t] <=> g \in leaving[t]
              /\ HasRegister(events'[t], g) <=> HasRegister(events[t], g)
              /\ HasPower(events'[t], g) <=> HasPower(events[t], g)
              /\ \A p \in Powers : EndsWith(events[t], g, p) => EndsWith(events'[t], g, p)
      BY <1>1, <1>2, <2>2, SendSays
    <3> QED BY <1>1, <1>4, <1>6, <2>1, <2>2, <3>1, Aside
  <2>3. CASE g = h
    <3>1. phase # "starting" /\ ~InRemovals(h) /\ h \notin leaving[s]
      BY <1>1, <1>2, <1>3, <2>3, SendSays
    <3>2. HasPower(events'[s], h) /\ EndsWith(events'[s], h, power)
      BY <1>1, <1>2, <3>1, SendSays
    <3>3. \A t \in Services :
              /\ HasRegister(events'[t], h) <=> HasRegister(events[t], h)
              /\ t # s =>
                    /\ HasPower(events'[t], h) <=> HasPower(events[t], h)
                    /\ \A p \in Powers : EndsWith(events[t], h, p) => EndsWith(events'[t], h, p)
      BY <1>1, <1>2, <1>3, SendSays
    <3>4. \A t \in Services : Listed(t, h)' <=> Listed(t, h)
      BY <1>1 DEF Listed
    <3>5. RemovalIsClean(h)'
      BY <1>6, <3>1 DEF RemovalIsClean
    <3>6. ListFollows(h)'
      BY <1>1, <2>1, <2>3, <3>1, <3>3, <3>4 DEF RightAbout, ListFollows
    <3>7. ReportsLast(h)'
      BY <1>4, <2>1, <2>3, <3>2, <3>3 DEF RightAbout, ReportsLast
    <3>8. PowerFollows(h)'
      BY <1>3, <1>4, <3>2 DEF PowerFollows
    <3> QED BY <2>3, <3>5, <3>6, <3>7, <3>8 DEF RightAbout
  <2> QED BY <2>2, <2>3
<1> QED BY <1>5, <1>7, Combine

LEMMA WriteLedKeeps ==
    ASSUME IInv, NEW h \in Hosts, WriteLed(h)
    PROVE  IInv'
<1>1. /\ Send("keyboard", h, "Led")
      /\ UNCHANGED <<phase, known, leaving, removals, objects, told>>
  BY DEF WriteLed
<1>2. TypeOK /\ "keyboard" \in Services /\ "Led" \notin Powers
  BY Kinds DEF IInv, Services
<1>3. TypeOK'
  BY <1>1, <1>2, SendSays DEF TypeOK
<1>4. ASSUME NEW g \in Hosts \ astray' PROVE RightAbout(g)'
  <2>1. RightAbout(g)
    BY <1>1, <1>2, SendSays DEF IInv, RightAbout
  <2>2. \A t \in Services :
            /\ g \in known'[t] <=> g \in known[t]
            /\ g \in leaving'[t] <=> g \in leaving[t]
            /\ HasRegister(events'[t], g) <=> HasRegister(events[t], g)
            /\ HasPower(events'[t], g) <=> HasPower(events[t], g)
            /\ \A p \in Powers : EndsWith(events[t], g, p) => EndsWith(events'[t], g, p)
    BY <1>1, <1>2, SendSays
  <2>3. InRemovals(g)' <=> InRemovals(g)
    BY <1>1 DEF InRemovals
  <2> QED BY <1>1, <2>1, <2>2, <2>3, Aside
<1> QED BY <1>3, <1>4, Combine

LEMMA ForgetKeeps ==
    ASSUME IInv, NEW s \in Services, NEW h \in Hosts, Forget(s, h)
    PROVE  IInv'
<1>1. /\ h \in leaving[s]
      /\ leaving' = [leaving EXCEPT ![s] = @ \ {h}] /\ known' = [known EXCEPT ![s] = @ \ {h}]
      /\ UNCHANGED <<phase, events, removals, objects, sent, told, astray>>
  BY DEF Forget
<1>2. known \in [Services -> SUBSET Hosts] /\ leaving \in [Services -> SUBSET Hosts]
  BY DEF IInv, TypeOK
<1>3. TypeOK'
  <2>1. known' \in [Services -> SUBSET Hosts] /\ leaving' \in [Services -> SUBSET Hosts]
    BY <1>1, <1>2
  <2> QED BY <1>1, <2>1 DEF IInv, TypeOK
<1>4. \A t \in Services : /\ known'[t] = IF t = s THEN known[t] \ {h} ELSE known[t]
                          /\ leaving'[t] = IF t = s THEN leaving[t] \ {h} ELSE leaving[t]
  BY <1>1, <1>2
<1>5. ASSUME NEW g \in Hosts \ astray' PROVE RightAbout(g)'
  <2>1. RightAbout(g) /\ (InRemovals(g)' <=> InRemovals(g))
    BY <1>1 DEF IInv, RightAbout, InRemovals
  <2>2. CASE g # h
    <3>1. \A t \in Services : /\ g \in known'[t] <=> g \in known[t]
                              /\ g \in leaving'[t] <=> g \in leaving[t]
      BY <1>4, <2>2
    <3> QED BY <1>1, <2>1, <3>1, Aside
  <2>3. CASE g = h
    <3>1. \A t \in Services : Listed(t, g)' <=> Listed(t, g)
      BY <1>1 DEF Listed
    <3>2. RemovalIsClean(g)'
      <4>1. InRemovals(g) => \A t \in Services :
              /\ ~HasRegister(events[t], g) /\ ~HasPower(events[t], g)
              /\ g \in known[t] => g \in leaving[t]
              /\ told[g][t] = None
        BY <2>1 DEF RightAbout, RemovalIsClean
      <4>2. \A t \in Services : (g \in known[t] => g \in leaving[t])
                                   => (g \in known'[t] => g \in leaving'[t])
        BY <1>4, <2>3
      <4> QED BY <1>1, <2>1, <4>1, <4>2 DEF RemovalIsClean
    <3>3. ListFollows(g)'
      BY <1>1, <1>4, <2>1, <2>3, <3>1 DEF RightAbout, ListFollows
    <3>4. ReportsLast(g)' /\ PowerFollows(g)'
      BY <1>1, <2>1 DEF RightAbout, ReportsLast, PowerFollows
    <3> QED BY <3>2, <3>3, <3>4 DEF RightAbout
  <2> QED BY <2>2, <2>3
<1> QED BY <1>3, <1>5, Combine

LEMMA RemoveKeeps ==
    ASSUME IInv, NEW h \in Hosts, Remove(h)
    PROVE  IInv'
<1>1. /\ leaving' = [s \in Services |-> leaving[s] \cup {h}]
      /\ removals' = IF phase = "running" THEN Append(removals, h) ELSE removals
      /\ told' = [told EXCEPT ![h] = [s \in Services |-> None]]
      /\ astray' = IF phase # "running" \/ InEvents(h) THEN astray \cup {h} ELSE astray
      /\ UNCHANGED <<phase, known, events, objects, sent>>
  BY DEF Remove
<1>2. /\ leaving \in [Services -> SUBSET Hosts] /\ removals \in Seq(Hosts)
      /\ told \in [Hosts -> [Services -> Powers \cup {None}]] /\ astray \subseteq Hosts
  BY DEF IInv, TypeOK
<1>3. TypeOK'
  <2>1. leaving' \in [Services -> SUBSET Hosts] /\ removals' \in Seq(Hosts) /\ astray' \subseteq Hosts
    BY <1>1, <1>2
  <2>2. told' \in [Hosts -> [Services -> Powers \cup {None}]]
    BY <1>1, <1>2
  <2> QED BY <1>1, <2>1, <2>2 DEF IInv, TypeOK
<1>4. ASSUME phase = "running"
      PROVE  /\ Len(removals') = Len(removals) + 1 /\ Len(removals) \in Nat
             /\ \A i \in 1 .. Len(removals) : removals'[i] = removals[i]
             /\ removals'[Len(removals) + 1] = h
  BY <1>1, <1>2, <1>4
<1>5. ASSUME NEW g \in Hosts \ astray' PROVE RightAbout(g)'
  <2>1. g \notin astray /\ RightAbout(g)
    BY <1>1 DEF IInv, RightAbout
  <2>2. CASE g # h
    <3>1. InRemovals(g)' <=> InRemovals(g)
      <4>1. CASE phase = "running"
        BY <1>4, <2>2, <4>1 DEF InRemovals
      <4>2. CASE phase # "running"
        BY <1>1, <4>2 DEF InRemovals
      <4> QED BY <4>1, <4>2
    <3>2. \A s \in Services : g \in leaving'[s] <=> g \in leaving[s]
      BY <1>1, <2>2
    <3>3. told'[g] = told[g]
      BY <1>1, <1>2, <2>2
    <3> QED BY <1>1, <2>1, <3>1, <3>2, <3>3, Aside
  <2>3. CASE g = h
    <3>1. phase = "running" /\ ~InEvents(h)
      BY <1>1, <2>3
    <3>2. InRemovals(h)'
      BY <1>4, <3>1 DEF InRemovals
    <3>3. \A s \in Services : ~HasRegister(events'[s], h) /\ ~HasPower(events'[s], h)
      BY <1>1, <3>1 DEF InEvents, HasRegister, HasPower, IsPower
    <3>4. \A s \in Services : h \in leaving'[s] /\ told'[h][s] = None
      BY <1>1, <1>2
    <3>5. RemovalIsClean(h)' /\ ListFollows(h)'
      BY <3>2, <3>3, <3>4 DEF RemovalIsClean, ListFollows
    <3>6. ReportsLast(h)' /\ PowerFollows(h)'
      BY <3>3, <3>4 DEF ReportsLast, PowerFollows
    <3> QED BY <2>3, <3>5, <3>6 DEF RightAbout
  <2> QED BY <2>2, <2>3
<1> QED BY <1>3, <1>5, Combine

LEMMA TakeRemovalKeeps ==
    ASSUME IInv, TakeRemoval
    PROVE  IInv'
<1> DEFINE h == Head(removals)
<1>1. /\ removals # <<>> /\ removals' = Tail(removals)
      /\ \/ objects' = [objects EXCEPT ![h] = None] /\ UNCHANGED astray
         \/ UNCHANGED objects /\ astray' = astray \cup {h}
      /\ UNCHANGED <<phase, known, leaving, events, sent, told>>
  BY DEF TakeRemoval, Removed
<1>2. /\ removals \in Seq(Hosts) /\ objects \in [Hosts -> Devices \cup {None}]
      /\ astray \subseteq Hosts
  BY DEF IInv, TypeOK
<1>3. /\ h \in Hosts /\ h = removals[1] /\ removals' \in Seq(Hosts)
      /\ Len(removals) \in Nat \ {0} /\ Len(removals') = Len(removals) - 1
      /\ \A i \in 1 .. Len(removals) - 1 : removals'[i] = removals[i + 1]
  BY <1>1, <1>2
<1> HIDE DEF h
<1>4. TypeOK'
  <2>1. objects' \in [Hosts -> Devices \cup {None}] /\ astray' \subseteq Hosts
    BY <1>1, <1>2, <1>3
  <2> QED BY <1>1, <1>3, <2>1 DEF IInv, TypeOK
<1>5. ASSUME NEW g \in Hosts, g # h PROVE InRemovals(g)' <=> InRemovals(g)
  <2>1. ASSUME InRemovals(g) PROVE InRemovals(g)'
    <3>1. PICK i \in 1 .. Len(removals) : removals[i] = g
      BY <2>1 DEF InRemovals
    <3>2. i # 1 /\ i - 1 \in 1 .. Len(removals) - 1 /\ (i - 1) + 1 = i
      BY <1>3, <1>5, <3>1
    <3> QED BY <1>3, <3>1, <3>2 DEF InRemovals
  <2>2. ASSUME InRemovals(g)' PROVE InRemovals(g)
    <3>1. PICK i \in 1 .. Len(removals') : removals'[i] = g
      BY <2>2 DEF InRemovals
    <3>2. i + 1 \in 1 .. Len(removals)
      BY <1>3, <3>1
    <3> QED BY <1>3, <3>1, <3>2 DEF InRemovals
  <2> QED BY <2>1, <2>2
<1>6. ASSUME NEW g \in Hosts \ astray' PROVE RightAbout(g)'
  <2>1. g \notin astray /\ RightAbout(g)
    BY <1>1 DEF IInv, RightAbout
  <2>2. CASE g # h
    <3>1. objects'[g] = objects[g]
      BY <1>1, <1>2, <2>2
    <3> QED BY <1>1, <1>5, <2>1, <2>2, <3>1, Aside
  <2>3. CASE g = h
    <3>1. objects'[g] = None
      BY <1>1, <1>2, <2>3
    <3>2. InRemovals(g)
      BY <1>3, <2>3 DEF InRemovals
    <3>3. \A s \in Services :
              /\ ~HasRegister(events[s], g) /\ ~HasPower(events[s], g)
              /\ g \in known[s] => g \in leaving[s]
              /\ told[g][s] = None
      BY <2>1, <3>2 DEF RightAbout, RemovalIsClean
    <3>4. \A s \in Services : ~Listed(s, g)'
      BY <3>1 DEF Listed
    <3>5. RemovalIsClean(g)' /\ ListFollows(g)'
      BY <1>1, <3>3, <3>4 DEF RemovalIsClean, ListFollows
    <3>6. ReportsLast(g)' /\ PowerFollows(g)'
      BY <1>1, <3>3 DEF ReportsLast, PowerFollows
    <3> QED BY <3>5, <3>6 DEF RightAbout
  <2> QED BY <2>2, <2>3
<1> QED BY <1>4, <1>6, Combine

LEMMA NotedTypes ==
    ASSUME TypeOK, NEW h \in Hosts, NEW s \in Services, NEW what \in {"Register"} \cup Powers
    PROVE  /\ Acquired(h) \in Devices /\ Noted(Acquired(h), s, what) \in Devices
           /\ Acquired(h).listens = IF objects[h] = None THEN {} ELSE objects[h].listens
           /\ objects[h] # None => Acquired(h).power = objects[h].power
           /\ what = "Register" =>
                 /\ Noted(Acquired(h), s, what).listens = Acquired(h).listens \cup {s}
                 /\ Noted(Acquired(h), s, what).power = Acquired(h).power
           /\ what \in Powers =>
                 /\ Noted(Acquired(h), s, what).listens = Acquired(h).listens
                 /\ Noted(Acquired(h), s, what).power = what
<1>1. objects[h] \in Devices \cup {None}
  BY DEF TypeOK
<1>2. NewDevice \in Devices /\ NewDevice.listens = {}
  BY DEF NewDevice, Devices, Powers
<1>3. /\ Acquired(h) \in Devices
      /\ Acquired(h).listens = IF objects[h] = None THEN {} ELSE objects[h].listens
      /\ objects[h] # None => Acquired(h).power = objects[h].power
  BY <1>1, <1>2 DEF Acquired
<1> DEFINE d == Acquired(h)
<1>4. ASSUME what = "Register"
      PROVE  /\ Noted(d, s, what) \in Devices
             /\ Noted(d, s, what).listens = d.listens \cup {s}
             /\ Noted(d, s, what).power = d.power
  BY <1>3, <1>4 DEF Noted, Devices
<1>5. ASSUME what \in Powers
      PROVE  /\ Noted(d, s, what) \in Devices
             /\ Noted(d, s, what).listens = d.listens
             /\ Noted(d, s, what).power = what
  BY <1>3, <1>5, Kinds DEF Noted, Devices
<1> QED BY <1>3, <1>4, <1>5

LEMMA TakeEventKeeps ==
    ASSUME IInv, NEW s \in Services, TakeEvent(s)
    PROVE  IInv'
<1> DEFINE q == events[s]
<1>0. PICK h \in Hosts, what \in {"Register", "Led"} \cup Powers :
          h = Head(events[s]).host /\ what = Head(events[s]).what
  <2>1. events[s] \in Seq(Events) /\ events[s] # <<>>
    BY DEF IInv, TypeOK, TakeEvent
  <2>2. Head(events[s]) \in Events
    BY <2>1
  <2> QED BY <2>2, Kinds
<1>1. /\ q # <<>> /\ events' = [events EXCEPT ![s] = Tail(@)]
      /\ \/ what = "Led" /\ UNCHANGED <<objects, astray>>
         \/ /\ what # "Led"
            /\ objects' = [objects EXCEPT ![h] = Noted(Acquired(h), s, what)]
            /\ UNCHANGED astray
         \/ /\ what # "Led"
            /\ objects' \in {objects, [objects EXCEPT ![h] = Acquired(h)]}
            /\ astray' = astray \cup {h}
      /\ UNCHANGED <<phase, known, leaving, removals, sent, told>>
  BY <1>0 DEF TakeEvent, Ignores
<1>2. /\ TypeOK /\ events \in [Services -> Seq(Events)] /\ q \in Seq(Events)
      /\ objects \in [Hosts -> Devices \cup {None}] /\ astray \subseteq Hosts
  BY DEF IInv, TypeOK
<1>3. /\ h \in Hosts /\ what \in {"Register", "Led"} \cup Powers
      /\ Head(q) = Note(h, what) /\ Tail(q) \in Seq(Events) /\ Head(q) \in Events
  <2>1. Head(q) \in Events /\ Tail(q) \in Seq(Events)
    BY <1>1, <1>2
  <2> QED BY <1>0, <2>1, Kinds
<1>4. events'[s] = Tail(q) /\ \A t \in Services : t # s => events'[t] = events[t]
  BY <1>1, <1>2
<1>5. \A g \in Hosts : /\ Head(q) = Note(g, "Register") <=> g = h /\ what = "Register"
                       /\ IsPower(Head(q), g) <=> g = h /\ what \in Powers
                       /\ \A p \in Powers : Head(q) = Note(g, p) => g = h /\ what = p
  <2> TAKE g \in Hosts
  <2>1. Head(q).host = h /\ Head(q).what = what
    BY <1>0
  <2>2. \A w \in {"Register", "Led"} \cup Powers : Head(q) = Note(g, w) => g = h /\ what = w
    BY <2>1, Kinds
  <2>3. g = h => Head(q) = Note(g, what)
    BY <1>3
  <2>4. IsPower(Head(q), g) <=> g = h /\ what \in Powers
    BY <2>1 DEF IsPower
  <2> QED BY <2>2, <2>3, <2>4
<1> HIDE DEF q
<1>6. ASSUME NEW g \in Hosts
      PROVE  /\ HasRegister(q, g) <=> HasRegister(Tail(q), g) \/ (g = h /\ what = "Register")
             /\ HasPower(q, g) <=> HasPower(Tail(q), g) \/ (g = h /\ what \in Powers)
             /\ \A p \in Powers : EndsWith(q, g, p) =>
                   \/ EndsWith(Tail(q), g, p)
                   \/ g = h /\ what = p /\ ~HasPower(Tail(q), g)
  BY <1>1, <1>2, <1>5, TailSays
<1>7. TypeOK'
  <2>1. events' \in [Services -> Seq(Events)]
    BY <1>1, <1>2, <1>3 DEF q
  <2>2. objects' \in [Hosts -> Devices \cup {None}]
    <3>1. CASE what = "Led"
      BY <1>1, <1>2, <3>1
    <3>2. CASE what # "Led"
      <4>1. what \in {"Register"} \cup Powers
        BY <3>2
      <4>2. Acquired(h) \in Devices /\ Noted(Acquired(h), s, what) \in Devices
        BY <1>2, <4>1, NotedTypes
      <4> QED BY <1>1, <1>2, <3>2, <4>2
    <3> QED BY <3>1, <3>2
  <2>3. astray' \subseteq Hosts
    BY <1>1, <1>2
  <2> QED BY <1>1, <2>1, <2>2, <2>3 DEF IInv, TypeOK
<1>8. ASSUME NEW g \in Hosts \ astray', g # h \/ what = "Led"
      PROVE  RightAbout(g)'
  <2>1. RightAbout(g) /\ (InRemovals(g)' <=> InRemovals(g))
    BY <1>1 DEF IInv, RightAbout, InRemovals
  <2>2. objects'[g] = objects[g]
    BY <1>1, <1>2, <1>8
  <2>3. \A p \in Powers : p # "Led"
    BY Kinds
  <2>4. \A t \in Services :
            /\ HasRegister(events'[t], g) <=> HasRegister(events[t], g)
            /\ HasPower(events'[t], g) <=> HasPower(events[t], g)
            /\ \A p \in Powers : EndsWith(events[t], g, p) => EndsWith(events'[t], g, p)
    <3> TAKE t \in Services
    <3>1. CASE t = s
      BY <1>4, <1>6, <1>8, <2>3, <3>1 DEF q
    <3>2. CASE t # s
      BY <1>4, <3>2
    <3> QED BY <3>1, <3>2
  <2> QED BY <1>1, <2>1, <2>2, <2>4, Aside
<1>9. ASSUME h \notin astray', what # "Led"
      PROVE  RightAbout(h)'
  <2> DEFINE d == Noted(Acquired(h), s, what)
  <2>1. /\ RightAbout(h) /\ (InRemovals(h)' <=> InRemovals(h))
        /\ objects' = [objects EXCEPT ![h] = d]
        /\ what \in {"Register"} \cup Powers
    BY <1>1, <1>3, <1>9 DEF IInv, RightAbout, InRemovals
  <2>2. d \in Devices /\ objects'[h] = d /\ d # None
    <3>1. d \in Devices
      BY <1>2, <2>1, NotedTypes
    <3> QED BY <1>2, <2>1, <3>1, Kinds
  <2>3. ~InRemovals(h)
    BY <1>3, <1>6, <2>1 DEF RightAbout, RemovalIsClean, q
  <2>4. h \notin leaving[s]
    BY <1>3, <1>6, <2>1, <2>3 DEF RightAbout, ListFollows, q
  <2>5. \A t \in Services : Listed(t, h)' <=> Listed(t, h) \/ (t = s /\ what = "Register")
    BY <1>2, <1>3, <2>1, <2>2, NotedTypes, Kinds DEF Listed
  <2>6. RemovalIsClean(h)'
    BY <2>1, <2>3 DEF RemovalIsClean
  <2>7. ListFollows(h)'
    <3> SUFFICES ASSUME NEW t \in Services
                 PROVE  IF h \in leaving'[t]
                        THEN /\ ~Listed(t, h)' /\ ~HasRegister(events'[t], h)
                             /\ ~HasPower(events'[t], h)
                        ELSE h \in known'[t] <=> Listed(t, h)' \/ HasRegister(events'[t], h)
      BY DEF ListFollows
    <3>1. IF h \in leaving[t]
          THEN ~Listed(t, h) /\ ~HasRegister(events[t], h) /\ ~HasPower(events[t], h)
          ELSE h \in known[t] <=> Listed(t, h) \/ HasRegister(events[t], h)
      BY <2>1, <2>3 DEF RightAbout, ListFollows
    <3>2. CASE t = s
      BY <1>1, <1>3, <1>4, <1>6, <2>4, <2>5, <3>1, <3>2 DEF q
    <3>3. CASE t # s
      BY <1>1, <1>4, <2>5, <3>1, <3>3
    <3> QED BY <3>2, <3>3
  <2>8. ReportsLast(h)'
    <3> SUFFICES ASSUME NEW t \in Services, HasPower(events'[t], h)
                 PROVE  told'[h][t] \in Powers /\ EndsWith(events'[t], h, told'[h][t])
      BY DEF ReportsLast
    <3>1. HasPower(events[t], h) => told[h][t] \in Powers /\ EndsWith(events[t], h, told[h][t])
      BY <2>1 DEF RightAbout, ReportsLast
    <3>2. CASE t = s
      BY <1>1, <1>3, <1>4, <1>6, <3>1, <3>2 DEF q
    <3>3. CASE t # s
      BY <1>1, <1>4, <3>1, <3>3
    <3> QED BY <3>2, <3>3
  <2>9. PowerFollows(h)'
    <3>1. CASE what \in Powers
      <4>1. HasPower(events[s], h)
        BY <1>3, <1>6, <3>1 DEF q
      <4>2. told[h][s] \in Powers /\ EndsWith(events[s], h, told[h][s])
        BY <2>1, <4>1 DEF RightAbout, ReportsLast
      <4>3. HasPower(Tail(q), h) \/ what = told[h][s]
        <5>1. EndsWith(Tail(q), h, told[h][s]) => HasPower(Tail(q), h)
          BY <1>3, <4>2, Kinds DEF EndsWith, HasPower, IsPower, Note
        <5> QED BY <1>3, <1>6, <4>2, <5>1 DEF q
      <4>4. d.power = what
        BY <1>2, <1>3, <3>1, NotedTypes
      <4>5. told[h][s] # None
        BY <4>2, Kinds
      <4> QED BY <1>1, <1>4, <2>2, <4>3, <4>4, <4>5 DEF PowerFollows
    <3>2. CASE what = "Register"
      <4>1. \A t \in Services : HasPower(events'[t], h) <=> HasPower(events[t], h)
        <5> TAKE t \in Services
        <5>1. "Register" \notin Powers
          BY Kinds
        <5>2. CASE t = s
          BY <1>3, <1>4, <1>6, <3>2, <5>1, <5>2 DEF q
        <5>3. CASE t # s
          BY <1>4, <5>3
        <5> QED BY <5>2, <5>3
      <4>2. objects[h] # None => d.power = objects[h].power
        BY <1>2, <1>3, <3>2, NotedTypes
      <4> QED BY <1>1, <2>1, <2>2, <4>1, <4>2 DEF RightAbout, PowerFollows
    <3> QED BY <2>1, <3>1, <3>2
  <2> QED BY <2>6, <2>7, <2>8, <2>9 DEF RightAbout
<1>10. ASSUME NEW g \in Hosts \ astray' PROVE RightAbout(g)'
  BY <1>8, <1>9
<1> QED BY <1>7, <1>10, Combine

-----------------------------------------------------------------------------

LEMMA NextKeeps == IInv /\ [Next]_vars => IInv'
<1> SUFFICES ASSUME IInv, [Next]_vars PROVE IInv'
  OBVIOUS
<1>1. CASE UNCHANGED vars
  BY <1>1, PhaseKeeps DEF vars, IInv, TypeOK
<1>2. CASE Start \/ Stop
  BY <1>2, PhaseKeeps DEF Start, Stop
<1>3. ASSUME NEW h \in Hosts, Remove(h) \/ WriteLed(h) PROVE IInv'
  BY <1>3, RemoveKeeps, WriteLedKeeps
<1>4. ASSUME NEW h \in Hosts, NEW s \in Services, Contact(s, h) \/ Forget(s, h) PROVE IInv'
  BY <1>4, ContactKeeps, ForgetKeeps
<1>5. ASSUME NEW h \in Hosts, NEW s \in Services, NEW power \in Powers, WriteControl(s, h, power)
      PROVE  IInv'
  BY <1>5, WriteControlKeeps
<1>6. ASSUME NEW s \in Services, TakeEvent(s) PROVE IInv'
  BY <1>6, TakeEventKeeps
<1>7. ASSUME NEW s \in Services, Lag(s) PROVE IInv'
  BY <1>7, PhaseKeeps DEF Lag
<1>8. CASE TakeRemoval
  BY <1>8, TakeRemovalKeeps
<1> QED BY <1>1, <1>2, <1>3, <1>4, <1>5, <1>6, <1>7, <1>8 DEF Next

\* The tracker follows the hosts' tables and powers through every removal and return.
THEOREM Invariance == Spec => []IInv
<1>1. Init => IInv BY InitHolds
<1>2. IInv /\ [Next]_vars => IInv' BY NextKeeps
<1> QED BY <1>1, <1>2, PTL DEF Spec

\* The variables keep their types.
THEOREM TypeCorrect == Spec => []TypeOK
<1>1. IInv => TypeOK BY DEF IInv
<1> QED BY <1>1, Invariance, PTL

\* Once all streams have been read, a host's object names exactly the servers that have
\* the host in their tables, for any number of hosts that come and go (devices.rs:112-150).
THEOREM ListStaysRight == Spec => []ListIsRight
<1>1. IInv => ListIsRight
  <2> SUFFICES ASSUME IInv, NEW h \in Hosts \ astray, Settled(h), NEW s \in Services
               PROVE  Listed(s, h) <=> h \in known[s]
    BY DEF ListIsRight
  <2>1. ~HasRegister(events[s], h)
    BY DEF Settled, InEvents, HasRegister
  <2> QED BY <2>1 DEF IInv, ListFollows, Settled
<1> QED BY <1>1, Invariance, PTL

\* A host that told both servers the same is shown with that power, once they have
\* reported it (devices.rs:198-207, 228-233).
THEOREM PowerStaysRight == Spec => []PowerIsRight
<1>1. IInv => PowerIsRight
  <2> SUFFICES ASSUME IInv, NEW h \in Hosts \ astray, NEW p \in Powers, Settled(h),
                      \A s \in Services : told[h][s] = p
               PROVE  objects[h] # None /\ objects[h].power = p
    BY DEF PowerIsRight
  <2>1. \A s \in Services : ~HasPower(events[s], h)
    BY DEF Settled, InEvents, HasPower, IsPower
  <2>2. "mouse" \in Services /\ p # None
    BY Kinds DEF Services
  <2> QED BY <2>1, <2>2 DEF IInv, PowerFollows
<1> QED BY <1>1, Invariance, PTL
=============================================================================
