-------------------------- MODULE BridgeClientProofs --------------------------
(* A client that exits by itself leaves nothing behind, and one that waits misses no break *)
(* of its bridges, for any number of handles.                                             *)
EXTENDS BridgeClient, TLAPS

USE WantedAssumption, InputsAssumption, HandlesAssumption, NoneAssumption, RepliesAssumption

LEMMA CallTypes ==
    /\ None \notin Calls /\ Abandoned \notin Calls /\ Abandoned # None
    /\ Abandoned.op = "abandoned"
    /\ \A c \in Calls : /\ c.op \in {"bridge", "store", "destroy", "withdraw"}
                        /\ c.op = "bridge" => c.kind \in Kinds
                        /\ c.op # "bridge" => c.handle \in Handles
                        /\ c.op = "withdraw" => c = [op |-> "withdraw", handle |-> c.handle]
    /\ \A k \in Kinds : [op |-> "bridge", kind |-> k] \in Calls
    /\ \A h \in Handles : /\ [op |-> "store", handle |-> h] \in Calls
                          /\ [op |-> "destroy", handle |-> h] \in Calls
                          /\ [op |-> "withdraw", handle |-> h] \in Calls
<1>1. \A c \in Calls : /\ c.op \in {"bridge", "store", "destroy", "withdraw"}
                       /\ c.op = "bridge" => c.kind \in Kinds
                       /\ c.op # "bridge" => c.handle \in Handles
                       /\ c.op = "withdraw" => c = [op |-> "withdraw", handle |-> c.handle]
  BY DEF Calls
<1>2. Abandoned.op = "abandoned"
  BY DEF Abandoned
<1>3. /\ \A k \in Kinds : [op |-> "bridge", kind |-> k] \in Calls
      /\ \A h \in Handles : /\ [op |-> "store", handle |-> h] \in Calls
                          /\ [op |-> "destroy", handle |-> h] \in Calls
                          /\ [op |-> "withdraw", handle |-> h] \in Calls
  BY DEF Calls
<1>4. None \notin Calls /\ Abandoned # None
  BY RepliesAssumption
<1> QED BY <1>1, <1>2, <1>3, <1>4

LEMMA ReplyTypes ==
    /\ None \notin Replies
    /\ Error \in Replies /\ Ok \in Replies
    /\ \A h \in Handles : /\ [handle |-> h] \in Replies
                          /\ [handle |-> h] # Error /\ [handle |-> h] # Ok
    /\ \A g, h \in Handles : [handle |-> g] = [handle |-> h] => g = h
<1>1. \A g, h \in Handles : [handle |-> g] = [handle |-> h] => g = h
  OBVIOUS
<1>2. Error \in Replies /\ Ok \in Replies /\ \A h \in Handles : [handle |-> h] \in Replies
  BY DEF Error, Ok, Replies
<1>3. \A h \in Handles : [handle |-> h] # Error /\ [handle |-> h] # Ok
  BY DEF Error, Ok
<1> QED BY <1>1, <1>2, <1>3, RepliesAssumption

\* What a step of the bus or the client can disturb once its variables have their types.
LEMMA Parts ==
    ASSUME DaemonTypes', ClientTypes', PlaceInv', SlotInv',
           Sound' => OneCall' /\ CallMatches' /\ AnswerMatches',
           FreedInv',
           ASSUME Sound', NEW g \in Handles, Ours(g)', place'[g] # "announced"
           PROVE  WithinReach(g)'
    PROVE  IInv'
BY DEF IInv, TypeOK, CallInv, Accounted

\* With no call under way, a bridge is within reach of an answer or of a slot.
LEMMA ReachNow ==
    ASSUME NEW g \in Handles, WithinReach(g), call = None
    PROVE  /\ place[g] # "starting"
           /\ reply = [handle |-> g] \/ (slot[whose[g]] = g /\ ~Passed(whose[g]))
<1>1. [op |-> "store", handle |-> g] # None
  BY CallTypes
<1> QED BY <1>1 DEF WithinReach

LEMMA ReachBySlot ==
    ASSUME NEW g \in Handles, WithinReach(g), call = None, reply = None
    PROVE  place[g] # "starting" /\ slot[whose[g]] = g /\ ~Passed(whose[g])
<1>1. [handle |-> g] # None
  BY ReplyTypes
<1> QED BY <1>1, ReachNow

LEMMA InitHolds == Init => IInv
<1> SUFFICES ASSUME Init PROVE IInv
  OBVIOUS
<1>1. DaemonTypes
  BY DEF Init, LifecycleInit, DaemonTypes, Places
<1>2. ClientTypes
  <2>1. <<>> \in Seq(Handles)
    OBVIOUS
  <2>2. [k \in Kinds |-> None] \in [Kinds -> Handles \cup {None}]
    OBVIOUS
  <2> QED BY <2>1, <2>2 DEF Init, ClientTypes, Pcs
<1>3. PlaceInv /\ SlotInv /\ FreedInv
  BY ReplyTypes DEF Init, LifecycleInit, PlaceInv, SlotInv, FreedInv, AtFree, Kinds
<1>4. CallInv
  BY ReplyTypes DEF Init, CallInv, OneCall, CallMatches, AnswerMatches
<1>5. Accounted
  BY DEF Init, LifecycleInit, Accounted, Ours, Kinds
<1> QED BY <1>1, <1>2, <1>3, <1>4, <1>5 DEF IInv, TypeOK

-----------------------------------------------------------------------------
(* The client moves on with no call under way.                             *)

\* What a client without a call can do to its place: it passes no slot that is filled.
LEMMA MoveOn ==
    ASSUME IInv,
           UNCHANGED <<daemonVars, asked, reply, slot>>,
           link' => link, pc # "killed",
           ClientTypes', link' \in BOOLEAN, late' \in BOOLEAN,
           SlotInv',
           Sound => ~asked,
           \A k \in Kinds : Passed(k)' => Passed(k) \/ slot[k] = None
    PROVE  IInv'
<1> USE CallTypes, ReplyTypes
<1>1. DaemonTypes' /\ PlaceInv'
  BY DEF IInv, TypeOK, DaemonTypes, PlaceInv, daemonVars, lifecycle
<1>2. ASSUME Sound' PROVE Sound /\ ~asked /\ reply = None /\ call = None
  BY <1>2 DEF IInv, CallInv, OneCall, Sound, daemonVars
<1>3. ASSUME Sound' PROVE OneCall' /\ CallMatches' /\ AnswerMatches'
  BY <1>2, <1>3 DEF daemonVars, OneCall, CallMatches, AnswerMatches
<1>4. FreedInv'
  BY <1>2 DEF FreedInv
<1>5. ASSUME Sound', NEW g \in Handles, Ours(g)', place'[g] # "announced"
      PROVE  WithinReach(g)'
  <2>1. whose' = whose /\ place' = place /\ slot' = slot
    BY DEF daemonVars, lifecycle
  <2>2. whose[g] \in Kinds /\ WithinReach(g)
    BY <1>2, <1>5, <2>1 DEF IInv, Accounted, Ours
  <2>3. place[g] # "starting" /\ slot[whose[g]] = g /\ ~Passed(whose[g])
    BY <1>2, <1>5, <2>2, ReachBySlot
  <2>4. slot[whose[g]] # None
    BY <2>3
  <2>5. ~Passed(whose[g])'
    BY <2>1, <2>2, <2>3, <2>4 DEF Passed
  <2> QED BY <2>1, <2>3, <2>5 DEF WithinReach
<1> QED BY <1>1, <1>3, <1>4, <1>5, Parts

\* The variables of the client that no bridge depends on.
LEMMA GoOnTypes ==
    ASSUME ClientTypes, NEW to \in Pcs, GoOn(to)
    PROVE  /\ pc' = to
           /\ listening' \in BOOLEAN /\ spinning' \in BOOLEAN
           /\ heard' \in Seq(Handles)
           /\ input' \in Inputs \cup {None}
<1>1. CASE to = "free keyboard"
  <2>1. <<>> \in Seq(Handles)
    OBVIOUS
  <2>2. listening' = FALSE /\ heard' = <<>> /\ input' = None /\ spinning' = FALSE /\ pc' = to
    BY <1>1 DEF GoOn
  <2> QED BY <2>1, <2>2
<1>2. CASE to # "free keyboard"
  <2>1. UNCHANGED <<listening, heard, input, spinning>> /\ pc' = to
    BY <1>2 DEF GoOn
  <2> QED BY <2>1 DEF ClientTypes
<1> QED BY <1>1, <1>2

LEMMA CleanUpKeeps ==
    ASSUME IInv, CleanUp, UNCHANGED <<daemonVars, asked, reply, slot, link, late>>,
           pc \in {"subscribe", "shortcut", "waiting"}
    PROVE  IInv'
<1>1. ClientTypes'
  BY GoOnTypes DEF IInv, TypeOK, ClientTypes, CleanUp, Pcs
<1>2. pc' = "free keyboard"
  BY DEF CleanUp, GoOn
<1>3. SlotInv'
  BY <1>2 DEF IInv, SlotInv, daemonVars, lifecycle
<1>4. Sound => ~asked
  BY DEF IInv, CallInv, OneCall, AtFree, Kinds
<1> QED BY <1>1, <1>2, <1>3, <1>4, MoveOn DEF IInv, TypeOK, DaemonTypes, Passed

LEMMA PrepareKeeps ==
    ASSUME IInv, Prepare
    PROVE  IInv'
<1>1. ClientTypes'
  BY DEF Prepare, IInv, TypeOK, ClientTypes, Pcs
<1>2. SlotInv'
  BY DEF Prepare, IInv, SlotInv, daemonVars, lifecycle
<1>3. Sound => ~asked
  BY DEF Prepare, IInv, CallInv, OneCall, AtFree, Kinds
<1>4. \A k \in Kinds : slot[k] = None
  BY DEF Prepare, IInv, SlotInv, Kinds
<1> QED BY <1>1, <1>2, <1>3, <1>4, MoveOn DEF Prepare, IInv, TypeOK, DaemonTypes

LEMMA SubscribeKeeps ==
    ASSUME IInv, Subscribe
    PROVE  IInv'
<1>1. CASE CleanUp
  BY <1>1, CleanUpKeeps DEF Subscribe
<1>2. CASE ~CleanUp
  <2>0. FirstDevice \in {"mouse", "shortcut", "waiting"}
    BY DEF FirstDevice, AfterMouse
  <2>1. ClientTypes'
    BY <1>2, <2>0 DEF Subscribe, IInv, TypeOK, ClientTypes, Pcs, Kinds
  <2>2. SlotInv'
    BY <1>2, <2>0 DEF Subscribe, IInv, SlotInv, daemonVars, lifecycle
  <2>3. Sound => ~asked
    BY DEF Subscribe, IInv, CallInv, OneCall, AtFree, Kinds
  <2> QED BY <1>2, <2>0, <2>1, <2>2, <2>3, MoveOn DEF Subscribe, IInv, TypeOK, DaemonTypes, Passed
<1> QED BY <1>1, <1>2

LEMMA ReadShortcutKeeps ==
    ASSUME IInv, ReadShortcut
    PROVE  IInv'
<1>1. CASE CleanUp
  BY <1>1, CleanUpKeeps DEF ReadShortcut
<1>2. CASE GoOn("keyboard")
  <2>1. pc = "shortcut" /\ pc' = "keyboard"
    BY <1>2 DEF ReadShortcut, GoOn
  <2>2. ClientTypes'
    BY <1>2, GoOnTypes DEF ReadShortcut, IInv, TypeOK, ClientTypes, Pcs, Kinds
  <2>3. SlotInv'
    BY <2>1 DEF ReadShortcut, IInv, SlotInv, daemonVars, lifecycle
  <2>4. Sound => ~asked
    BY <2>1 DEF IInv, CallInv, OneCall, AtFree, Kinds
  <2> QED
    BY <2>1, <2>2, <2>3, <2>4, MoveOn DEF ReadShortcut, IInv, TypeOK, DaemonTypes, Passed
<1> QED BY <1>1, <1>2 DEF ReadShortcut

\* A client that goes on waiting.
LEMMA StillWaiting ==
    ASSUME IInv, UNCHANGED <<daemonVars, asked, reply, slot, link, late>>,
           pc = "waiting", pc' = pc,
           listening' \in BOOLEAN, spinning' \in BOOLEAN,
           heard' \in Seq(Handles), input' \in Inputs \cup {None}
    PROVE  IInv'
<1>1. ClientTypes'
  BY DEF IInv, TypeOK, ClientTypes
<1>2. SlotInv'
  BY DEF IInv, SlotInv, daemonVars, lifecycle
<1>3. Sound => ~asked
  BY DEF IInv, CallInv, OneCall, AtFree, Kinds
<1> QED BY <1>1, <1>2, <1>3, MoveOn DEF IInv, TypeOK, DaemonTypes, Passed

LEMMA HearSignalKeeps ==
    ASSUME IInv, HearSignal
    PROVE  IInv'
<1>1. CASE CleanUp
  BY <1>1, CleanUpKeeps DEF HearSignal
<1>2. CASE ~CleanUp
  <2>1. heard' \in Seq(Handles)
    BY <1>2 DEF HearSignal, IInv, TypeOK, ClientTypes
  <2> QED BY <1>2, <2>1, StillWaiting DEF HearSignal, IInv, TypeOK, ClientTypes
<1> QED BY <1>1, <1>2

LEMMA StreamEndsKeeps ==
    ASSUME IInv, StreamEnds
    PROVE  IInv'
BY CleanUpKeeps DEF StreamEnds

LEMMA InputFailsKeeps ==
    ASSUME IInv, InputFails
    PROVE  IInv'
BY CleanUpKeeps DEF InputFails

LEMMA ReadInputKeeps ==
    ASSUME IInv, ReadInput
    PROVE  IInv'
<1>1. CASE CleanUp
  BY <1>1, CleanUpKeeps DEF ReadInput
<1>2. CASE ~CleanUp
  BY <1>2, StillWaiting DEF ReadInput, IInv, TypeOK, ClientTypes
<1> QED BY <1>1, <1>2

LEMMA EnterKeeps ==
    ASSUME IInv, NEW i \in Inputs, Enter(i)
    PROVE  IInv'
BY StillWaiting DEF Enter, IInv, TypeOK, ClientTypes

LEMMA SkipFreeKeeps ==
    ASSUME IInv, NEW k \in Kinds, SkipFree(k)
    PROVE  IInv'
<1>1. /\ pc = (IF k = "keyboard" THEN "free keyboard" ELSE "free mouse")
      /\ pc' = (IF k = "keyboard" THEN "free mouse" ELSE "done")
      /\ slot[k] = None
  BY DEF SkipFree, AtFree, AfterFree
<1>2. ClientTypes'
  BY <1>1 DEF SkipFree, IInv, TypeOK, ClientTypes, Pcs
<1>3. SlotInv'
  BY <1>1 DEF SkipFree, IInv, SlotInv, daemonVars, lifecycle
<1>4. Sound => ~asked
  BY <1>1 DEF IInv, CallInv, OneCall, AtFree, Kinds
<1>5. \A m \in Kinds : Passed(m)' => Passed(m) \/ slot[m] = None
  BY <1>1 DEF Passed, Kinds
<1>6. late' \in BOOLEAN
  BY DEF SkipFree, Departs, IInv, TypeOK, DaemonTypes
<1> QED
  BY <1>1, <1>2, <1>3, <1>4, <1>5, <1>6, MoveOn DEF SkipFree, IInv, TypeOK, DaemonTypes

-----------------------------------------------------------------------------
(* The client's calls and their answers.                                   *)

LEMMA CreateKeeps ==
    ASSUME IInv, NEW k \in Kinds, Create(k)
    PROVE  IInv'
<1> USE CallTypes, ReplyTypes
<1>1. ClientTypes'
  BY DEF Create, Ask, IInv, TypeOK, ClientTypes
<1>2. DaemonTypes' /\ SlotInv'
  BY DEF Create, Ask, IInv, TypeOK, DaemonTypes, SlotInv, lifecycle
<1>3. PlaceInv'
  <2>1. call = Abandoned /\ up /\ link => FALSE
    BY DEF Create, Ask, IInv, CallInv, OneCall, Sound, Kinds
  <2> QED BY <2>1 DEF Create, Ask, IInv, PlaceInv, lifecycle
<1>4. ASSUME Sound'
      PROVE  /\ Sound /\ ~asked /\ reply = None /\ call = None /\ reply' = None
             /\ call' = [op |-> "bridge", kind |-> k]
  BY <1>4 DEF Create, Ask, IInv, CallInv, OneCall, Sound
<1>5. ASSUME Sound' PROVE OneCall' /\ CallMatches' /\ AnswerMatches'
  BY <1>4, <1>5 DEF Create, Ask, OneCall, CallMatches, AnswerMatches
<1>6. FreedInv'
  BY <1>4 DEF FreedInv
<1>7. ASSUME Sound', NEW g \in Handles, Ours(g)', place'[g] # "announced"
      PROVE  WithinReach(g)'
  <2>1. WithinReach(g)
    BY <1>4, <1>7 DEF Create, IInv, Accounted, Ours, lifecycle
  <2>2. place[g] # "starting" /\ slot[whose[g]] = g /\ ~Passed(whose[g])
    BY <1>4, <1>7, <2>1, ReachBySlot
  <2> QED BY <2>2 DEF Create, WithinReach, Passed, lifecycle
<1> QED BY <1>1, <1>2, <1>3, <1>5, <1>6, <1>7, Parts

LEMMA FreeKeeps ==
    ASSUME IInv, NEW k \in Kinds, Free(k)
    PROVE  IInv'
<1> USE CallTypes, ReplyTypes
<1>1. slot[k] \in Handles /\ AtFree(k) /\ pc' = pc
  BY DEF Free, IInv, TypeOK, ClientTypes
<1>2. ClientTypes'
  BY DEF Free, Ask, IInv, TypeOK, ClientTypes
<1>3. DaemonTypes' /\ SlotInv'
  BY <1>1 DEF Free, Ask, IInv, TypeOK, DaemonTypes, SlotInv, lifecycle
<1>4. PlaceInv'
  <2>1. call = Abandoned /\ up /\ link => FALSE
    BY DEF Free, AtFree, Ask, IInv, CallInv, OneCall, Sound
  <2> QED BY <2>1 DEF Free, Ask, IInv, PlaceInv, lifecycle
<1>5. ASSUME Sound'
      PROVE  /\ Sound /\ ~asked /\ reply = None /\ call = None /\ reply' = None
             /\ call' = [op |-> "destroy", handle |-> slot[k]]
  BY <1>5 DEF Free, Ask, IInv, CallInv, OneCall, Sound
<1>6. ASSUME Sound' PROVE OneCall' /\ CallMatches' /\ AnswerMatches'
  BY <1>1, <1>5, <1>6 DEF Free, Ask, OneCall, CallMatches, AnswerMatches, AtFree
<1>7. FreedInv'
  BY <1>5 DEF FreedInv
<1>8. ASSUME Sound', NEW g \in Handles, Ours(g)', place'[g] # "announced"
      PROVE  WithinReach(g)'
  <2>1. WithinReach(g)
    BY <1>5, <1>8 DEF Free, IInv, Accounted, Ours, lifecycle
  <2>2. place[g] # "starting" /\ slot[whose[g]] = g /\ ~Passed(whose[g])
    BY <1>5, <1>8, <2>1, ReachBySlot
  <2> QED BY <2>2 DEF Free, WithinReach, Passed, lifecycle
<1> QED BY <1>2, <1>3, <1>4, <1>6, <1>7, <1>8, Parts

LEMMA CreatedKeeps ==
    ASSUME IInv, NEW k \in Kinds, Created(k)
    PROVE  IInv'
<1> USE CallTypes, ReplyTypes
<1>1. /\ pc = k /\ asked /\ reply # None /\ asked' = FALSE /\ reply' = None
      /\ UNCHANGED <<daemonVars, link, late>> /\ UNCHANGED <<place, whose, call, up>>
  BY DEF Created, Answered, daemonVars, lifecycle
<1>2. CASE reply = Error /\ CleanUp /\ UNCHANGED slot
  <2>1. pc' = "free keyboard"
    BY <1>2 DEF CleanUp, GoOn
  <2>2. ClientTypes'
    BY <1>1, <1>2, GoOnTypes DEF IInv, TypeOK, ClientTypes, CleanUp, Pcs
  <2>3. DaemonTypes' /\ PlaceInv'
    BY <1>1 DEF IInv, TypeOK, DaemonTypes, PlaceInv, daemonVars, lifecycle
  <2>4. SlotInv'
    BY <1>1, <1>2, <2>1 DEF IInv, SlotInv
  <2>5. ASSUME Sound' PROVE Sound /\ call = None
    BY <1>1, <2>1, <2>5 DEF IInv, CallInv, OneCall, Sound, Kinds
  <2>6. ASSUME Sound' PROVE OneCall' /\ CallMatches' /\ AnswerMatches'
    BY <1>1, <2>5, <2>6 DEF OneCall, CallMatches, AnswerMatches
  <2>7. FreedInv'
    BY <1>1 DEF FreedInv
  <2>8. ASSUME Sound', NEW g \in Handles, Ours(g)', place'[g] # "announced"
        PROVE  WithinReach(g)'
    <3>1. WithinReach(g) /\ whose[g] \in Kinds
      BY <1>1, <2>5, <2>8 DEF IInv, Accounted, Ours
    <3>2. place[g] # "starting" /\ slot[whose[g]] = g
      BY <1>2, <2>5, <2>8, <3>1, ReachNow
    <3> QED BY <1>1, <1>2, <2>1, <3>2 DEF WithinReach, Passed
  <2> QED BY <2>2, <2>3, <2>4, <2>6, <2>7, <2>8, Parts
<1>3. CASE /\ reply \in [handle : Handles]
           /\ slot' = [slot EXCEPT ![k] = HandleIn(reply)]
           /\ GoOn(IF k = "mouse" THEN AfterMouse ELSE "waiting")
  <2>1. PICK h \in Handles : reply = [handle |-> h]
    BY <1>3
  <2>2. slot' = [slot EXCEPT ![k] = h]
    BY <1>3, <2>1 DEF HandleIn
  <2>3. /\ pc' \in {"shortcut", "waiting"}
        /\ (IF k = "mouse" THEN AfterMouse ELSE "waiting") \in Pcs
        /\ k = "keyboard" => pc' = "waiting"
    BY <1>3 DEF GoOn, AfterMouse, Pcs
  <2>4. ClientTypes'
    <3>1. ClientTypes
      BY DEF IInv, TypeOK
    <3>2. slot' \in [Kinds -> Handles \cup {None}]
      BY <2>2, <3>1 DEF ClientTypes
    <3>3. pc' \in Pcs
      BY <2>3 DEF Pcs
    <3> QED BY <1>1, <1>3, <2>3, <3>1, <3>2, <3>3, GoOnTypes DEF ClientTypes
  <2>5. DaemonTypes' /\ PlaceInv'
    BY <1>1 DEF IInv, TypeOK, DaemonTypes, PlaceInv, daemonVars, lifecycle
  <2>6. SlotInv'
    <3>1. /\ place[h] \notin {"unused", "starting"}
          /\ pc = "mouse" => slot["keyboard"] = None
          /\ \A m \in Kinds : slot[m] # None => place[slot[m]] \notin {"unused", "starting"}
      BY <2>1 DEF IInv, SlotInv
    <3>2. pc' = "shortcut" => k = "mouse"
      BY <2>3 DEF Kinds
    <3>3. slot \in [Kinds -> Handles \cup {None}]
      BY DEF IInv, TypeOK, ClientTypes
    <3>4. pc' = "shortcut" => slot'["keyboard"] = None
      BY <1>1, <2>2, <3>1, <3>2, <3>3 DEF Kinds
    <3>5. \A m \in Kinds : slot'[m] # None => place'[slot'[m]] \notin {"unused", "starting"}
      BY <1>1, <2>2, <3>1, <3>3
    <3> QED BY <1>1, <2>3, <3>4, <3>5 DEF SlotInv
  <2>7. ASSUME Sound' PROVE Sound /\ call = None
    BY <1>1, <2>7 DEF IInv, CallInv, OneCall, Sound, Kinds
  <2>8. ASSUME Sound' PROVE OneCall' /\ CallMatches' /\ AnswerMatches'
    BY <1>1, <2>7, <2>8 DEF OneCall, CallMatches, AnswerMatches
  <2>9. FreedInv'
    BY <1>1 DEF FreedInv
  <2>10. ASSUME Sound', NEW g \in Handles, Ours(g)', place'[g] # "announced"
         PROVE  WithinReach(g)'
    <3>1. WithinReach(g) /\ whose[g] \in Kinds
      BY <1>1, <2>7, <2>10 DEF IInv, Accounted, Ours
    <3>2. place[g] # "starting" /\ (g = h \/ slot[whose[g]] = g)
      BY <2>1, <2>7, <2>10, <3>1, ReachNow
    <3>3. whose[h] = k
      BY <1>1, <2>1, <2>7, <2>10 DEF IInv, CallInv, AnswerMatches
    <3>4. slot[k] = None
      BY <1>1 DEF IInv, SlotInv, Kinds
    <3>5. slot'[whose[g]] = g
      BY <2>2, <3>1, <3>2, <3>3, <3>4 DEF IInv, TypeOK, ClientTypes
    <3> QED BY <1>1, <2>3, <3>2, <3>5 DEF WithinReach, Passed
  <2> QED BY <2>4, <2>5, <2>6, <2>8, <2>9, <2>10, Parts
<1> QED BY <1>2, <1>3 DEF Created

LEMMA FreedKeeps ==
    ASSUME IInv, NEW k \in Kinds, Freed(k)
    PROVE  IInv'
<1> USE CallTypes, ReplyTypes
<1>1. /\ AtFree(k) /\ asked /\ reply # None /\ asked' = FALSE /\ reply' = None
      /\ pc = (IF k = "keyboard" THEN "free keyboard" ELSE "free mouse")
      /\ pc' = (IF k = "keyboard" THEN "free mouse" ELSE "done")
      /\ UNCHANGED <<daemonVars, slot, link>> /\ UNCHANGED <<place, whose, call, up>>
  BY DEF Freed, AtFree, AfterFree, Answered, daemonVars, lifecycle
<1>2. ClientTypes'
  BY <1>1 DEF Freed, IInv, TypeOK, ClientTypes, Pcs
<1>3. DaemonTypes' /\ PlaceInv'
  <2>1. late' \in BOOLEAN
    BY DEF Freed, Departs, IInv, TypeOK, DaemonTypes
  <2>2. DaemonTypes'
    BY <1>1, <2>1 DEF IInv, TypeOK, DaemonTypes, daemonVars, lifecycle
  <2>3. PlaceInv'
    BY DEF Freed, IInv, PlaceInv, daemonVars, lifecycle
  <2> QED BY <2>2, <2>3
<1>4. SlotInv'
  BY <1>1 DEF IInv, SlotInv
<1>5. ASSUME Sound' PROVE Sound /\ call = None
  BY <1>1, <1>5 DEF IInv, CallInv, OneCall, Sound
<1>6. ASSUME Sound' PROVE OneCall' /\ CallMatches' /\ AnswerMatches'
  BY <1>1, <1>5, <1>6 DEF OneCall, CallMatches, AnswerMatches
<1>7. FreedInv'
  BY <1>1 DEF FreedInv
<1>8. ASSUME Sound', NEW g \in Handles, Ours(g)', place'[g] # "announced"
      PROVE  WithinReach(g)'
  <2>1. WithinReach(g) /\ whose[g] \in Kinds
    BY <1>1, <1>5, <1>8 DEF IInv, Accounted, Ours
  <2>2. reply # [handle |-> g]
    BY <1>1, <1>5, <1>8 DEF IInv, CallInv, AnswerMatches, Kinds
  <2>3. place[g] # "starting" /\ slot[whose[g]] = g /\ ~Passed(whose[g])
    BY <1>5, <1>8, <2>1, <2>2, ReachNow
  <2>4. place[slot[k]] = "announced"
    BY <1>1, <1>5, <1>8 DEF IInv, FreedInv
  <2>5. whose[g] # k
    BY <1>1, <1>8, <2>3, <2>4
  <2>6. ~Passed(whose[g])'
    BY <1>1, <2>1, <2>3, <2>5 DEF Passed, Kinds
  <2> QED BY <1>1, <2>3, <2>6 DEF WithinReach
<1> QED BY <1>2, <1>3, <1>4, <1>6, <1>7, <1>8, Parts

LEMMA CallFailsKeeps ==
    ASSUME IInv, CallFails
    PROVE  IInv'
<1> USE ReplyTypes
<1>1. DaemonTypes' /\ PlaceInv'
  BY DEF CallFails, IInv, TypeOK, DaemonTypes, PlaceInv, daemonVars, lifecycle
<1>2. ClientTypes'
  BY DEF CallFails, IInv, TypeOK, ClientTypes
<1>3. SlotInv'
  BY DEF CallFails, IInv, SlotInv, daemonVars, lifecycle
<1>4. ~Sound'
  BY DEF CallFails, Sound, daemonVars
<1> QED BY <1>1, <1>2, <1>3, <1>4, Parts DEF FreedInv

-----------------------------------------------------------------------------
(* The loss of the daemon, of the bus or of the client.                    *)

LEMMA LossKeeps ==
    ASSUME IInv, UNCHANGED <<place, ended, whose, lock, call, reply, slot>>,
           DaemonTypes', ClientTypes', up' => up,
           pc' = "killed" \/ pc' = pc, ~Sound'
    PROVE  IInv'
<1>1. PlaceInv'
  BY DEF IInv, PlaceInv
<1>2. SlotInv'
  BY DEF IInv, SlotInv
<1> QED BY <1>1, <1>2, Parts DEF FreedInv

LEMMA DaemonExitsKeeps ==
    ASSUME IInv, DaemonExits
    PROVE  IInv'
<1>1. DaemonTypes'
  BY DEF DaemonExits, IInv, TypeOK, DaemonTypes, lifecycle
<1>2. ClientTypes'
  BY DEF DaemonExits, IInv, TypeOK, ClientTypes, clientVars
<1> QED BY <1>1, <1>2, LossKeeps DEF DaemonExits, Sound, lifecycle, clientVars

LEMMA LoseLinkKeeps ==
    ASSUME IInv, LoseLink
    PROVE  IInv'
<1>1. DaemonTypes'
  BY DEF LoseLink, Departs, IInv, TypeOK, DaemonTypes, daemonVars, lifecycle
<1>2. ClientTypes'
  BY DEF LoseLink, IInv, TypeOK, ClientTypes, clientVars
<1> QED BY <1>1, <1>2, LossKeeps DEF LoseLink, Sound, daemonVars, lifecycle, clientVars

LEMMA KillKeeps ==
    ASSUME IInv, Kill
    PROVE  IInv'
<1>1. DaemonTypes'
  BY DEF Kill, Departs, IInv, TypeOK, DaemonTypes, daemonVars, lifecycle
<1>2. ClientTypes'
  BY DEF Kill, IInv, TypeOK, ClientTypes, Pcs
<1> QED BY <1>1, <1>2, LossKeeps DEF Kill, Sound, daemonVars, lifecycle

-----------------------------------------------------------------------------
(* The daemon's steps.                                                     *)

LEMMA ServeBridgeKeeps ==
    ASSUME IInv, NEW h \in Handles, ServeBridge(h)
    PROVE  IInv'
<1> USE CallTypes, ReplyTypes
<1>1. /\ call \in Calls /\ call.op = "bridge" /\ call.kind \in Kinds /\ up
      /\ place[h] = "unused" /\ place' = [place EXCEPT ![h] = "starting"] /\ ended' = ended
      /\ whose' = [whose EXCEPT ![h] = call.kind]
      /\ call' = [op |-> "store", handle |-> h]
      /\ UNCHANGED <<lock, up, link, late, panicked>>
      /\ UNCHANGED <<pc, asked, reply, slot, listening, heard, input, spinning>>
  <2>1. call \in Calls /\ call.op = "bridge"
    BY DEF ServeBridge, Sent, IInv, TypeOK, DaemonTypes
  <2> QED BY <2>1 DEF ServeBridge, Sent, Start, Move, clientVars
<1>2. /\ place \in [Handles -> Places] /\ whose \in [Handles -> Kinds \cup {"other", None}]
      /\ whose[h] = None
  BY <1>1 DEF IInv, TypeOK, DaemonTypes, PlaceInv
<1>3. DaemonTypes'
  <2>1. place' \in [Handles -> Places] /\ whose' \in [Handles -> Kinds \cup {"other", None}]
    BY <1>1, <1>2 DEF Places
  <2>2. call' \in Calls
    BY <1>1
  <2> QED BY <1>1, <2>1, <2>2 DEF IInv, TypeOK, DaemonTypes
<1>4. ClientTypes'
  BY <1>1 DEF IInv, TypeOK, ClientTypes
<1>5. PlaceInv'
  BY <1>1, <1>2 DEF IInv, PlaceInv
<1>6. SlotInv'
  BY <1>1, <1>2 DEF IInv, SlotInv, TypeOK, ClientTypes
<1>7. ASSUME Sound' PROVE Sound /\ asked /\ reply = None /\ pc = call.kind
  BY <1>1, <1>7 DEF Sound, IInv, CallInv, OneCall, CallMatches
<1>8. ASSUME Sound' PROVE OneCall' /\ CallMatches' /\ AnswerMatches'
  <2>1. OneCall'
    BY <1>1, <1>7, <1>8 DEF IInv, CallInv, OneCall, AtFree
  <2>2. CallMatches'
    BY <1>1, <1>2, <1>7, <1>8 DEF CallMatches
  <2>3. AnswerMatches'
    BY <1>1, <1>7, <1>8 DEF AnswerMatches
  <2> QED BY <2>1, <2>2, <2>3
<1>9. FreedInv'
  BY <1>1, <1>7 DEF FreedInv
<1>10. ASSUME Sound', NEW g \in Handles, Ours(g)', place'[g] # "announced"
       PROVE  WithinReach(g)'
  <2>1. CASE g = h
    BY <1>1, <1>2, <2>1 DEF WithinReach
  <2>2. CASE g # h
    <3>1. place'[g] = place[g] /\ whose'[g] = whose[g] /\ WithinReach(g)
      BY <1>1, <1>2, <1>7, <1>10, <2>2 DEF IInv, Accounted, Ours
    <3>2. call # [op |-> "store", handle |-> g] /\ reply # [handle |-> g]
      BY <1>1, <1>7, <1>10
    <3>3. place[g] # "starting" /\ slot[whose[g]] = g /\ ~Passed(whose[g])
      BY <3>1, <3>2 DEF WithinReach
    <3> QED BY <1>1, <3>1, <3>3 DEF WithinReach, Passed
  <2> QED BY <2>1, <2>2
<1> QED BY <1>3, <1>4, <1>5, <1>6, <1>8, <1>9, <1>10, Parts

LEMMA RefuseBridgeKeeps ==
    ASSUME IInv, RefuseBridge
    PROVE  IInv'
<1> USE CallTypes, ReplyTypes
<1>1. /\ call \in Calls /\ call.op = "bridge" /\ call.kind \in Kinds /\ call' = None
      /\ UNCHANGED <<place, ended, whose, lock, up, link, late, panicked>>
      /\ UNCHANGED <<pc, asked, slot, listening, heard, input, spinning>>
      /\ reply' = Error \/ reply' = reply
  <2>1. call \in Calls /\ call.op = "bridge"
    BY DEF RefuseBridge, Sent, IInv, TypeOK, DaemonTypes
  <2> QED BY <2>1 DEF RefuseBridge, Answer, lifecycle
<1>2. DaemonTypes'
  BY <1>1 DEF IInv, TypeOK, DaemonTypes
<1>3. ClientTypes'
  BY <1>1 DEF IInv, TypeOK, ClientTypes
<1>4. PlaceInv'
  BY <1>1 DEF IInv, PlaceInv
<1>5. SlotInv'
  BY <1>1 DEF IInv, SlotInv
<1>6. ASSUME Sound' PROVE Sound /\ asked /\ reply = None /\ pc \in Kinds
  BY <1>1, <1>6 DEF Sound, IInv, CallInv, OneCall, CallMatches
<1>7. ASSUME Sound' PROVE OneCall' /\ CallMatches' /\ AnswerMatches'
  <2>1. OneCall'
    BY <1>1, <1>6, <1>7 DEF IInv, CallInv, OneCall, AtFree
  <2> QED BY <1>1, <1>6, <1>7, <2>1 DEF CallMatches, AnswerMatches
<1>8. FreedInv'
  BY <1>1, <1>6 DEF FreedInv, AtFree, Kinds
<1>9. ASSUME Sound', NEW g \in Handles, Ours(g)', place'[g] # "announced"
      PROVE  WithinReach(g)'
  <2>1. WithinReach(g)
    BY <1>1, <1>6, <1>9 DEF IInv, Accounted, Ours
  <2>2. call # [op |-> "store", handle |-> g] /\ reply # [handle |-> g]
    BY <1>1, <1>6, <1>9
  <2>3. place[g] # "starting" /\ slot[whose[g]] = g /\ ~Passed(whose[g])
    BY <2>1, <2>2 DEF WithinReach
  <2> QED BY <1>1, <2>3 DEF WithinReach, Passed
<1> QED BY <1>2, <1>3, <1>4, <1>5, <1>7, <1>8, <1>9, Parts

LEMMA StoreBridgeKeeps ==
    ASSUME IInv, StoreBridge
    PROVE  IInv'
<1> USE CallTypes, ReplyTypes
<1> DEFINE h == call.handle
<1>1. /\ call \in Calls /\ call.op = "store" /\ h \in Handles /\ call' = None
      /\ place[h] = "starting" /\ place' = [place EXCEPT ![h] = "held"]
      /\ UNCHANGED <<ended, whose, lock, up, link, late, panicked>>
      /\ UNCHANGED <<pc, asked, slot, listening, heard, input, spinning>>
      /\ reply' = [handle |-> h] \/ reply' = reply
      /\ Connected => reply' = [handle |-> h]
  <2>1. call \in Calls /\ call.op = "store"
    BY DEF StoreBridge, Sent, IInv, TypeOK, DaemonTypes
  <2> QED BY <2>1 DEF StoreBridge, Answer, Hold, Move
<1> HIDE DEF h
<1>2. place \in [Handles -> Places]
  BY DEF IInv, TypeOK, DaemonTypes
<1>3. DaemonTypes'
  <2>1. place' \in [Handles -> Places]
    BY <1>1, <1>2 DEF Places
  <2> QED BY <1>1, <2>1 DEF IInv, TypeOK, DaemonTypes
<1>4. ClientTypes'
  BY <1>1 DEF IInv, TypeOK, ClientTypes
<1>5. PlaceInv'
  BY <1>1, <1>2 DEF IInv, PlaceInv
<1>6. SlotInv'
  <2>1. \A k \in Kinds : slot'[k] # None => place'[slot'[k]] \notin {"unused", "starting"}
    BY <1>1, <1>2 DEF IInv, SlotInv, TypeOK, ClientTypes
  <2>2. \A g \in Handles : reply' = [handle |-> g] => place'[g] \notin {"unused", "starting"}
    BY <1>1, <1>2 DEF IInv, SlotInv
  <2> QED BY <1>1, <2>1, <2>2 DEF IInv, SlotInv
<1>7. ASSUME Sound'
      PROVE  Sound /\ asked /\ reply = None /\ pc \in Kinds /\ whose[h] = pc
  <2>1. Sound
    BY <1>1, <1>7 DEF Sound
  <2> QED BY <1>1, <2>1 DEF IInv, CallInv, OneCall, CallMatches, h
<1>8. ASSUME Sound' PROVE OneCall' /\ CallMatches' /\ AnswerMatches'
  <2>1. OneCall'
    BY <1>1, <1>7, <1>8 DEF IInv, CallInv, OneCall, AtFree
  <2> QED BY <1>1, <1>7, <1>8, <2>1 DEF CallMatches, AnswerMatches
<1>9. FreedInv'
  BY <1>1, <1>7 DEF FreedInv, AtFree, Kinds
<1>10. ASSUME Sound', NEW g \in Handles, Ours(g)', place'[g] # "announced"
       PROVE  WithinReach(g)'
  <2>1. CASE g = h
    <3>1. Connected \/ pc = "done"
      BY <1>7, <1>10 DEF Connected, Finished, Sound
    <3>2. pc # "done"
      BY <1>7, <1>10 DEF Kinds
    <3> QED BY <1>1, <1>2, <2>1, <3>1, <3>2 DEF WithinReach
  <2>2. CASE g # h
    <3>1. place'[g] = place[g] /\ WithinReach(g)
      BY <1>1, <1>2, <1>7, <1>10, <2>2 DEF IInv, Accounted, Ours
    <3>2. reply # [handle |-> g]
      BY <1>7, <1>10
    <3>3. call # [op |-> "store", handle |-> g]
      BY <2>2 DEF h
    <3>4. place[g] # "starting" /\ slot[whose[g]] = g /\ ~Passed(whose[g])
      BY <3>1, <3>2, <3>3 DEF WithinReach
    <3> QED BY <1>1, <3>1, <3>4 DEF WithinReach, Passed
  <2> QED BY <2>1, <2>2
<1> QED BY <1>3, <1>4, <1>5, <1>6, <1>8, <1>9, <1>10, Parts

LEMMA ServeDestroyKeeps ==
    ASSUME IInv, OursOnly, ServeDestroy
    PROVE  IInv'
<1> USE CallTypes, ReplyTypes
<1> DEFINE h == call.handle
<1>1. /\ call \in Calls /\ call.op = "destroy" /\ h \in Handles /\ up /\ lock = None
      /\ UNCHANGED <<whose, up, link, late, panicked>>
      /\ UNCHANGED <<pc, asked, slot, listening, heard, input, spinning>>
  <2>1. call \in Calls /\ call.op = "destroy"
    BY DEF ServeDestroy, Sent, IInv, TypeOK, DaemonTypes
  <2> QED BY <2>1 DEF ServeDestroy, Sent
<1>2. /\ place \in [Handles -> Places]
      /\ \A k \in Kinds : slot[k] # None => place[slot[k]] \notin {"unused", "starting"}
      /\ place[h] # "withdrawn"
  <2>1. whose[h] \in Kinds
    BY <1>1 DEF OursOnly, Ours
  <2> QED BY <1>1, <2>1 DEF IInv, TypeOK, DaemonTypes, PlaceInv, SlotInv, Kinds
<1>3. ASSUME Sound'
      PROVE  /\ Sound /\ asked /\ reply = None
             /\ \E k \in Kinds : AtFree(k) /\ h = slot[k]
  <2>1. Sound
    BY <1>1, <1>3 DEF Sound
  <2> QED BY <1>1, <2>1 DEF IInv, CallInv, OneCall, CallMatches
<1>4. CASE /\ Withdraw(h)
           /\ lock' = h
           /\ call' = [op |-> "withdraw", handle |-> h]
           /\ UNCHANGED reply
  <2> HIDE DEF h
  <2>1. /\ place[h] = "held" /\ place' = [place EXCEPT ![h] = "withdrawn"]
        /\ UNCHANGED ended
    BY <1>4 DEF Withdraw, Move
  <2>2. DaemonTypes'
    <3>1. place' \in [Handles -> Places]
      BY <1>2, <2>1 DEF Places
    <3>2. call' \in Calls
      BY <1>1, <1>4
    <3> QED BY <1>1, <1>4, <2>1, <3>1, <3>2 DEF IInv, TypeOK, DaemonTypes
  <2>3. ClientTypes'
    BY <1>1, <1>4 DEF IInv, TypeOK, ClientTypes
  <2>4. PlaceInv'
    BY <1>1, <1>2, <1>4, <2>1 DEF IInv, PlaceInv
  <2>5. SlotInv'
    BY <1>1, <1>2, <1>4, <2>1 DEF IInv, SlotInv, TypeOK, ClientTypes
  <2>6. ASSUME Sound' PROVE OneCall' /\ CallMatches' /\ AnswerMatches'
    <3>1. OneCall'
      BY <1>1, <1>3, <1>4, <2>6 DEF IInv, CallInv, OneCall, AtFree
    <3>2. CallMatches'
      BY <1>1, <1>3, <1>4, <2>6 DEF CallMatches, AtFree
    <3>3. AnswerMatches'
      BY <1>3, <1>4, <2>6 DEF AnswerMatches
    <3> QED BY <3>1, <3>2, <3>3
  <2>7. FreedInv'
    BY <1>3, <1>4 DEF FreedInv
  <2>8. ASSUME Sound', NEW g \in Handles, Ours(g)', place'[g] # "announced"
        PROVE  WithinReach(g)'
    <3>1. WithinReach(g)
      BY <1>1, <1>2, <1>3, <2>1, <2>8 DEF IInv, Accounted, Ours
    <3>2. call # [op |-> "store", handle |-> g] /\ reply # [handle |-> g]
      BY <1>1, <1>3, <2>8
    <3>3. place[g] # "starting" /\ slot[whose[g]] = g /\ ~Passed(whose[g])
      BY <3>1, <3>2 DEF WithinReach
    <3>4. place'[g] # "starting"
      BY <1>2, <2>1, <3>3
    <3> QED BY <1>1, <3>3, <3>4 DEF WithinReach, Passed
  <2> QED BY <2>2, <2>3, <2>4, <2>5, <2>6, <2>7, <2>8, Parts
<1>5. CASE /\ place[h] # "held"
           /\ Answer(Error)
           /\ UNCHANGED <<lifecycle, lock>>
  <2> HIDE DEF h
  <2>1. /\ UNCHANGED <<place, ended, lock>> /\ call' = None
        /\ reply' = Error \/ reply' = reply
    BY <1>5 DEF Answer, lifecycle
  <2>2. DaemonTypes'
    BY <1>1, <2>1 DEF IInv, TypeOK, DaemonTypes
  <2>3. ClientTypes'
    BY <1>1, <2>1 DEF IInv, TypeOK, ClientTypes
  <2>4. PlaceInv'
    BY <1>1, <1>2, <2>1 DEF IInv, PlaceInv
  <2>5. SlotInv'
    BY <1>1, <2>1 DEF IInv, SlotInv
  <2>6. ASSUME Sound' PROVE OneCall' /\ CallMatches' /\ AnswerMatches'
    <3>1. OneCall'
      BY <1>1, <1>3, <2>1, <2>6 DEF IInv, CallInv, OneCall, AtFree
    <3> QED BY <1>3, <2>1, <2>6, <3>1 DEF CallMatches, AnswerMatches
  <2>7. ASSUME Sound', NEW k \in Kinds, AtFree(k)', reply' # None
        PROVE  (slot[k] # None /\ place[slot[k]] = "announced")'
    <3>1. h = slot[k]
      BY <1>1, <1>3, <2>7 DEF AtFree, Kinds
    <3>2. place[h] = "announced"
      BY <1>1, <1>2, <1>5, <3>1 DEF Places
    <3> QED BY <1>1, <2>1, <3>1, <3>2
  <2>8. ASSUME Sound', NEW g \in Handles, Ours(g)', place'[g] # "announced"
        PROVE  WithinReach(g)'
    <3>1. WithinReach(g)
      BY <1>1, <1>3, <2>1, <2>8 DEF IInv, Accounted, Ours
    <3>2. call # [op |-> "store", handle |-> g] /\ reply # [handle |-> g]
      BY <1>1, <1>3, <2>8
    <3>3. place[g] # "starting" /\ slot[whose[g]] = g /\ ~Passed(whose[g])
      BY <3>1, <3>2 DEF WithinReach
    <3> QED BY <1>1, <2>1, <3>3 DEF WithinReach, Passed
  <2>9. FreedInv'
    BY <2>7 DEF FreedInv
  <2> QED BY <2>2, <2>3, <2>4, <2>5, <2>6, <2>8, <2>9, Parts
<1> QED BY <1>4, <1>5 DEF ServeDestroy

\* Steps after which the client's call and its answer are what they were, and every handle
\* is where it was or one place further on.
LEMMA Aside ==
    ASSUME IInv,
           UNCHANGED <<call, pc, asked, reply, slot, up, link>>,
           DaemonTypes', ClientTypes', PlaceInv',
           \A g \in Handles : whose[g] # None => whose'[g] = whose[g],
           \A g \in Handles : Ours(g)' => Ours(g),
           \A g \in Handles : place[g] \notin {"unused", "starting"} =>
                                 place'[g] \notin {"unused", "starting"},
           \A g \in Handles : Ours(g)' /\ place[g] = "starting" => place'[g] = "starting",
           \A g \in Handles : place[g] = "announced" => place'[g] = "announced",
           Sound => (call # None /\ call.op = "withdraw" => lock' = call.handle)
    PROVE  IInv'
<1> USE CallTypes, ReplyTypes
<1>1. ASSUME Sound' PROVE Sound
  BY <1>1 DEF Sound
<1>2. /\ call \in Calls \cup {None, Abandoned}
      /\ slot \in [Kinds -> Handles \cup {None}]
  BY DEF IInv, TypeOK, DaemonTypes, ClientTypes
<1>3. SlotInv'
  BY <1>2 DEF IInv, SlotInv
<1>4. ASSUME Sound' PROVE OneCall' /\ CallMatches' /\ AnswerMatches'
  <2>1. OneCall /\ CallMatches /\ AnswerMatches
    BY <1>1, <1>4 DEF IInv, CallInv
  <2>2. OneCall'
    BY <2>1 DEF OneCall, AtFree
  <2>3. CallMatches'
    <3>1. ASSUME call # None, call.op = "store"
          PROVE  call.handle \in Handles /\ whose'[call.handle] = pc /\ pc \in Kinds
      BY <1>2, <2>1, <3>1 DEF CallMatches, Kinds
    <3> QED BY <1>1, <1>4, <2>1, <3>1 DEF CallMatches, AtFree
  <2>4. AnswerMatches'
    BY <2>1 DEF AnswerMatches, Kinds
  <2> QED BY <2>2, <2>3, <2>4
<1>5. ASSUME Sound', NEW k \in Kinds, AtFree(k)', reply' # None
      PROVE  (slot[k] # None /\ place[slot[k]] = "announced")'
  <2>1. slot[k] # None /\ place[slot[k]] = "announced"
    BY <1>1, <1>5 DEF IInv, FreedInv, AtFree
  <2> QED BY <1>2, <2>1
<1>6. ASSUME Sound', NEW g \in Handles, Ours(g)', place'[g] # "announced"
      PROVE  WithinReach(g)'
  <2>1. WithinReach(g) /\ whose'[g] = whose[g]
    BY <1>1, <1>6 DEF IInv, Accounted, Ours, Kinds
  <2>2. place[g] # "unused"
    BY <1>6 DEF IInv, PlaceInv, Ours, Kinds
  <2>3. place[g] # "starting" => place'[g] # "starting"
    BY <2>2
  <2> QED BY <1>6, <2>1, <2>3 DEF WithinReach, Passed
<1> QED BY <1>3, <1>4, <1>5, <1>6, Parts DEF FreedInv

LEMMA ServeOtherKeeps ==
    ASSUME IInv, NEW h \in Handles, ServeOther(h)
    PROVE  IInv'
<1>1. /\ place[h] = "unused" /\ place' = [place EXCEPT ![h] = "starting"]
      /\ whose' = [whose EXCEPT ![h] = "other"]
      /\ UNCHANGED <<call, pc, asked, reply, slot, up, link>>
      /\ UNCHANGED <<ended, late, panicked, lock, listening, heard, input, spinning>>
  BY DEF ServeOther, Start, Move, clientVars
<1>2. /\ place \in [Handles -> Places] /\ whose \in [Handles -> Kinds \cup {"other", None}]
      /\ whose[h] = None
  BY <1>1 DEF IInv, TypeOK, DaemonTypes, PlaceInv
<1>3. DaemonTypes'
  <2>1. place' \in [Handles -> Places] /\ whose' \in [Handles -> Kinds \cup {"other", None}]
    BY <1>1, <1>2 DEF Places
  <2> QED BY <1>1, <2>1 DEF IInv, TypeOK, DaemonTypes
<1>4. ClientTypes'
  BY <1>1 DEF IInv, TypeOK, ClientTypes
<1>5. PlaceInv'
  BY <1>1, <1>2 DEF IInv, PlaceInv
<1>6. \A g \in Handles : whose[g] # None => whose'[g] = whose[g]
  BY <1>1, <1>2
<1>7. \A g \in Handles : Ours(g)' => Ours(g)
  BY <1>1, <1>2 DEF Ours, Kinds
<1>8. /\ \A g \in Handles : place[g] \notin {"unused", "starting"} =>
                               place'[g] \notin {"unused", "starting"}
      /\ \A g \in Handles : place[g] = "starting" => place'[g] = "starting"
      /\ \A g \in Handles : place[g] = "announced" => place'[g] = "announced"
  BY <1>1, <1>2
<1>9. Sound => (call # None /\ call.op = "withdraw" => lock' = call.handle)
  BY <1>1 DEF IInv, CallInv, CallMatches
<1> QED BY <1>1, <1>3, <1>4, <1>5, <1>6, <1>7, <1>8, <1>9, Aside

LEMMA StoreOtherKeeps ==
    ASSUME IInv, NEW h \in Handles, StoreOther(h)
    PROVE  IInv'
<1>1. /\ whose[h] = "other" /\ place[h] = "starting" /\ place' = [place EXCEPT ![h] = "held"]
      /\ UNCHANGED <<call, pc, asked, reply, slot, up, link>>
      /\ UNCHANGED <<ended, whose, late, panicked, lock, listening, heard, input, spinning>>
  BY DEF StoreOther, Hold, Move, clientVars
<1>2. place \in [Handles -> Places]
  BY DEF IInv, TypeOK, DaemonTypes
<1>3. DaemonTypes'
  <2>1. place' \in [Handles -> Places]
    BY <1>1, <1>2 DEF Places
  <2> QED BY <1>1, <2>1 DEF IInv, TypeOK, DaemonTypes
<1>4. ClientTypes'
  BY <1>1 DEF IInv, TypeOK, ClientTypes
<1>5. PlaceInv'
  BY <1>1, <1>2 DEF IInv, PlaceInv
<1>6. /\ \A g \in Handles : Ours(g)' => Ours(g) /\ g # h
      /\ \A g \in Handles : whose'[g] = whose[g]
  BY <1>1 DEF Ours, Kinds
<1>7. /\ \A g \in Handles : place[g] \notin {"unused", "starting"} =>
                               place'[g] \notin {"unused", "starting"}
      /\ \A g \in Handles : g # h => place'[g] = place[g]
      /\ \A g \in Handles : place[g] = "announced" => place'[g] = "announced"
  BY <1>1, <1>2
<1>8. Sound => (call # None /\ call.op = "withdraw" => lock' = call.handle)
  BY <1>1 DEF IInv, CallInv, CallMatches
<1> QED BY <1>1, <1>3, <1>4, <1>5, <1>6, <1>7, <1>8, Aside

LEMMA CleanKeeps ==
    ASSUME IInv, NEW h \in Handles, Clean(h)
    PROVE  IInv'
<1> USE CallTypes
<1>1. /\ up /\ lock = None /\ lock' = h
      /\ place[h] = "held" /\ place' = [place EXCEPT ![h] = "withdrawn"]
      /\ UNCHANGED <<call, pc, asked, reply, slot, up, link>>
      /\ UNCHANGED <<ended, whose, late, panicked, listening, heard, input, spinning>>
  BY DEF Clean, Withdraw, Move, clientVars
<1>2. place \in [Handles -> Places]
  BY DEF IInv, TypeOK, DaemonTypes
<1>3. DaemonTypes'
  <2>1. place' \in [Handles -> Places]
    BY <1>1, <1>2 DEF Places
  <2> QED BY <1>1, <2>1 DEF IInv, TypeOK, DaemonTypes
<1>4. ClientTypes'
  BY <1>1 DEF IInv, TypeOK, ClientTypes
<1>5. PlaceInv'
  BY <1>1, <1>2 DEF IInv, PlaceInv
<1>6. /\ \A g \in Handles : Ours(g)' => Ours(g)
      /\ \A g \in Handles : whose'[g] = whose[g]
      /\ \A g \in Handles : place[g] \notin {"unused", "starting"} =>
                               place'[g] \notin {"unused", "starting"}
      /\ \A g \in Handles : place[g] = "starting" => place'[g] = "starting"
      /\ \A g \in Handles : place[g] = "announced" => place'[g] = "announced"
  BY <1>1, <1>2 DEF Ours
<1>7. Sound => ~(call # None /\ call.op = "withdraw")
  <2>1. call \in Calls \cup {None, Abandoned}
    BY DEF IInv, TypeOK, DaemonTypes
  <2> QED BY <1>1, <2>1 DEF IInv, CallInv, CallMatches
<1> QED BY <1>1, <1>3, <1>4, <1>5, <1>6, <1>7, Aside

LEMMA BridgeEndsKeeps ==
    ASSUME IInv, NEW h \in Handles, BridgeEnds(h)
    PROVE  IInv'
<1>1. /\ ended' = ended \cup {h} /\ place' = place
      /\ UNCHANGED <<call, pc, asked, reply, slot, up, link>>
      /\ UNCHANGED <<lock, whose, late, listening, heard, input, spinning>>
      /\ panicked' = panicked \/ panicked' = panicked \cup {h}
  BY DEF BridgeEnds, End, clientVars
<1>2. DaemonTypes'
  <2>1. ended' \subseteq Handles /\ panicked' \subseteq ended'
    BY <1>1 DEF IInv, TypeOK, DaemonTypes
  <2> QED BY <1>1, <2>1 DEF IInv, TypeOK, DaemonTypes
<1>3. ClientTypes'
  BY <1>1 DEF IInv, TypeOK, ClientTypes
<1>4. PlaceInv'
  BY <1>1 DEF IInv, PlaceInv
<1>5. Sound => (call # None /\ call.op = "withdraw" => lock' = call.handle)
  BY <1>1 DEF IInv, CallInv, CallMatches
<1> QED BY <1>1, <1>2, <1>3, <1>4, <1>5, Aside DEF Ours

LEMMA BrokenKeeps ==
    ASSUME IInv, NEW h \in Handles, Broken(h)
    PROVE  IInv'
<1> USE CallTypes, ReplyTypes
<1> DEFINE own == [op |-> "withdraw", handle |-> h]
<1>1. /\ up /\ lock = h /\ lock' = None /\ h \in ended
      /\ place[h] = "withdrawn" /\ place' = [place EXCEPT ![h] = "announced"]
      /\ UNCHANGED <<ended, whose, up, link, late, panicked>>
      /\ UNCHANGED <<pc, asked, slot, listening, input, spinning>>
      /\ heard' = Append(heard, h) \/ heard' = heard
  BY DEF Broken, Announce, Move, Signal
<1>2. /\ place \in [Handles -> Places]
      /\ call \in Calls \cup {None, Abandoned}
  BY DEF IInv, TypeOK, DaemonTypes
<1>3. place' \in [Handles -> Places]
  BY <1>1, <1>2 DEF Places
<1>4. heard' \in Seq(Handles)
  <2>1. heard \in Seq(Handles)
    BY DEF IInv, TypeOK, ClientTypes
  <2>2. heard' = Append(heard, h) \/ heard' = heard
    BY <1>1
  <2> HIDE DEF own
  <2> QED BY <2>1, <2>2
<1>5. /\ \A g \in Handles : Ours(g)' => Ours(g)
      /\ \A g \in Handles : whose'[g] = whose[g]
      /\ \A g \in Handles : place[g] \notin {"unused", "starting"} =>
                               place'[g] \notin {"unused", "starting"}
      /\ \A g \in Handles : place[g] = "starting" => place'[g] = "starting"
      /\ \A g \in Handles : place[g] = "announced" => place'[g] = "announced"
  BY <1>1, <1>2 DEF Ours
<1>6. CASE call # own /\ UNCHANGED <<call, reply>>
  <2>1. DaemonTypes'
    BY <1>1, <1>3, <1>6 DEF IInv, TypeOK, DaemonTypes
  <2>2. ClientTypes'
    BY <1>1, <1>4, <1>6 DEF IInv, TypeOK, ClientTypes
  <2>3. PlaceInv'
    BY <1>1, <1>2, <1>6 DEF IInv, PlaceInv
  <2>4. Sound => ~(call # None /\ call.op = "withdraw")
    BY <1>1, <1>2, <1>6 DEF IInv, CallInv, CallMatches
  <2> QED BY <1>1, <1>5, <1>6, <2>1, <2>2, <2>3, <2>4, Aside
<1>7. CASE call = own /\ Answer(Ok)
  <2>1. call' = None /\ (reply' = Ok \/ reply' = reply)
    BY <1>7 DEF Answer
  <2>2. call \in Calls /\ call.op = "withdraw" /\ call.handle = h /\ call # None
    BY <1>7
  <2> HIDE DEF own
  <2>3. DaemonTypes'
    BY <1>1, <1>3, <2>1 DEF IInv, TypeOK, DaemonTypes
  <2>4. ClientTypes'
    BY <1>1, <1>4, <2>1 DEF IInv, TypeOK, ClientTypes
  <2>5. PlaceInv'
    BY <1>1, <1>2, <2>1, <2>2 DEF IInv, PlaceInv
  <2>6. SlotInv'
    BY <1>1, <1>2, <2>1 DEF IInv, SlotInv, TypeOK, ClientTypes
  <2>7. ASSUME Sound'
        PROVE  /\ Sound /\ asked /\ reply = None
               /\ \E k \in Kinds : AtFree(k) /\ h = slot[k]
    <3>1. Sound
      BY <1>1, <2>7 DEF Sound
    <3> QED BY <2>2, <3>1 DEF IInv, CallInv, OneCall, CallMatches
  <2>8. ASSUME Sound' PROVE OneCall' /\ CallMatches' /\ AnswerMatches'
    <3>1. OneCall'
      BY <1>1, <2>1, <2>7, <2>8 DEF IInv, CallInv, OneCall, AtFree
    <3> QED BY <2>1, <2>7, <2>8, <3>1 DEF CallMatches, AnswerMatches
  <2>9. ASSUME Sound', NEW k \in Kinds, AtFree(k)', reply' # None
        PROVE  (slot[k] # None /\ place[slot[k]] = "announced")'
    <3>1. h = slot[k]
      BY <1>1, <2>7, <2>9 DEF AtFree, Kinds
    <3> QED BY <1>1, <1>2, <3>1
  <2>10. FreedInv'
    BY <2>9 DEF FreedInv
  <2>11. ASSUME Sound', NEW g \in Handles, Ours(g)', place'[g] # "announced"
         PROVE  WithinReach(g)'
    <3>1. g # h /\ place'[g] = place[g]
      BY <1>1, <1>2, <2>11
    <3>2. WithinReach(g)
      BY <1>5, <2>7, <2>11, <3>1 DEF IInv, Accounted
    <3>3. call # [op |-> "store", handle |-> g] /\ reply # [handle |-> g]
      BY <2>2, <2>7, <2>11
    <3>4. place[g] # "starting" /\ slot[whose[g]] = g /\ ~Passed(whose[g])
      BY <3>2, <3>3 DEF WithinReach
    <3> QED BY <1>1, <3>1, <3>4 DEF WithinReach, Passed
  <2> QED BY <2>3, <2>4, <2>5, <2>6, <2>8, <2>10, <2>11, Parts
<1> QED BY <1>6, <1>7 DEF Broken

LEMMA BreakFailsKeeps ==
    ASSUME IInv, OursOnly, NEW h \in Handles, BreakFails(h)
    PROVE  IInv'
<1> USE CallTypes, ReplyTypes
<1>1. /\ UNCHANGED <<place, ended, whose, link, late, panicked>> /\ up /\ lock = h
      /\ UNCHANGED <<pc, asked, reply, slot, listening, heard, input, spinning>>
  BY DEF BreakFails, clientVars, lifecycle
<1>2. ClientTypes'
  BY <1>1 DEF IInv, TypeOK, ClientTypes
<1>3. CASE up' = FALSE /\ UNCHANGED <<call, lock>>
  <2>1. DaemonTypes'
    BY <1>1, <1>3 DEF IInv, TypeOK, DaemonTypes
  <2> QED BY <1>1, <1>2, <1>3, <2>1, LossKeeps DEF Sound
<1>4. CASE /\ call = [op |-> "withdraw", handle |-> h]
           /\ call' = Abandoned /\ lock' = None /\ UNCHANGED up
  <2>1. call.op = "withdraw" /\ call # None
    BY <1>4
  <2>2. DaemonTypes'
    BY <1>1, <1>4 DEF IInv, TypeOK, DaemonTypes
  <2>3. PlaceInv' /\ SlotInv'
    BY <1>1, <1>4 DEF IInv, PlaceInv, SlotInv
  <2>4. ASSUME Sound' PROVE Sound /\ asked /\ reply = None
    BY <1>1, <1>4, <2>1, <2>4 DEF Sound, IInv, CallInv, OneCall
  <2>5. ASSUME Sound' PROVE OneCall' /\ CallMatches' /\ AnswerMatches'
    <3>1. OneCall'
      BY <1>1, <1>4, <2>4, <2>5 DEF IInv, CallInv, OneCall, AtFree
    <3> QED BY <1>1, <1>4, <2>4, <2>5, <3>1 DEF CallMatches, AnswerMatches
  <2>6. FreedInv'
    BY <1>1, <2>4 DEF FreedInv
  <2>7. ASSUME Sound', NEW g \in Handles, Ours(g)', place'[g] # "announced"
        PROVE  WithinReach(g)'
    <3>1. WithinReach(g)
      BY <1>1, <2>4, <2>7 DEF IInv, Accounted, Ours
    <3>2. call # [op |-> "store", handle |-> g] /\ reply # [handle |-> g]
      BY <2>1, <2>4, <2>7
    <3>3. place[g] # "starting" /\ slot[whose[g]] = g /\ ~Passed(whose[g])
      BY <3>1, <3>2 DEF WithinReach
    <3> QED BY <1>1, <3>3 DEF WithinReach, Passed
  <2> QED BY <1>2, <2>2, <2>3, <2>5, <2>6, <2>7, Parts
<1>5. CASE whose[h] = "other" /\ lock' = None /\ UNCHANGED <<call, up>>
  <2>1. Sound => ~(call # None /\ call.op = "withdraw")
    <3>1. call # None /\ call.op = "withdraw" /\ Sound => Ours(call.handle) /\ call.handle = h
      BY <1>1 DEF IInv, CallInv, CallMatches, TypeOK, DaemonTypes, OursOnly
    <3> QED BY <1>5, <3>1 DEF Ours, Kinds
  <2>2. DaemonTypes' /\ PlaceInv'
    BY <1>1, <1>5 DEF IInv, TypeOK, DaemonTypes, PlaceInv
  <2> QED BY <1>1, <1>2, <1>5, <2>1, <2>2, Aside DEF Ours
<1> QED BY <1>3, <1>4, <1>5 DEF BreakFails

-----------------------------------------------------------------------------

\* What a handle was made for never changes.
LEMMA OursForever ==
    ASSUME IInv, [Next]_vars, NEW g \in Handles, Ours(g)
    PROVE  Ours(g)'
<1>1. \A h \in Handles : Fresh(h) => whose[h] = None /\ whose[h] \notin Kinds
  BY DEF Fresh, IInv, PlaceInv
<1>2. whose \in [Handles -> Kinds \cup {"other", None}]
  BY DEF IInv, TypeOK, DaemonTypes
<1>3. \/ UNCHANGED whose
      \/ \E h \in Handles : Fresh(h) /\ \E o : whose' = [whose EXCEPT ![h] = o]
  <2>1. ASSUME NEW h \in Handles, ServeBridge(h) \/ ServeOther(h)
        PROVE  Fresh(h) /\ \E o : whose' = [whose EXCEPT ![h] = o]
    BY <2>1 DEF ServeBridge, ServeOther
  <2>2. ASSUME NEW h \in Handles,
               StoreOther(h) \/ Clean(h) \/ BridgeEnds(h) \/ Broken(h) \/ BreakFails(h)
        PROVE  UNCHANGED whose
    BY <2>2 DEF StoreOther, Clean, BridgeEnds, Broken, BreakFails
  <2>3. CASE RefuseBridge \/ StoreBridge \/ ServeDestroy \/ DaemonExits
    BY <2>3 DEF RefuseBridge, StoreBridge, ServeDestroy, DaemonExits
  <2>4. CASE LoseLink \/ Kill \/ CallFails \/ \E i \in Inputs : Enter(i)
    BY <2>4 DEF LoseLink, Kill, CallFails, Enter, daemonVars
  <2>5. CASE ClientStep
    BY <2>5 DEF ClientStep, Prepare, Subscribe, ReadShortcut, Create, Created, SkipFree, Free,
                Freed, daemonVars
  <2>6. CASE HearSignal \/ StreamEnds \/ ReadInput \/ InputFails
    BY <2>6 DEF HearSignal, StreamEnds, ReadInput, InputFails, daemonVars
  <2>7. CASE UNCHANGED vars \/ Idle
    BY <2>7 DEF Idle, vars, daemonVars
  <2> QED BY <2>1, <2>2, <2>3, <2>4, <2>5, <2>6, <2>7 DEF Next
<1> QED BY <1>1, <1>2, <1>3 DEF Ours

\* The handles the client holds after a step are those it held or was answered, and those
\* of a call or an answer were made for it.
LEMMA OursKept ==
    ASSUME IInv, OursOnly, [Next]_vars
    PROVE  OursOnly'
<1> USE CallTypes, ReplyTypes
<1>1. /\ slot \in [Kinds -> Handles \cup {None}]
      /\ call \in Calls \cup {None, Abandoned}
      /\ reply \in Replies \cup {None}
      /\ whose \in [Handles -> Kinds \cup {"other", None}]
  BY DEF IInv, TypeOK, ClientTypes, DaemonTypes
<1>2. ASSUME slot' = slot \/ \E k \in Kinds, h \in Handles :
                                 reply = [handle |-> h] /\ slot' = [slot EXCEPT ![k] = h],
             \/ reply' \in {reply, None, Error, Ok}
             \/ call \in Calls /\ call.op # "bridge" /\ reply' = [handle |-> call.handle],
             \/ call' \in {call, None, Abandoned}
             \/ call' \in Calls /\ call'.op = "bridge"
             \/ \E h \in Handles : call' \in Calls /\ call'.handle = h /\ Ours(h)'
      PROVE  OursOnly'
  <2>1. \A g \in Handles : Ours(g) => Ours(g)'
    BY OursForever
  <2>2. ASSUME NEW k \in Kinds, slot'[k] # None
        PROVE  \E g \in Handles : g = slot'[k] /\ Ours(g)
    BY <1>1, <1>2, <2>2 DEF OursOnly
  <2>3. ASSUME NEW k \in Kinds, slot'[k] # None
        PROVE  Ours(slot[k])'
    BY <2>1, <2>2, <2>3 DEF Ours
  <2>4. ASSUME NEW h \in Handles, reply' = [handle |-> h]
        PROVE  Ours(h)
    BY <1>1, <1>2, <2>4 DEF OursOnly
  <2>5. ASSUME call' \in Calls, call'.op # "bridge"
        PROVE  \E g \in Handles : g = call'.handle /\ (Ours(g) \/ Ours(g)')
    BY <1>1, <1>2, <2>5 DEF OursOnly
  <2>6. ASSUME call' \in Calls, call'.op # "bridge"
        PROVE  Ours(call.handle)'
    BY <2>1, <2>5, <2>6 DEF Ours
  <2> QED BY <2>1, <2>3, <2>4, <2>6 DEF OursOnly
<1>3. ASSUME NEW h \in Handles, ServeBridge(h)
      PROVE  OursOnly'
  <2>1. /\ UNCHANGED <<slot, reply>> /\ call' = [op |-> "store", handle |-> h]
        /\ whose' = [whose EXCEPT ![h] = call.kind] /\ call.kind \in Kinds
    BY <1>1, <1>3 DEF ServeBridge, Sent, clientVars
  <2>2. call' \in Calls /\ call'.handle = h /\ Ours(h)'
    BY <1>1, <2>1 DEF Ours
  <2> QED BY <1>2, <2>1, <2>2
<1>4. CASE StoreBridge
  <2>1. UNCHANGED slot /\ call' = None /\ call \in Calls /\ call.op = "store"
    BY <1>1, <1>4 DEF StoreBridge, Sent, Answer
  <2>2. reply' = reply \/ reply' = [handle |-> call.handle]
    BY <1>4 DEF StoreBridge, Answer
  <2> QED BY <1>2, <2>1, <2>2
<1>5. CASE ServeDestroy
  <2>1. UNCHANGED <<slot, whose>> /\ call \in Calls /\ call.op = "destroy"
    BY <1>1, <1>5 DEF ServeDestroy, Sent
  <2>2. reply' = reply \/ reply' = Error
    BY <1>5 DEF ServeDestroy, Answer
  <2>3. call' = None \/ call' = [op |-> "withdraw", handle |-> call.handle]
    BY <1>5 DEF ServeDestroy, Answer
  <2>4. PICK h \in Handles : h = call.handle /\ Ours(h)
    BY <2>1 DEF OursOnly
  <2>5. Ours(h)'
    BY <2>1, <2>4 DEF Ours
  <2>6. CASE call' = None
    BY <1>2, <2>1, <2>2, <2>6
  <2>7. CASE call' = [op |-> "withdraw", handle |-> call.handle]
    <3>1. call' \in Calls /\ call'.handle = h
      BY <2>4, <2>7
    <3> QED BY <1>2, <2>1, <2>2, <2>5, <3>1
  <2> QED BY <2>3, <2>6, <2>7
<1>6. ASSUME NEW h \in Handles,
             \/ ServeOther(h) \/ StoreOther(h) \/ Clean(h)
             \/ BridgeEnds(h) \/ Broken(h) \/ BreakFails(h)
      PROVE  OursOnly'
  <2>1. UNCHANGED slot /\ call' \in {call, None, Abandoned} /\ reply' \in {reply, Ok}
    BY <1>6 DEF ServeOther, StoreOther, Clean, BridgeEnds, Broken, BreakFails, Answer, clientVars
  <2> QED BY <1>2, <2>1
<1>7. CASE RefuseBridge \/ DaemonExits \/ LoseLink \/ Kill \/ CallFails \/ Idle
             \/ \E i \in Inputs : Enter(i)
  <2>1. UNCHANGED slot /\ call' \in {call, None} /\ reply' \in {reply, Error}
    BY <1>7 DEF RefuseBridge, Answer, DaemonExits, LoseLink, Kill, CallFails, Idle, Enter,
                vars, daemonVars, clientVars
  <2> QED BY <1>2, <2>1
<1>8. ASSUME NEW k \in Kinds, Create(k) PROVE OursOnly'
  <2>1. UNCHANGED <<slot, reply>> /\ call' \in {call, [op |-> "bridge", kind |-> k]}
    BY <1>8 DEF Create, Ask
  <2> QED BY <1>2, <2>1
<1>9. ASSUME NEW k \in Kinds, Created(k) PROVE OursOnly'
  <2>1. reply' = None /\ call' = call
    BY <1>9 DEF Created, daemonVars
  <2>2. slot' = slot \/ (reply \in [handle : Handles] /\ slot' = [slot EXCEPT ![k] = reply.handle])
    BY <1>9 DEF Created, HandleIn
  <2>3. ASSUME reply \in [handle : Handles]
        PROVE  reply.handle \in Handles /\ reply = [handle |-> reply.handle]
    BY <2>3
  <2> QED BY <1>2, <2>1, <2>2, <2>3
<1>10. ASSUME NEW k \in Kinds, Free(k) PROVE OursOnly'
  <2>1. /\ UNCHANGED <<slot, reply, whose>> /\ slot[k] # None
        /\ call' \in {call, [op |-> "destroy", handle |-> slot[k]]}
    BY <1>10 DEF Free, Ask
  <2>2. PICK h \in Handles : h = slot[k] /\ Ours(h)
    BY <1>1, <2>1 DEF OursOnly
  <2>3. Ours(h)'
    BY <2>1, <2>2 DEF Ours
  <2>4. CASE call' = call
    BY <1>2, <2>1, <2>4
  <2>5. CASE call' = [op |-> "destroy", handle |-> h]
    <3>1. call' \in Calls /\ call'.handle = h
      BY <2>5
    <3> QED BY <1>2, <2>1, <2>3, <3>1
  <2> QED BY <2>1, <2>2, <2>4, <2>5
<1>11. ASSUME NEW k \in Kinds, SkipFree(k) \/ Freed(k) PROVE OursOnly'
  <2>1. UNCHANGED <<slot, call>> /\ reply' \in {reply, None}
    BY <1>11 DEF SkipFree, Freed, daemonVars
  <2> QED BY <1>2, <2>1
<1>12. CASE \/ Prepare \/ Subscribe \/ ReadShortcut
            \/ HearSignal \/ StreamEnds \/ ReadInput \/ InputFails \/ UNCHANGED vars
  <2>1. UNCHANGED <<slot, call, reply>>
    BY <1>12 DEF Prepare, Subscribe, ReadShortcut, HearSignal, StreamEnds, ReadInput, InputFails,
                 vars, daemonVars, clientVars
  <2> QED BY <1>2, <2>1
<1> QED BY <1>3, <1>4, <1>5, <1>6, <1>7, <1>8, <1>9, <1>10, <1>11, <1>12 DEF Next, ClientStep

LEMMA NextKeeps == IInv /\ OursOnly /\ [Next]_vars => (IInv /\ OursOnly)'
<1> SUFFICES ASSUME IInv, OursOnly, [Next]_vars PROVE IInv'
  BY OursKept
<1>1. CASE UNCHANGED vars
  <2>1. /\ UNCHANGED <<daemonVars, asked, reply, slot, link, late>>
        /\ UNCHANGED <<place, ended, whose, lock, call, up, panicked>>
        /\ UNCHANGED <<pc, listening, heard, input, spinning>>
    BY <1>1 DEF vars, daemonVars, clientVars, lifecycle
  <2>2. DaemonTypes' /\ ClientTypes'
    BY <2>1 DEF IInv, TypeOK, DaemonTypes, ClientTypes
  <2>3. PlaceInv'
    BY <2>1 DEF IInv, PlaceInv
  <2>4. Sound => (call # None /\ call.op = "withdraw" => lock' = call.handle)
    BY <2>1 DEF IInv, CallInv, CallMatches
  <2> QED BY <2>1, <2>2, <2>3, <2>4, Aside DEF Ours
<1>2. CASE Idle
  BY <1>1, <1>2 DEF Idle
<1>3. ASSUME NEW h \in Handles,
             \/ ServeBridge(h) \/ ServeOther(h) \/ StoreOther(h) \/ Clean(h)
             \/ BridgeEnds(h) \/ Broken(h) \/ BreakFails(h)
      PROVE  IInv'
  BY <1>3, ServeBridgeKeeps, ServeOtherKeeps, StoreOtherKeeps, CleanKeeps, BridgeEndsKeeps,
     BrokenKeeps, BreakFailsKeeps
<1>4. CASE RefuseBridge \/ StoreBridge \/ ServeDestroy \/ DaemonExits
  BY <1>4, RefuseBridgeKeeps, StoreBridgeKeeps, ServeDestroyKeeps, DaemonExitsKeeps
<1>5. CASE LoseLink \/ Kill \/ CallFails
  BY <1>5, LoseLinkKeeps, KillKeeps, CallFailsKeeps
<1>6. ASSUME NEW i \in Inputs, Enter(i) PROVE IInv'
  BY <1>6, EnterKeeps
<1>7. CASE ClientStep
  <2>1. CASE Prepare \/ Subscribe \/ ReadShortcut
    BY <2>1, PrepareKeeps, SubscribeKeeps, ReadShortcutKeeps
  <2>2. ASSUME NEW k \in Kinds, Create(k) \/ Created(k) \/ SkipFree(k) \/ Free(k) \/ Freed(k)
        PROVE  IInv'
    BY <2>2, CreateKeeps, CreatedKeeps, SkipFreeKeeps, FreeKeeps, FreedKeeps
  <2> QED BY <1>7, <2>1, <2>2 DEF ClientStep
<1>8. CASE HearSignal \/ StreamEnds \/ ReadInput \/ InputFails
  BY <1>8, HearSignalKeeps, StreamEndsKeeps, ReadInputKeeps, InputFailsKeeps
<1> QED BY <1>1, <1>2, <1>3, <1>4, <1>5, <1>6, <1>7, <1>8 DEF Next

-----------------------------------------------------------------------------
(* The signals.                                                            *)

LEMMA UnreadAppend ==
    ASSUME NEW h \in Handles, heard \in Seq(Handles), heard' = Append(heard, h)
    PROVE  Unread(h)' /\ \A g : Unread(g) => Unread(g)'
<1>1. /\ Len(heard') = Len(heard) + 1 /\ Len(heard) \in Nat /\ heard'[Len(heard) + 1] = h
      /\ \A i \in 1 .. Len(heard) : heard'[i] = heard[i]
  OBVIOUS
<1> QED BY <1>1 DEF Unread

LEMMA UnreadTail ==
    ASSUME heard \in Seq(Handles), heard # <<>>, heard' = Tail(heard), NEW g, Unread(g), Head(heard) # g
    PROVE  Unread(g)'
<1>1. /\ Head(heard) = heard[1] /\ Len(heard) \in Nat \ {0} /\ Len(heard') = Len(heard) - 1
      /\ \A i \in 1 .. Len(heard) - 1 : heard'[i] = heard[i + 1]
  OBVIOUS
<1>2. PICK i \in 1 .. Len(heard) : heard[i] = g
  BY DEF Unread
<1>3. i - 1 \in 1 .. Len(heard) - 1 /\ (i - 1) + 1 = i
  BY <1>1, <1>2
<1> QED BY <1>1, <1>2, <1>3 DEF Unread

\* A step that announces nothing, answers with no handle and fills no slot.
LEMMA WatchStays ==
    ASSUME ListenInv,
           slot' = slot,
           \A h \in Handles : place'[h] = "announced" => place[h] = "announced",
           \A k \in Kinds : slot[k] # None => slot[k] \in Handles,
           link' => link,
           Watching' => Watching /\ UNCHANGED <<listening, heard>>,
           \A h \in Handles : reply' = [handle |-> h] =>
               reply = [handle |-> h] /\ (pc' = pc \/ pc' = "killed")
    PROVE  ListenInv'
<1>1. Watching' => listening'
  BY DEF ListenInv
<1>2. ASSUME Watching', NEW k \in Kinds, slot'[k] # None, place'[slot'[k]] = "announced"
      PROVE  Unread(slot[k])'
  <2>1. Watching /\ heard' = heard /\ slot'[k] = slot[k]
    BY <1>2
  <2>2. slot[k] \in Handles /\ place[slot[k]] = "announced"
    BY <1>2, <2>1
  <2>3. Unread(slot[k])
    BY <2>1, <2>2 DEF ListenInv
  <2> QED BY <2>1, <2>3 DEF Unread
<1>3. ASSUME NEW h \in Handles, reply' = [handle |-> h]
      PROVE  /\ pc' \in Kinds \cup {"killed"}
             /\ (link' /\ pc' \in Kinds /\ place'[h] = "announced") => Unread(h)'
  <2>1. reply = [handle |-> h] /\ pc \in Kinds \cup {"killed"} /\ (pc' = pc \/ pc' = "killed")
    BY <1>3 DEF ListenInv
  <2>2. ASSUME link', pc' \in Kinds, place'[h] = "announced" PROVE Unread(h)'
    <3>1. pc' = pc /\ link /\ place[h] = "announced"
      BY <2>1, <2>2 DEF Kinds
    <3>2. Watching'
      BY <2>2 DEF Watching
    <3> QED BY <2>1, <2>2, <3>1, <3>2 DEF ListenInv, Unread
  <2> QED BY <2>1, <2>2
<1>4. \A k \in Kinds : Watching' /\ slot'[k] # None /\ place'[slot'[k]] = "announced"
                          => Unread(slot[k])'
  BY <1>2
<1> QED BY <1>1, <1>3, <1>4 DEF ListenInv

\* The client goes on, or ends, with no answer under way.
LEMMA WatchMovesOn ==
    ASSUME IInv, ListenInv, UNCHANGED <<daemonVars, reply, slot, link>>, pc \notin Kinds \cup {"killed"},
           Watching' => Watching /\ UNCHANGED <<listening, heard>>
    PROVE  ListenInv'
<1>1. \A h \in Handles : reply # [handle |-> h]
  BY DEF ListenInv
<1> QED BY <1>1, WatchStays DEF IInv, TypeOK, ClientTypes, daemonVars, lifecycle

LEMMA CleanUpWatch ==
    ASSUME IInv, ListenInv, UNCHANGED <<daemonVars, reply, slot, link>>, CleanUp,
           pc \notin Kinds \cup {"killed"}
    PROVE  ListenInv'
BY WatchMovesOn DEF CleanUp, GoOn, Watching, Kinds

LEMMA BrokenWatch ==
    ASSUME IInv, ListenInv, NEW h \in Handles, Broken(h)
    PROVE  ListenInv'
<1> USE ReplyTypes
<1>1. /\ place' = [place EXCEPT ![h] = "announced"] /\ (reply' = Ok \/ reply' = reply)
      /\ UNCHANGED <<pc, link, slot, listening>>
      /\ heard' = IF KeepsSignals /\ Connected THEN Append(heard, h) ELSE heard
  BY DEF Broken, Announce, Move, Signal, Answer
<1>2. place \in [Handles -> Places] /\ heard \in Seq(Handles)
      /\ \A k \in Kinds : slot[k] # None => slot[k] \in Handles
  BY DEF IInv, TypeOK, DaemonTypes, ClientTypes
<1>3. ASSUME Watching PROVE Unread(h)' /\ \A g : Unread(g) => Unread(g)'
  <2>1. listening /\ Connected
    BY <1>3 DEF ListenInv, Watching, Connected, Finished, Kinds
  <2>2. heard' = Append(heard, h)
    BY <1>1, <2>1 DEF KeepsSignals
  <2> QED BY <1>2, <2>2, UnreadAppend
<1>4. Watching' <=> Watching
  BY <1>1 DEF Watching
<1>5. ASSUME Watching, NEW g \in Handles, place[g] = "announced" => Unread(g), place'[g] = "announced"
      PROVE  Unread(g)'
  <2>1. g = h \/ place[g] = "announced"
    BY <1>1, <1>2, <1>5
  <2> QED BY <1>3, <1>5, <2>1
<1>6. ASSUME Watching, NEW k \in Kinds, slot[k] # None, place'[slot[k]] = "announced"
      PROVE  Unread(slot[k])'
  <2>1. PICK g \in Handles : g = slot[k]
    BY <1>2, <1>6
  <2>2. place[g] = "announced" => Unread(g)
    BY <1>6, <2>1 DEF ListenInv
  <2>3. Unread(g)'
    BY <1>5, <1>6, <2>1, <2>2
  <2> QED BY <1>1, <2>1, <2>3 DEF Unread
<1>7. ASSUME NEW g \in Handles, reply' = [handle |-> g]
      PROVE  /\ pc' \in Kinds \cup {"killed"}
             /\ (link' /\ pc' \in Kinds /\ place'[g] = "announced") => Unread(g)'
  <2>1. reply = [handle |-> g]
    BY <1>1, <1>7
  <2>2. ASSUME link, pc \in Kinds, place'[g] = "announced" PROVE Unread(g)'
    <3>1. Watching /\ (place[g] = "announced" => Unread(g))
      BY <2>1, <2>2 DEF ListenInv, Watching
    <3> QED BY <1>5, <2>2, <3>1
  <2> QED BY <1>1, <2>1, <2>2 DEF ListenInv
<1>8. \A k \in Kinds : Watching' /\ slot'[k] # None /\ place'[slot'[k]] = "announced"
                          => Unread(slot[k])'
  BY <1>1, <1>4, <1>6
<1> QED BY <1>1, <1>4, <1>7, <1>8 DEF ListenInv

LEMMA CreatedWatch ==
    ASSUME IInv, ListenInv, NEW k \in Kinds, Created(k)
    PROVE  ListenInv'
<1> USE ReplyTypes
<1>1. pc = k /\ reply' = None /\ UNCHANGED <<place, link>>
  BY DEF Created, daemonVars, lifecycle
<1>2. \A h \in Handles : reply' # [handle |-> h]
  BY <1>1
<1>3. CASE CleanUp
  <2>1. ~Watching'
    BY <1>3 DEF CleanUp, GoOn, Watching, Kinds
  <2> QED BY <1>2, <2>1 DEF ListenInv
<1>4. CASE /\ reply \in [handle : Handles] /\ slot' = [slot EXCEPT ![k] = HandleIn(reply)]
           /\ GoOn(IF k = "mouse" THEN AfterMouse ELSE "waiting")
  <2>1. PICK h \in Handles : reply = [handle |-> h]
    BY <1>4
  <2>2. slot' = [slot EXCEPT ![k] = h] /\ slot \in [Kinds -> Handles \cup {None}]
    BY <1>4, <2>1 DEF HandleIn, IInv, TypeOK, ClientTypes
  <2>3. UNCHANGED <<listening, heard>>
    BY <1>4 DEF GoOn, AfterMouse
  <2>4. Watching' => Watching
    BY <1>1 DEF Watching
  <2>5. ASSUME Watching', NEW m \in Kinds, slot'[m] # None, place'[slot'[m]] = "announced"
        PROVE  Unread(slot[m])'
    <3>1. CASE m = k
      <4>1. slot'[m] = h /\ place[h] = "announced"
        BY <1>1, <2>2, <2>5, <3>1
      <4>2. Unread(h)
        BY <1>1, <2>1, <2>4, <2>5, <4>1 DEF ListenInv, Watching
      <4> QED BY <2>3, <4>1, <4>2 DEF Unread
    <3>2. CASE m # k
      <4>1. slot'[m] = slot[m]
        BY <2>2, <3>2
      <4>2. Unread(slot[m])
        BY <1>1, <2>4, <2>5, <4>1 DEF ListenInv
      <4> QED BY <2>3, <4>1, <4>2 DEF Unread
    <3> QED BY <3>1, <3>2
  <2>6. \A m \in Kinds : Watching' /\ slot'[m] # None /\ place'[slot'[m]] = "announced"
                            => Unread(slot[m])'
    BY <2>5
  <2> QED BY <1>2, <2>3, <2>4, <2>6 DEF ListenInv
<1> QED BY <1>3, <1>4 DEF Created

LEMMA HearSignalWatch ==
    ASSUME IInv, ListenInv, HearSignal
    PROVE  ListenInv'
<1>1. CASE CleanUp
  BY <1>1, CleanUpWatch DEF HearSignal, Kinds
<1>2. CASE ~CleanUp
  <2>1. /\ pc = "waiting" /\ heard # <<>> /\ ~IsOwn(Head(heard)) /\ heard' = Tail(heard)
        /\ UNCHANGED <<pc, listening, reply, slot, link, place>>
    BY <1>2 DEF HearSignal, daemonVars, lifecycle
  <2>2. heard \in Seq(Handles)
    BY DEF IInv, TypeOK, ClientTypes
  <2>3. \A h \in Handles : reply' # [handle |-> h]
    BY <2>1 DEF ListenInv, Kinds
  <2>4. Watching' <=> Watching
    BY <2>1 DEF Watching
  <2>5. ASSUME Watching, NEW k \in Kinds, slot[k] # None, place[slot[k]] = "announced"
        PROVE  Unread(slot[k])'
    <3>1. Unread(slot[k]) /\ Head(heard) # slot[k]
      BY <2>1, <2>5 DEF ListenInv, IsOwn
    <3> DEFINE g == slot[k]
    <3> HIDE DEF g
    <3>2. \E i \in 1 .. Len(heard') : heard'[i] = g
      <4>1. Unread(g) /\ Head(heard) # g
        BY <3>1 DEF g
      <4> QED BY <2>1, <2>2, <4>1, UnreadTail DEF Unread
    <3> QED BY <2>1, <3>2 DEF Unread, g
  <2>6. \A k \in Kinds : Watching' /\ slot'[k] # None /\ place'[slot'[k]] = "announced"
                            => Unread(slot[k])'
    BY <2>1, <2>4, <2>5
  <2> QED BY <2>1, <2>3, <2>4, <2>6 DEF ListenInv
<1> QED BY <1>1, <1>2

LEMMA StoreBridgeWatch ==
    ASSUME IInv, ListenInv, StoreBridge
    PROVE  ListenInv'
<1> USE CallTypes, ReplyTypes
<1> DEFINE h == call.handle
<1>1. /\ call \in Calls /\ call.op = "store" /\ h \in Handles /\ up
      /\ place' = [place EXCEPT ![h] = "held"]
      /\ UNCHANGED <<link, pc, slot, listening, heard>>
      /\ reply' = IF Connected THEN [handle |-> h] ELSE reply
  <2>1. call \in Calls /\ call.op = "store" /\ up
    BY DEF StoreBridge, Sent, IInv, TypeOK, DaemonTypes
  <2> QED BY <2>1 DEF StoreBridge, Answer, Hold, Move
<1> HIDE DEF h
<1>2. \A g \in Handles : place'[g] = "announced" => place[g] = "announced" /\ g # h
  BY <1>1 DEF IInv, TypeOK, DaemonTypes
<1>3. CASE Connected
  <2>1. pc \in Kinds
    <3>1. Sound
      BY <1>1, <1>3 DEF Connected, Finished, Sound
    <3> QED BY <1>1, <3>1 DEF IInv, CallInv, CallMatches
  <2>2. \A g \in Handles : reply' = [handle |-> g] => g = h
    BY <1>1, <1>3
  <2>3. Watching' <=> Watching
    BY <1>1 DEF Watching
  <2>4. \A k \in Kinds : slot[k] # None => slot[k] \in Handles
    BY DEF IInv, TypeOK, ClientTypes
  <2>5. \A k \in Kinds : Watching' /\ slot'[k] # None /\ place'[slot'[k]] = "announced"
                            => Unread(slot[k])'
    BY <1>1, <1>2, <2>3, <2>4 DEF ListenInv, Unread
  <2> QED BY <1>1, <1>2, <2>1, <2>2, <2>3, <2>5 DEF ListenInv
<1>4. CASE ~Connected
  BY <1>1, <1>2, <1>4, WatchStays DEF IInv, TypeOK, ClientTypes, Watching
<1> QED BY <1>3, <1>4

\* The daemon's other steps answer with no handle and announce nothing.
LEMMA DaemonWatch ==
    ASSUME IInv, ListenInv, UNCHANGED <<pc, slot, listening, heard, link>>,
           reply' = reply \/ reply' = Error,
           \/ UNCHANGED place
           \/ \E h \in Handles, p \in {"starting", "held", "withdrawn"} :
                 place' = [place EXCEPT ![h] = p]
    PROVE  ListenInv'
<1>1. \A g \in Handles : place'[g] = "announced" => place[g] = "announced"
  BY DEF IInv, TypeOK, DaemonTypes
<1>2. \A g \in Handles : reply' = [handle |-> g] => reply = [handle |-> g]
  BY ReplyTypes
<1> QED BY <1>1, <1>2, WatchStays DEF IInv, TypeOK, ClientTypes, Watching

LEMMA NextWatches == IInv /\ ListenInv /\ [Next]_vars => ListenInv'
<1> SUFFICES ASSUME IInv, ListenInv, [Next]_vars PROVE ListenInv'
  OBVIOUS
<1> USE ReplyTypes
<1>1. \A k \in Kinds : slot[k] # None => slot[k] \in Handles
  BY DEF IInv, TypeOK, ClientTypes
<1>2. CASE UNCHANGED vars \/ Idle \/ \E i \in Inputs : Enter(i)
  <2>1. UNCHANGED <<place, reply, slot, link, pc, listening, heard>>
    BY <1>2 DEF Idle, Enter, vars, daemonVars, clientVars, lifecycle
  <2> QED BY <2>1, DaemonWatch
<1>3. ASSUME NEW h \in Handles, ServeBridge(h) \/ ServeOther(h) \/ StoreOther(h) \/ Clean(h)
                                \/ BridgeEnds(h) \/ BreakFails(h)
      PROVE  ListenInv'
  <2>1. /\ UNCHANGED <<pc, reply, slot, listening, heard, link>>
        /\ \/ UNCHANGED place
           \/ \E p \in {"starting", "held", "withdrawn"} : place' = [place EXCEPT ![h] = p]
    BY <1>3 DEF ServeBridge, ServeOther, StoreOther, Clean, BridgeEnds, BreakFails, Start, Hold,
                Withdraw, End, Move, clientVars, lifecycle
  <2> QED BY <2>1, DaemonWatch
<1>4. CASE RefuseBridge \/ DaemonExits
  <2>1. UNCHANGED <<place, pc, slot, listening, heard, link>> /\ (reply' = reply \/ reply' = Error)
    BY <1>4 DEF RefuseBridge, DaemonExits, Answer, clientVars, lifecycle
  <2> QED BY <2>1, DaemonWatch
<1>5. CASE ServeDestroy
  <2>1. UNCHANGED <<pc, slot, listening, heard, link>> /\ (reply' = reply \/ reply' = Error)
    BY <1>5 DEF ServeDestroy, Answer
  <2>2. call.handle \in Handles
    BY <1>5, CallTypes DEF ServeDestroy, Sent, IInv, TypeOK, DaemonTypes
  <2>3. UNCHANGED place \/ place' = [place EXCEPT ![call.handle] = "withdrawn"]
    BY <1>5 DEF ServeDestroy, Withdraw, Move, lifecycle
  <2> QED BY <2>1, <2>2, <2>3, DaemonWatch
<1>6. CASE LoseLink \/ CallFails
  <2>1. UNCHANGED <<place, pc, slot, listening, heard>> /\ (reply' = reply \/ reply' = Error)
        /\ (link' => link)
    BY <1>6 DEF LoseLink, CallFails, daemonVars, clientVars, lifecycle
  <2>2. \A g \in Handles : reply' = [handle |-> g] => reply = [handle |-> g]
    BY <2>1
  <2> QED BY <1>1, <2>1, <2>2, WatchStays DEF Watching
<1>7. CASE Kill
  <2>1. pc' = "killed" /\ UNCHANGED <<place, reply, slot, link>>
    BY <1>7 DEF Kill, daemonVars, lifecycle
  <2>2. ~Watching'
    BY <2>1 DEF Watching, Kinds
  <2> QED BY <1>1, <2>1, <2>2, WatchStays
<1>8. ASSUME NEW k \in Kinds, Create(k) \/ Free(k) PROVE ListenInv'
  <2>1. UNCHANGED <<place, reply, slot, link, pc, listening, heard>>
    BY <1>8 DEF Create, Free, lifecycle
  <2> QED BY <2>1, DaemonWatch
<1>9. ASSUME NEW k \in Kinds, SkipFree(k) \/ Freed(k) PROVE ListenInv'
  <2>1. /\ pc \notin Kinds \cup {"killed"} /\ pc' \in {"free mouse", "done"}
        /\ UNCHANGED <<place, slot, link>> /\ (reply' = reply \/ reply' = None)
    BY <1>9 DEF SkipFree, Freed, AtFree, AfterFree, Kinds, daemonVars, lifecycle
  <2>2. ~Watching' /\ \A h \in Handles : reply' # [handle |-> h]
    BY <2>1 DEF ListenInv, Watching, Kinds
  <2> QED BY <1>1, <2>1, <2>2, WatchStays
<1>10. CASE Prepare
  <2>1. ~Watching' /\ pc \notin Kinds \cup {"killed"}
    BY <1>10 DEF Prepare, Watching, Kinds
  <2> QED BY <1>10, <2>1, WatchMovesOn DEF Prepare
<1>11. CASE Subscribe
  <2>1. CASE CleanUp
    BY <1>11, <2>1, CleanUpWatch DEF Subscribe, Kinds
  <2>2. CASE ~CleanUp
    <3>1. listening' = TRUE /\ pc = "subscribe" /\ UNCHANGED <<slot, reply, place>>
      BY <1>11, <2>2 DEF Subscribe, daemonVars, lifecycle
    <3>2. \A k \in Kinds : slot[k] = None
      BY <3>1 DEF IInv, SlotInv, Kinds
    <3>3. \A h \in Handles : reply' # [handle |-> h]
      BY <3>1 DEF ListenInv, Kinds
    <3> QED BY <3>1, <3>2, <3>3 DEF ListenInv
  <2> QED BY <2>1, <2>2
<1>12. CASE ReadShortcut
  <2>1. CASE CleanUp
    BY <1>12, <2>1, CleanUpWatch DEF ReadShortcut, Kinds
  <2>2. CASE GoOn("keyboard")
    <3>1. pc = "shortcut" /\ UNCHANGED <<listening, heard>>
      BY <1>12, <2>2 DEF ReadShortcut, GoOn
    <3> QED BY <1>12, <3>1, WatchMovesOn DEF ReadShortcut, Watching, Kinds
  <2> QED BY <1>12, <2>1, <2>2 DEF ReadShortcut
<1>13. CASE StreamEnds \/ InputFails
  BY <1>13, CleanUpWatch DEF StreamEnds, InputFails, Kinds
<1>14. CASE ReadInput
  <2>1. CASE CleanUp
    BY <1>14, <2>1, CleanUpWatch DEF ReadInput, Kinds
  <2>2. CASE ~CleanUp
    BY <1>14, <2>2, WatchMovesOn DEF ReadInput, Watching, Kinds
  <2> QED BY <2>1, <2>2
<1> QED
  BY <1>2, <1>3, <1>4, <1>5, <1>6, <1>7, <1>8, <1>9, <1>10, <1>11, <1>12, <1>13, <1>14,
     BrokenWatch, CreatedWatch, HearSignalWatch, StoreBridgeWatch DEF Next, ClientStep

\* In every behaviour, every bridge made for the client is announced or within reach of it.
THEOREM Invariance == Spec => []IInv
<1>1. Init => IInv /\ OursOnly
  BY InitHolds, ReplyTypes, CallTypes DEF Init, OursOnly
<1>2. IInv /\ OursOnly /\ [Next]_vars => (IInv /\ OursOnly)' BY NextKeeps
<1> QED BY <1>1, <1>2, PTL DEF Spec

\* The variables keep their types, for any number of handles.
THEOREM TypeCorrect == Spec => []TypeOK
<1>1. IInv => TypeOK BY DEF IInv
<1> QED BY <1>1, Invariance, PTL

\* A client that exits by itself, while the daemon and the bus work, leaves no bridge
\* behind: each of its bridges has ended and is announced, wherever its run was cut short
\* (bridge.rs:65-89, main.rs:330-352).
THEOREM ExitIsClean == Spec => []CleanExit
<1>1. IInv => CleanExit
  <2> SUFFICES ASSUME IInv, pc = "done", up, link, NEW h \in Handles, Ours(h)
               PROVE  h \in ended /\ place[h] = "announced"
    BY DEF CleanExit
  <2>1. Sound
    BY DEF Sound
  <2>2. reply = None /\ call = None
    BY <2>1 DEF IInv, CallInv, OneCall, AtFree, Kinds
  <2>3. place[h] = "announced"
    BY <2>1, <2>2, ReachBySlot DEF IInv, Accounted, Passed
  <2> QED BY <2>3 DEF IInv, PlaceInv
<1> QED BY <1>1, Invariance, PTL

\* A client that waits has the signal of every break of its own bridges still to read,
\* whenever the bridge broke and however many others broke meanwhile: no break is missed
\* between the call and the wait (bridge.rs:96, 119-139).
THEOREM NoBreakIsMissed == Spec => []BreakIsUnread
<1>1. Init => ListenInv
  BY ReplyTypes DEF Init, ListenInv, Watching, Kinds
<1>2. IInv /\ ListenInv /\ [Next]_vars => ListenInv' BY NextWatches
<1>3. ListenInv => BreakIsUnread
  BY DEF ListenInv, BreakIsUnread, Watching
<1> QED BY <1>1, <1>2, <1>3, Invariance, PTL DEF Spec
===============================================================================
