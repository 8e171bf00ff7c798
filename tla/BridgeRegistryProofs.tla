------------------------- MODULE BridgeRegistryProofs -------------------------
(***************************************************************************)
(* Theorems about BridgeRegistry for every number of clients, devices,     *)
(* targets and handles and every capacity of the channel.                  *)
(***************************************************************************)
EXTENDS BridgeRegistry, SequenceTheorems, FiniteSetTheorems, TLAPS

USE BoundsAssumption DEF OwnedBy, Remove, Finished, CancelSeen

-----------------------------------------------------------------------------
(* Membership and order in a sequence.                                     *)

LEMMA InSeqAppend ==
  ASSUME NEW S, NEW s \in Seq(S), NEW e \in S, NEW x
  PROVE  InSeq(x, Append(s, e)) <=> InSeq(x, s) \/ x = e
  BY AppendProperties DEF InSeq

LEMMA InSeqTail ==
  ASSUME NEW S, NEW s \in Seq(S), s # <<>>, NEW x
  PROVE  InSeq(x, s) <=> x = Head(s) \/ InSeq(x, Tail(s))
<1>1. /\ Head(s) = s[1] /\ Len(s) \in Nat /\ Len(s) >= 1
      /\ Len(Tail(s)) = Len(s) - 1
      /\ \A i \in 1 .. Len(Tail(s)) : Tail(s)[i] = s[i + 1]
  BY HeadTailProperties, LenProperties, EmptySeq
<1>2. ASSUME InSeq(x, s)
      PROVE  x = Head(s) \/ InSeq(x, Tail(s))
  <2>1. PICK i \in 1 .. Len(s) : s[i] = x
    BY <1>2 DEF InSeq
  <2>2. CASE i = 1
    BY <1>1, <2>1, <2>2
  <2>3. CASE i # 1
    <3>1. i - 1 \in 1 .. Len(Tail(s)) /\ Tail(s)[i - 1] = x
      BY <1>1, <2>1, <2>3
    <3>2. QED
      BY <3>1 DEF InSeq
  <2>4. QED
    BY <2>2, <2>3
<1>3. ASSUME x = Head(s) \/ InSeq(x, Tail(s))
      PROVE  InSeq(x, s)
  <2>1. CASE x = Head(s)
    BY <1>1, <2>1 DEF InSeq
  <2>2. CASE InSeq(x, Tail(s))
    <3>1. PICK i \in 1 .. Len(Tail(s)) : Tail(s)[i] = x
      BY <2>2 DEF InSeq
    <3>2. i + 1 \in 1 .. Len(s) /\ s[i + 1] = x
      BY <1>1, <3>1
    <3>3. QED
      BY <3>2 DEF InSeq
  <2>3. QED
    BY <1>3, <2>1, <2>2
<1>4. QED
  BY <1>2, <1>3

LEMMA DistinctAppend ==
  ASSUME NEW S, NEW s \in Seq(S), Distinct(s), NEW e \in S, ~InSeq(e, s)
  PROVE  Distinct(Append(s, e))
  BY AppendProperties, LenProperties DEF Distinct, InSeq

LEMMA DistinctTail ==
  ASSUME NEW S, NEW s \in Seq(S), s # <<>>, Distinct(s)
  PROVE  Distinct(Tail(s)) /\ ~InSeq(Head(s), Tail(s))
<1>1. /\ Head(s) = s[1] /\ Len(s) \in Nat /\ Len(s) >= 1
      /\ Len(Tail(s)) = Len(s) - 1
      /\ \A i \in 1 .. Len(Tail(s)) : Tail(s)[i] = s[i + 1]
  BY HeadTailProperties, LenProperties, EmptySeq
<1>2. \A i \in 1 .. Len(Tail(s)) : i + 1 \in 1 .. Len(s) /\ i + 1 # 1 /\ 1 \in 1 .. Len(s)
  BY <1>1
<1>3. Distinct(Tail(s))
  <2>1. ASSUME NEW i \in 1 .. Len(Tail(s)), NEW j \in 1 .. Len(Tail(s)),
               Tail(s)[i] = Tail(s)[j]
        PROVE  i = j
    <3>1. s[i + 1] = s[j + 1]
      BY <1>1, <2>1
    <3>2. i + 1 = j + 1
      BY <1>2, <3>1 DEF Distinct
    <3>3. QED
      BY <3>2, <1>1
  <2>2. QED
    BY <2>1 DEF Distinct
<1>4. ~InSeq(Head(s), Tail(s))
  BY <1>1, <1>2 DEF InSeq, Distinct
<1>5. QED
  BY <1>3, <1>4

LEMMA BeforeAppend ==
  ASSUME NEW S, NEW s \in Seq(S), NEW e \in S, NEW x, NEW y
  PROVE  /\ Before(x, y, s) => Before(x, y, Append(s, e))
         /\ InSeq(x, s) => Before(x, e, Append(s, e))
  BY AppendProperties, LenProperties DEF Before, InSeq

LEMMA BeforeTail ==
  ASSUME NEW S, NEW s \in Seq(S), s # <<>>, NEW x, NEW y,
         Before(x, y, s), Head(s) # x
  PROVE  Before(x, y, Tail(s))
<1>1. /\ Head(s) = s[1] /\ Len(s) \in Nat
      /\ Len(Tail(s)) = Len(s) - 1
      /\ \A i \in 1 .. Len(Tail(s)) : Tail(s)[i] = s[i + 1]
  BY HeadTailProperties, LenProperties, EmptySeq
<1>2. PICK i \in 1 .. Len(s), j \in 1 .. Len(s) : i < j /\ s[i] = x /\ s[j] = y
  BY DEF Before
<1>3. /\ i - 1 \in 1 .. Len(Tail(s)) /\ j - 1 \in 1 .. Len(Tail(s)) /\ i - 1 < j - 1
      /\ Tail(s)[i - 1] = x /\ Tail(s)[j - 1] = y
  BY <1>1, <1>2
<1>4. QED
  BY <1>3 DEF Before

LEMMA BeforeHead ==
  ASSUME NEW S, NEW s \in Seq(S), s # <<>>, Distinct(s), NEW x, NEW y,
         Before(x, y, s)
  PROVE  Head(s) # y
<1>1. Head(s) = s[1] /\ Len(s) \in Nat /\ 1 \in 1 .. Len(s)
  BY HeadTailProperties, LenProperties, EmptySeq
<1>2. PICK i \in 1 .. Len(s), j \in 1 .. Len(s) : i < j /\ s[j] = y
  BY DEF Before
<1>3. j # 1
  BY <1>1, <1>2
<1>4. QED
  BY <1>1, <1>2, <1>3 DEF Distinct

-----------------------------------------------------------------------------
(* Type correctness.                                                       *)

LEMMA GiveUpType ==
  ASSUME TypeOK, GiveUp
  PROVE  TypeOK'
<1> USE DEF TypeOK, busVars
<1>1. CASE Holds("handler") /\ Answer(Abandoned) /\ lockQ' = Tail(lockQ) /\ UNCHANGED phase
  <2>1. call' \in [Clients -> Requests \cup {None, Abandoned}]
    BY <1>1 DEF Answer
  <2>2. lockQ' \in Seq(Actors)
    BY <1>1 DEF Holds
  <2>3. QED
    BY <1>1, <2>1, <2>2 DEF GiveUp, Answer
<1>2. CASE phase' = "stopped" /\ UNCHANGED <<call, serving, lockQ>>
  BY <1>2 DEF GiveUp
<1>3. QED
  BY <1>1, <1>2 DEF GiveUp

\* The variables only ever hold values of their types.
THEOREM TypeCorrect == Spec => []TypeOK
<1>1. Init => TypeOK
  BY DEF Init, TypeOK, Ids, Actors, Cleaners
<1>2. TypeOK /\ [Next]_vars => TypeOK'
  <2> SUFFICES ASSUME TypeOK, [Next]_vars
               PROVE  TypeOK'
    OBVIOUS
  <2> USE DEF TypeOK, busVars, callVars, tableVars
  <2>1. CASE Subscribe
    BY <2>1 DEF Subscribe
  <2>3. ASSUME NEW c \in Clients, NEW request \in Requests, Invoke(c, request)
        PROVE  TypeOK'
    BY <2>3 DEF Invoke
  <2>4. ASSUME NEW c \in Clients, Leave(c)
        PROVE  TypeOK'
    BY <2>4 DEF Leave, Publish
  <2>5. ASSUME NEW c \in Clients, ReleaseName(c)
        PROVE  TypeOK'
    BY <2>5 DEF ReleaseName, Publish
  <2>6. ASSUME NEW c \in Clients, StartBridge(c)
        PROVE  TypeOK'
    <3>1. nextId \in Ids /\ nextId + 1 \in 0 .. MaxId
      BY <2>6 DEF StartBridge, Ids
    <3>2. [device |-> call[c].device, owner |-> c, target |-> call[c].target] \in BridgeInfos
      BY <2>6 DEF StartBridge, BridgeRequests, BridgeInfos
    <3>3. lockQ' \in Seq(Actors)
      BY <2>6 DEF StartBridge, Enqueue, Actors
    <3>4. bridge' \in [Ids -> BridgeInfos \cup {None}]
      BY <2>6, <3>1, <3>2 DEF StartBridge, NextHandle
    <3>5. QED
      BY <2>6, <3>1, <3>3, <3>4 DEF StartBridge, NextHandle
  <2>7. ASSUME NEW c \in Clients, RefuseBridge(c)
        PROVE  TypeOK'
    BY <2>7 DEF RefuseBridge
  <2>8. ASSUME NEW c \in Clients, StartDestroy(c)
        PROVE  TypeOK'
    BY <2>8 DEF StartDestroy, Enqueue, Actors
  <2>9. ASSUME NEW addr \in Addrs, DeviceRemoved(addr)
        PROVE  TypeOK'
    BY <2>9 DEF DeviceRemoved
  <2>10. CASE Insert
    <3>1. call' \in [Clients -> Requests \cup {None, Abandoned}]
      BY <2>10 DEF Insert, Answer
    <3>2. lockQ' \in Seq(Actors)
      BY <2>10 DEF Insert, Holds
    <3>3. QED
      BY <2>10, <3>1, <3>2 DEF Insert, Answer
  <2>11. CASE Joined
    BY <2>11 DEF Joined
  <2>12. CASE EmitFails
    BY <2>12, GiveUpType DEF EmitFails
  <2>13. CASE JoinPanics
    BY <2>13, GiveUpType DEF JoinPanics
  <2>14. ASSUME NEW a \in Cleaners, Take(a)
         PROVE  TypeOK'
    <3>1. CASE a = "disconnection" /\ TakeDeparture
      <4>1. job' \in [Cleaners -> Clients \cup Ids \cup Addrs \cup {None}]
        BY <3>1, HeadTailProperties DEF TakeDeparture
      <4>2. QED
        BY <2>14, <3>1, <4>1, HeadTailProperties DEF Take, TakeDeparture, Enqueue, Actors, Cleaners
    <3>2. CASE a = "death" /\ TakeDeath
      <4>1. job' \in [Cleaners -> Clients \cup Ids \cup Addrs \cup {None}]
        BY <3>2, HeadTailProperties DEF TakeDeath
      <4>2. QED
        BY <2>14, <3>2, <4>1, HeadTailProperties DEF Take, TakeDeath, Enqueue, Actors, Cleaners
    <3>3. CASE a = "device" /\ TakeRemoval
      <4>1. job' \in [Cleaners -> Clients \cup Ids \cup Addrs \cup {None}]
        BY <3>3, HeadTailProperties DEF TakeRemoval
      <4>2. QED
        BY <2>14, <3>3, <4>1, HeadTailProperties DEF Take, TakeRemoval, Enqueue, Actors, Cleaners
    <3>4. QED
      BY <2>14, <3>1, <3>2, <3>3 DEF Take
  <2>15. ASSUME NEW a \in Actors, Release(a)
         PROVE  TypeOK'
    <3>1. lockQ' \in Seq(Actors)
      BY <2>15 DEF Release, Holds
    <3>2. CASE a = "handler" /\ Answer(None) /\ UNCHANGED job
      <4>1. call' \in [Clients -> Requests \cup {None, Abandoned}]
        BY <3>2 DEF Answer
      <4>2. QED
        BY <2>15, <3>1, <3>2, <4>1 DEF Release, Answer
    <3>3. CASE job' = [job EXCEPT ![a] = None] /\ UNCHANGED <<call, serving>>
      BY <2>15, <3>1, <3>3 DEF Release, Cleaners
    <3>4. QED
      BY <2>15, <3>2, <3>3 DEF Release
  <2>16. ASSUME NEW a \in Actors, NEW id \in Ids, Withdraw(a, id)
         PROVE  TypeOK'
    BY <2>16 DEF Withdraw
  <2>17. ASSUME NEW id \in Ids, BridgeStep(id)
         PROVE  TypeOK'
    <3>1. CASE BridgeCancelled(id)
      BY <3>1 DEF BridgeCancelled, BecomesOf
    <3>2. CASE BridgeDies(id)
      BY <3>2 DEF BridgeDies, BecomesOf
    <3>3. CASE BridgePanics(id)
      BY <3>3 DEF BridgePanics, BecomesOf
    <3>4. CASE Notified(id)
      BY <3>4 DEF Notified, BecomesOf
    <3>5. QED
      BY <2>17, <3>1, <3>2, <3>3, <3>4 DEF BridgeStep
  <2>18. CASE Idle \/ UNCHANGED vars
    BY <2>18 DEF Idle, vars
  <2>19. QED
    BY <2>1, <2>3, <2>4, <2>5, <2>6, <2>7, <2>8, <2>9, <2>10, <2>11, <2>12,
       <2>13, <2>14, <2>15, <2>16, <2>17, <2>18 DEF Next
<1>3. QED
  BY <1>1, <1>2, PTL DEF Spec

-----------------------------------------------------------------------------
(* The lock's queue.                                                       *)

LEMMA Push ==
  ASSUME TypeOK, LockInv, NEW a \in Actors, ~InSeq(a, lockQ), Enqueue(a)
  PROVE  /\ Distinct(lockQ')
         /\ \A x : InSeq(x, lockQ') <=> InSeq(x, lockQ) \/ x = a
         /\ lockQ' # <<>>
<1>1. lockQ \in Seq(Actors) /\ Distinct(lockQ) /\ lockQ' = Append(lockQ, a)
  BY DEF TypeOK, LockInv, Enqueue
<1>2. Distinct(lockQ')
  BY <1>1, DistinctAppend
<1>3. \A x : InSeq(x, lockQ') <=> InSeq(x, lockQ) \/ x = a
  BY <1>1, InSeqAppend
<1>4. lockQ' # <<>>
  BY <1>1, AppendProperties
<1>5. QED
  BY <1>2, <1>3, <1>4

LEMMA Pop ==
  ASSUME TypeOK, LockInv, lockQ # <<>>, lockQ' = Tail(lockQ)
  PROVE  /\ Distinct(lockQ')
         /\ \A x : InSeq(x, lockQ') <=> InSeq(x, lockQ) /\ x # Holder
         /\ InSeq(Holder, lockQ)
<1>1. lockQ \in Seq(Actors) /\ Distinct(lockQ)
  BY DEF TypeOK, LockInv
<1>2. Distinct(lockQ') /\ ~InSeq(Head(lockQ), Tail(lockQ))
  BY <1>1, DistinctTail
<1>3. \A x : InSeq(x, lockQ) <=> x = Head(lockQ) \/ InSeq(x, Tail(lockQ))
  BY <1>1, InSeqTail
<1>4. QED
  BY <1>2, <1>3 DEF Holder

\* The handler and the cleaners are in the lock's queue exactly while they work,
\* each once, and a task is only awaited by a holder of the lock.
THEOREM LockCorrect == Spec => []LockInv
<1>1. Init => LockInv
  BY DEF Init, LockInv, Distinct, InSeq
<1>2. TypeOK /\ LockInv /\ [Next]_vars => LockInv'
  <2> SUFFICES ASSUME TypeOK, LockInv, [Next]_vars
               PROVE  LockInv'
    OBVIOUS
  <2>1. ASSUME UNCHANGED <<lockQ, serving, job, awaiting>>
        PROVE  LockInv'
    BY <2>1 DEF LockInv
  <2>2. ASSUME NEW c \in Clients, serving = None, serving' = c, Enqueue("handler"),
               UNCHANGED <<job, awaiting>>
        PROVE  LockInv'
    <3>1. ~InSeq("handler", lockQ)
      BY <2>2 DEF LockInv
    <3>2. c # None
      BY NoneAssumption
    <3>3. QED
      BY <2>2, <3>1, <3>2, Push DEF LockInv, Actors, Cleaners
  <2>3. ASSUME Holds("handler"), serving' = None, lockQ' = Tail(lockQ), awaiting' = None,
               UNCHANGED job
        PROVE  LockInv'
    BY <2>3, Pop DEF LockInv, Holds, Holder, Cleaners
  <2>4. ASSUME NEW a \in Cleaners, job[a] = None, NEW event, event # None,
               job' = [job EXCEPT ![a] = event], Enqueue(a), UNCHANGED <<serving, awaiting>>
        PROVE  LockInv'
    <3>1. ~InSeq(a, lockQ)
      BY <2>4 DEF LockInv
    <3>2. \A b \in Cleaners : job'[b] # None <=> job[b] # None \/ b = a
      BY <2>4 DEF TypeOK
    <3>3. a # "handler" /\ a \in Actors
      BY DEF Actors, Cleaners
    <3>4. QED
      BY <2>4, <3>1, <3>2, <3>3, Push DEF LockInv
  <2>5. ASSUME NEW a \in Cleaners, Holds(a), awaiting = None,
               job' = [job EXCEPT ![a] = None], lockQ' = Tail(lockQ),
               UNCHANGED <<serving, awaiting>>
        PROVE  LockInv'
    <3>1. \A b \in Cleaners : job'[b] # None <=> job[b] # None /\ b # a
      BY <2>5 DEF TypeOK
    <3>2. a # "handler"
      BY DEF Cleaners
    <3>3. QED
      BY <2>5, <3>1, <3>2, Pop DEF LockInv, Holds, Holder
  <2>6. ASSUME awaiting' = None \/ lockQ # <<>>, UNCHANGED <<lockQ, serving, job>>
        PROVE  LockInv'
    BY <2>6 DEF LockInv
  <2> USE DEF busVars, callVars, tableVars
  <2>7. CASE Subscribe \/ Idle \/ UNCHANGED vars
    BY <2>1, <2>7 DEF Subscribe, Idle, vars
  <2>8. ASSUME NEW c \in Clients,
               \/ \E request \in Requests : Invoke(c, request)
               \/ Leave(c) \/ ReleaseName(c) \/ RefuseBridge(c)
        PROVE  LockInv'
    BY <2>1, <2>8 DEF Invoke, Leave, ReleaseName, RefuseBridge
  <2>9. ASSUME NEW c \in Clients, StartBridge(c) \/ StartDestroy(c)
        PROVE  LockInv'
    BY <2>2, <2>9 DEF StartBridge, StartDestroy
  <2>10. ASSUME NEW addr \in Addrs, DeviceRemoved(addr)
         PROVE  LockInv'
    BY <2>1, <2>10 DEF DeviceRemoved
  <2>11. CASE Insert
    <3>1. awaiting' = None /\ lockQ' = Tail(lockQ) /\ job' = job /\ serving' = None
      BY <2>11 DEF Insert, Answer
    <3>2. QED
      BY <2>11, <3>1, Pop DEF LockInv, Insert, Holds, Holder, Cleaners
  <2>12. CASE Joined
    BY <2>6, <2>12 DEF Joined
  <2>13. CASE EmitFails \/ JoinPanics
    <3>1. GiveUp
      BY <2>13 DEF EmitFails, JoinPanics
    <3>2. CASE Holds("handler") /\ Answer(Abandoned) /\ lockQ' = Tail(lockQ)
      BY <2>3, <3>1, <3>2 DEF GiveUp, Answer
    <3>3. CASE UNCHANGED <<call, serving, lockQ>>
      BY <2>6, <3>1, <3>3 DEF GiveUp
    <3>4. QED
      BY <3>1, <3>2, <3>3 DEF GiveUp
  <2>14. ASSUME NEW a \in Cleaners, Take(a)
         PROVE  LockInv'
    <3>1. CASE TakeDeparture
      <4>1. Head(departures) # None
        BY <3>1, NoneAssumption, HeadTailProperties DEF TakeDeparture, TypeOK
      <4>2. QED
        BY <2>4, <2>14, <3>1, <4>1 DEF Take, TakeDeparture, Cleaners
    <3>2. CASE TakeDeath
      <4>1. Head(deaths) # None
        BY <3>2, NoneAssumption, HeadTailProperties DEF TakeDeath, TypeOK
      <4>2. QED
        BY <2>4, <2>14, <3>2, <4>1 DEF Take, TakeDeath, Cleaners
    <3>3. CASE TakeRemoval
      <4>1. Head(removals) # None
        BY <3>3, NoneAssumption, HeadTailProperties DEF TakeRemoval, TypeOK
      <4>2. QED
        BY <2>4, <2>14, <3>3, <4>1 DEF Take, TakeRemoval, Cleaners
    <3>4. QED
      BY <2>14, <3>1, <3>2, <3>3 DEF Take
  <2>15. ASSUME NEW a \in Actors, Release(a)
         PROVE  LockInv'
    <3>1. CASE a = "handler" /\ Answer(None) /\ UNCHANGED job
      BY <2>3, <2>15, <3>1 DEF Release, Answer
    <3>2. CASE a \in Cleaners /\ job' = [job EXCEPT ![a] = None] /\ UNCHANGED <<call, serving>>
      BY <2>5, <2>15, <3>2 DEF Release
    <3>3. QED
      BY <2>15, <3>1, <3>2 DEF Release
  <2>16. ASSUME NEW a \in Actors, NEW id \in Ids, Withdraw(a, id)
         PROVE  LockInv'
    BY <2>6, <2>16 DEF Withdraw, Holds
  <2>17. ASSUME NEW id \in Ids, BridgeStep(id)
         PROVE  LockInv'
    BY <2>1, <2>17 DEF BridgeStep, BridgeCancelled, BridgeDies, BridgePanics, Notified, BecomesOf
  <2>18. QED
    BY <2>7, <2>8, <2>9, <2>10, <2>11, <2>12, <2>13, <2>14, <2>15, <2>16, <2>17 DEF Next
<1>3. QED
  BY <1>1, <1>2, TypeCorrect, PTL DEF Spec

-----------------------------------------------------------------------------
(* The call being served.                                                  *)

LEMMA RequestKinds ==
  /\ Requests = BridgeRequests \cup DestroyRequests
  /\ BridgeRequests \cap DestroyRequests = {}
  /\ None \notin Requests /\ Abandoned \notin Requests
<1>1. \A r \in BridgeRequests : r.op = "bridge"
  BY DEF BridgeRequests
<1>2. \A r \in DestroyRequests : r.op = "destroy"
  BY DEF DestroyRequests
<1>3. Abandoned.op = "abandoned"
  BY DEF Abandoned
<1>4. QED
  BY <1>1, <1>2, <1>3, NoneAssumption DEF Requests

LEMMA HolderStays ==
  ASSUME TypeOK, lockQ # <<>>, NEW a \in Actors, Enqueue(a)
  PROVE  Head(lockQ') = Head(lockQ)
  BY AppendProperties, HeadTailProperties, LenProperties, EmptySeq DEF TypeOK, Enqueue

\* A bridge that was started and not yet stored belongs to the call being
\* served, and a client that left idle has no call left.
THEOREM CallCorrect == Spec => []CallInv
<1>1. Init => CallInv
  <2>1. ASSUME Init
        PROVE  \A c \in Clients : client[c] # "left"
    BY <2>1 DEF Init
  <2>2. QED
    BY <2>1 DEF Init, CallInv
<1>2. TypeOK /\ LockInv /\ CallInv /\ [Next]_vars => CallInv'
  <2> SUFFICES ASSUME TypeOK, LockInv, CallInv, [Next]_vars
               PROVE  CallInv'
    OBVIOUS
  <2> USE DEF busVars, callVars, tableVars
  <2>1. ASSUME UNCHANGED <<client, call, serving, pending, awaiting, lockQ, bridge>>
        PROVE  CallInv'
    BY <2>1 DEF CallInv, Holds, Holder
  <2>2. CASE Subscribe \/ Idle \/ UNCHANGED vars
    BY <2>1, <2>2 DEF Subscribe, Idle, vars
  <2>3. ASSUME NEW c \in Clients, NEW request \in Requests, Invoke(c, request)
        PROVE  CallInv'
    <3>1. serving # None => serving \in Clients /\ serving # c
      BY <2>3, RequestKinds DEF Invoke, CallInv, TypeOK
    <3>2. \A d \in Clients : d # c => call'[d] = call[d]
      BY <2>3 DEF Invoke, TypeOK
    <3>3. QED
      BY <2>3, <3>1, <3>2 DEF Invoke, CallInv, Holds, Holder
  <2>4. ASSUME NEW c \in Clients, Leave(c)
        PROVE  CallInv'
    BY <2>4 DEF Leave, CallInv, TypeOK, Holds, Holder
  <2>5. ASSUME NEW c \in Clients, ReleaseName(c)
        PROVE  CallInv'
    BY <2>1, <2>5 DEF ReleaseName
  <2>6. ASSUME NEW c \in Clients, StartBridge(c)
        PROVE  CallInv'
    <3>1. nextId \in Ids /\ nextId # None /\ c # None
      BY <2>6, NoneAssumption DEF StartBridge, TypeOK, Ids
    <3>2. bridge'[nextId].owner = c
      BY <2>6, <3>1 DEF StartBridge, NextHandle, TypeOK
    <3>3. ~Holds("handler")
      <4>1. ~InSeq("handler", lockQ)
        BY <2>6 DEF StartBridge, LockInv
      <4>2. QED
        BY <4>1, InSeqTail DEF Holds, Holder, TypeOK
    <3>4. awaiting' # None => ~Holds("handler")'
      <4>1. ASSUME awaiting # None
            PROVE  lockQ # <<>> /\ Head(lockQ') = Head(lockQ)
        BY <2>6, <4>1, HolderStays DEF StartBridge, LockInv, Actors
      <4>2. QED
        BY <2>6, <3>3, <4>1 DEF StartBridge, Holds, Holder
    <3>5. QED
      BY <2>6, <3>1, <3>2, <3>4, RequestKinds DEF StartBridge, NextHandle, CallInv
  <2>7. ASSUME NEW c \in Clients, RefuseBridge(c)
        PROVE  CallInv'
    <3>1. serving' = None /\ pending' = None
      BY <2>7 DEF RefuseBridge, CallInv
    <3>2. \A d \in Clients : call'[d] = call[d] \/ call'[d] = None
      BY <2>7 DEF RefuseBridge, TypeOK
    <3>3. QED
      BY <2>7, <3>1, <3>2, RequestKinds DEF RefuseBridge, CallInv
  <2>8. ASSUME NEW c \in Clients, StartDestroy(c)
        PROVE  CallInv'
    <3>1. pending' = None /\ serving' = c /\ call' = call /\ client' = client
      BY <2>8 DEF StartDestroy, CallInv
    <3>2. QED
      BY <2>8, <3>1, RequestKinds DEF StartDestroy, CallInv
  <2>9. ASSUME NEW addr \in Addrs, DeviceRemoved(addr)
        PROVE  CallInv'
    BY <2>1, <2>9 DEF DeviceRemoved
  <2>10. ASSUME pending' = None, serving' = None, client' = client,
                \A d \in Clients : call'[d] = call[d] \/ call'[d] \notin Requests
         PROVE  CallInv'
    BY <2>10 DEF CallInv
  <2>11. CASE Insert
    BY <2>10, <2>11, RequestKinds DEF Insert, Answer, TypeOK
  <2>12. ASSUME awaiting' = None, UNCHANGED <<client, call, serving, pending, bridge>>
         PROVE  CallInv'
    BY <2>12 DEF CallInv
  <2>13. CASE Joined
    BY <2>12, <2>13 DEF Joined
  <2>14. CASE EmitFails \/ JoinPanics
    <3>1. GiveUp /\ awaiting # None
      BY <2>14 DEF EmitFails, JoinPanics
    <3>2. CASE Holds("handler") /\ Answer(Abandoned)
      <4>1. pending' = None
        BY <3>1, <3>2 DEF CallInv, GiveUp
      <4>2. \A d \in Clients : call'[d] = call[d] \/ call'[d] \notin Requests
        BY <3>2, RequestKinds DEF Answer, TypeOK
      <4>3. QED
        BY <2>10, <3>1, <3>2, <4>1, <4>2 DEF GiveUp, Answer
    <3>3. CASE UNCHANGED <<call, serving, lockQ>>
      BY <2>12, <3>1, <3>3 DEF GiveUp
    <3>4. QED
      BY <3>1, <3>2, <3>3 DEF GiveUp
  <2>15. ASSUME NEW a \in Cleaners, Take(a)
         PROVE  CallInv'
    <3>1. UNCHANGED <<client, call, serving, pending, awaiting, bridge>>
      BY <2>15 DEF Take
    <3>2. Enqueue(a) /\ a \in Actors
      BY <2>15 DEF Take, TakeDeparture, TakeDeath, TakeRemoval, Actors
    <3>3. awaiting # None => (Holds("handler")' <=> Holds("handler"))
      BY <3>2, HolderStays, AppendProperties DEF LockInv, Holds, Holder, TypeOK, Enqueue
    <3>4. QED
      BY <3>1, <3>3 DEF CallInv
  <2>16. ASSUME NEW a \in Actors, Release(a)
         PROVE  CallInv'
    <3>1. CASE pending = None /\ Answer(None)
      BY <2>10, <2>16, <3>1, RequestKinds DEF Release, Answer, TypeOK
    <3>2. CASE UNCHANGED <<call, serving>>
      BY <2>12, <2>16, <3>2 DEF Release
    <3>3. QED
      BY <2>16, <3>1, <3>2 DEF Release
  <2>17. ASSUME NEW a \in Actors, NEW id \in Ids, Withdraw(a, id)
         PROVE  CallInv'
    <3>1. Holds("handler") => a = "handler"
      BY <2>17 DEF Withdraw, Holds
    <3>2. a = "handler" => call[serving] \in DestroyRequests
      BY <2>17 DEF Withdraw, Matches
    <3>3. Holds("handler") => pending = None
      BY <3>1, <3>2, RequestKinds DEF CallInv
    <3>4. QED
      BY <2>17, <3>3 DEF Withdraw, CallInv, Holds, Holder
  <2>18. ASSUME NEW id \in Ids, BridgeStep(id)
         PROVE  CallInv'
    BY <2>1, <2>18 DEF BridgeStep, BridgeCancelled, BridgeDies, BridgePanics, Notified, BecomesOf
  <2>19. QED
    BY <2>2, <2>3, <2>4, <2>5, <2>6, <2>7, <2>8, <2>9, <2>11, <2>13, <2>14, <2>15,
       <2>16, <2>17, <2>18 DEF Next
<1>3. QED
  BY <1>1, <1>2, TypeCorrect, LockCorrect, PTL DEF Spec

-----------------------------------------------------------------------------
(* The handles.                                                            *)

LEMMA HandlesStay ==
  ASSUME HandleInv, UNCHANGED <<pending, nextId, task, bridge, reg, cancelled, signals>>,
         awaiting' = awaiting \/ awaiting' = None
  PROVE  HandleInv'
  BY DEF HandleInv

\* A task that moves on stays born, and nothing else changes.
LEMMA TaskMoves ==
  ASSUME TypeOK, HandleInv, NEW id \in Ids, NEW from, NEW to,
         from \notin {"unborn", "done"}, to # "unborn", BecomesOf(id, from, to)
  PROVE  HandleInv'
<1>1. \A h \in Ids : task'[h] = "unborn" <=> task[h] = "unborn"
  BY DEF BecomesOf, TypeOK
<1>2. UNCHANGED <<pending, nextId, bridge, reg, cancelled, awaiting, signals>>
  BY DEF BecomesOf, callVars, tableVars
<1>3. \A h \in Ids : task[h] = "done" => task'[h] = "done"
  BY DEF BecomesOf, TypeOK
<1>4. QED
  BY <1>1, <1>2, <1>3 DEF HandleInv

\* A handle is in one place at a time, and only withdrawn handles are announced,
\* each at most once.
THEOREM HandleCorrect == Spec => []HandleInv
<1>1. Init => HandleInv
  BY NoneAssumption DEF Init, HandleInv
<1>2. TypeOK /\ LockInv /\ CallInv /\ HandleInv /\ [Next]_vars => HandleInv'
  <2> SUFFICES ASSUME TypeOK, LockInv, CallInv, HandleInv, [Next]_vars
               PROVE  HandleInv'
    OBVIOUS
  <2> USE DEF busVars, callVars, tableVars
  <2>1. CASE Subscribe \/ Idle \/ UNCHANGED vars
    BY <2>1, HandlesStay DEF Subscribe, Idle, vars
  <2>2. ASSUME NEW c \in Clients,
               \/ \E request \in Requests : Invoke(c, request)
               \/ Leave(c) \/ ReleaseName(c) \/ StartDestroy(c)
        PROVE  HandleInv'
    BY <2>2, HandlesStay DEF Invoke, Leave, ReleaseName, StartDestroy
  <2>3. ASSUME NEW c \in Clients, StartBridge(c)
        PROVE  HandleInv'
    <3>1. /\ nextId \in Ids /\ nextId \in Nat /\ pending = None
          /\ task[nextId] = "unborn" /\ nextId \notin reg \cup cancelled
      BY <2>3 DEF StartBridge, TypeOK, HandleInv, CallInv, Ids
    <3>2. /\ pending' = nextId /\ nextId' = nextId + 1
          /\ task' = [task EXCEPT ![nextId] = "running"]
          /\ bridge'[nextId] \in BridgeInfos
          /\ \A h \in Ids : h # nextId => bridge'[h] = bridge[h]
          /\ UNCHANGED <<reg, cancelled, awaiting, signals>>
      BY <2>3, <3>1 DEF StartBridge, NextHandle, TypeOK, BridgeInfos, BridgeRequests
    <3>3. \A h \in Ids : nextId' <= h => task'[h] = "unborn"
      BY <3>1, <3>2 DEF TypeOK, HandleInv, Ids
    <3>4. \A h \in Ids : task'[h] = "unborn" => h # nextId /\ task[h] = "unborn"
      BY <3>1, <3>2 DEF TypeOK
    <3>5. \A h \in Ids : task'[h] # "unborn" => bridge'[h] # None
      <4>1. ASSUME NEW h \in Ids, task'[h] # "unborn"
            PROVE  bridge'[h] # None
        <5>1. CASE h = nextId
          BY <3>2, <5>1, NoneAssumption
        <5>2. CASE h # nextId
          <6>1. task[h] # "unborn"
            BY <3>1, <3>2, <4>1, <5>2 DEF TypeOK
          <6>2. QED
            BY <3>2, <5>2, <6>1 DEF HandleInv
        <5>3. QED
          BY <5>1, <5>2
      <4>2. QED
        BY <4>1
    <3>6. QED
      BY <3>1, <3>2, <3>3, <3>4, <3>5 DEF HandleInv
  <2>4. ASSUME NEW c \in Clients, RefuseBridge(c)
        PROVE  HandleInv'
    <3>1. \A h \in Ids : nextId' <= h => nextId <= h
      BY <2>4 DEF RefuseBridge, TypeOK, Ids
    <3>2. QED
      BY <2>4, <3>1 DEF RefuseBridge, HandleInv
  <2>5. ASSUME NEW addr \in Addrs, DeviceRemoved(addr)
        PROVE  HandleInv'
    BY <2>5, HandlesStay DEF DeviceRemoved
  <2>6. CASE Insert
    <3>1. /\ pending \in Ids /\ pending \notin reg \cup cancelled /\ task[pending] # "unborn"
      BY <2>6 DEF Insert, TypeOK, HandleInv
    <3>2. /\ reg' = reg \cup {pending} /\ pending' = None
          /\ UNCHANGED <<nextId, task, bridge, cancelled, awaiting, signals>>
      BY <2>6 DEF Insert
    <3>3. None \notin reg' \cup cancelled'
      BY <3>1, <3>2, NoneAssumption DEF TypeOK
    <3>4. \A id \in Ids : id # None
      BY NoneAssumption
    <3>5. QED
      BY <3>1, <3>2, <3>3, <3>4 DEF HandleInv
  <2>7. CASE Joined
    <3>1. /\ awaiting \in Ids /\ awaiting \in cancelled /\ signals[awaiting] = 0
      BY <2>7 DEF Joined, TypeOK, HandleInv
    <3>2. \A h \in Ids : signals'[h] = IF h = awaiting THEN 1 ELSE signals[h]
      BY <2>7, <3>1 DEF Joined, TypeOK
    <3>3. QED
      BY <2>7, <3>1, <3>2 DEF Joined, HandleInv
  <2>8. CASE EmitFails \/ JoinPanics
    BY <2>8, HandlesStay DEF EmitFails, JoinPanics, GiveUp
  <2>9. ASSUME NEW a \in Cleaners, Take(a)
        PROVE  HandleInv'
    BY <2>9, HandlesStay DEF Take
  <2>10. ASSUME NEW a \in Actors, Release(a)
         PROVE  HandleInv'
    BY <2>10, HandlesStay DEF Release
  <2>11. ASSUME NEW a \in Actors, NEW id \in Ids, Withdraw(a, id)
         PROVE  HandleInv'
    <3>1. id \in reg
      <4>1. Matches(a) \subseteq reg
        BY DEF Matches, Actors, Cleaners
      <4>2. QED
        BY <2>11, <4>1 DEF Withdraw
    <3>2. task[id] # "unborn" /\ id \notin cancelled /\ id # pending /\ signals[id] = 0
      BY <3>1 DEF HandleInv
    <3>3. QED
      BY <2>11, <3>1, <3>2 DEF Withdraw, HandleInv
  <2>12. ASSUME NEW id \in Ids, BridgeStep(id)
         PROVE  HandleInv'
    <3>1. CASE BridgeCancelled(id)
      BY <3>1, TaskMoves DEF BridgeCancelled
    <3>2. CASE BridgeDies(id)
      BY <3>2, TaskMoves DEF BridgeDies
    <3>3. CASE BridgePanics(id)
      BY <3>3, TaskMoves DEF BridgePanics
    <3>4. CASE Notified(id)
      BY <3>4, TaskMoves DEF Notified
    <3>5. QED
      BY <2>12, <3>1, <3>2, <3>3, <3>4 DEF BridgeStep
  <2>13. QED
    BY <2>1, <2>2, <2>3, <2>4, <2>5, <2>6, <2>7, <2>8, <2>9, <2>10, <2>11, <2>12 DEF Next
<1>3. QED
  BY <1>1, <1>2, TypeCorrect, LockCorrect, CallCorrect, PTL DEF Spec

-----------------------------------------------------------------------------
(* The events the cleaners work on.                                        *)

LEMMA TailElements ==
  ASSUME NEW S, NEW s \in Seq(S), s # <<>>
  PROVE  /\ Head(s) = s[1] /\ 1 \in 1 .. Len(s)
         /\ \A i \in 1 .. Len(Tail(s)) : \E j \in 1 .. Len(s) : Tail(s)[i] = s[j]
<1>1. /\ Head(s) = s[1] /\ Len(s) \in Nat /\ Len(s) >= 1
      /\ Len(Tail(s)) = Len(s) - 1
      /\ \A i \in 1 .. Len(Tail(s)) : Tail(s)[i] = s[i + 1]
  BY HeadTailProperties, LenProperties, EmptySeq
<1>2. \A i \in 1 .. Len(Tail(s)) : i + 1 \in 1 .. Len(s)
  BY <1>1
<1>3. QED
  BY <1>1, <1>2

\* Reading an event, or finishing with one, leaves only events that happened.
LEMMA EventsStay ==
  ASSUME TypeOK, EventInv, UNCHANGED <<departures, deaths, removals>>,
         \A c \in Clients : Departed(c) => Departed(c)',
         \A id \in Ids : task[id] = "done" => task'[id] = "done",
         gone \subseteq gone',
         \A a \in Cleaners : job'[a] = job[a] \/ job'[a] = None
  PROVE  EventInv'
<1>1. /\ \A i \in 1 .. Len(departures) : departures[i] \in Clients
      /\ \A i \in 1 .. Len(deaths) : deaths[i] \in Ids
      /\ \A i \in 1 .. Len(removals) : removals[i] \in Addrs
  BY ElementOfSeq DEF TypeOK
<1>2. /\ (\A i \in 1 .. Len(departures) : Departed(departures[i]))'
      /\ \A i \in 1 .. Len(deaths') : task'[deaths'[i]] = "done"
      /\ \A i \in 1 .. Len(removals') : removals'[i] \in gone'
  BY <1>1 DEF EventInv, Departed
<1>3. (job["disconnection"] # None => Departed(job["disconnection"]))'
  BY DEF EventInv, TypeOK, Cleaners, Departed
<1>4. /\ job'["death"] # None => task'[job'["death"]] = "done"
      /\ job'["device"] # None => job'["device"] \in gone'
  BY DEF EventInv, TypeOK, Cleaners
<1>5. QED
  BY <1>2, <1>3, <1>4 DEF EventInv

\* The cleaners only work on clients that departed or gave up a name, bridges
\* that are over, and addresses that were removed.
THEOREM EventsCorrect == Spec => []EventInv
<1>1. Init => EventInv
  <2>1. ASSUME Init
        PROVE  Len(departures) = 0 /\ Len(deaths) = 0 /\ Len(removals) = 0
    BY <2>1 DEF Init
  <2>2. QED
    BY <2>1 DEF Init, EventInv, Cleaners
<1>2. TypeOK /\ TypeOK' /\ HandleInv /\ EventInv /\ [Next]_vars => EventInv'
  <2> SUFFICES ASSUME TypeOK, TypeOK', HandleInv, EventInv, [Next]_vars
               PROVE  EventInv'
    OBVIOUS
  <2> USE DEF busVars, callVars, tableVars
  <2>1. ASSUME UNCHANGED <<departures, deaths, removals, client, named, gone, task>>,
               \A a \in Cleaners : job'[a] = job[a] \/ job'[a] = None
        PROVE  EventInv'
    <3>1. \A c \in Clients : Departed(c) => Departed(c)'
      BY <2>1 DEF Departed
    <3>2. QED
      BY <2>1, <3>1, EventsStay
  <2>2. CASE Subscribe \/ Idle \/ UNCHANGED vars
    BY <2>1, <2>2 DEF Subscribe, Idle, vars
  <2>3. ASSUME NEW c \in Clients,
               \/ \E request \in Requests : Invoke(c, request)
               \/ RefuseBridge(c) \/ StartDestroy(c)
        PROVE  EventInv'
    BY <2>1, <2>3 DEF Invoke, RefuseBridge, StartDestroy
  <2>4. ASSUME NEW c \in Clients, Leave(c) \/ ReleaseName(c)
        PROVE  EventInv'
    <3>1. Departed(c)'
      <4>1. CASE Leave(c)
        BY <4>1 DEF Leave, Departed, TypeOK
      <4>2. CASE ReleaseName(c)
        BY <4>2 DEF ReleaseName, Departed, TypeOK
      <4>3. QED
        BY <2>4, <4>1, <4>2
    <3>2. \A d \in Clients : Departed(d) => Departed(d)'
      <4>1. CASE Leave(c)
        BY <4>1 DEF Leave, Departed, TypeOK
      <4>2. CASE ReleaseName(c)
        BY <4>2 DEF ReleaseName, Departed, TypeOK
      <4>3. QED
        BY <2>4, <4>1, <4>2
    <3>3. UNCHANGED <<deaths, removals, gone, task, job>>
      BY <2>4 DEF Leave, ReleaseName
    <3>4. \A i \in 1 .. Len(departures') :
             departures'[i] = c \/ \E j \in 1 .. Len(departures) : departures'[i] = departures[j]
      <4>1. ASSUME NEW cs \in Seq(Clients), departures' = departures \o cs,
                   \A i \in 1 .. Len(cs) : cs[i] = c
            PROVE  \A i \in 1 .. Len(departures') :
                      departures'[i] = c \/ \E j \in 1 .. Len(departures) : departures'[i] = departures[j]
        <5>1. /\ Len(departures') = Len(departures) + Len(cs)
              /\ Len(departures) \in Nat /\ Len(cs) \in Nat
              /\ \A i \in 1 .. Len(departures') :
                    departures'[i] = IF i <= Len(departures) THEN departures[i]
                                                             ELSE cs[i - Len(departures)]
          BY <4>1, ConcatProperties, LenProperties DEF TypeOK
        <5>2. QED
          BY <4>1, <5>1
      <4>2. CASE departures' = departures
        BY <4>2
      <4>3. /\ <<c>> \in Seq(Clients) /\ <<c, c>> \in Seq(Clients)
            /\ \A i \in 1 .. Len(<<c>>) : <<c>>[i] = c
            /\ \A i \in 1 .. Len(<<c, c>>) : <<c, c>>[i] = c
        OBVIOUS
      <4>4. QED
        BY <2>4, <4>1, <4>2, <4>3 DEF Leave, ReleaseName, Publish
    <3>5. \A i \in 1 .. Len(departures) : departures[i] \in Clients
      BY ElementOfSeq DEF TypeOK
    <3>6. (\A i \in 1 .. Len(departures) : Departed(departures[i]))'
      BY <3>1, <3>2, <3>4, <3>5 DEF EventInv, Departed
    <3>7. (job["disconnection"] # None => Departed(job["disconnection"]))'
      BY <3>2, <3>3 DEF EventInv, TypeOK, Departed
    <3>8. QED
      BY <3>3, <3>6, <3>7 DEF EventInv
  <2>5. ASSUME NEW c \in Clients, StartBridge(c)
        PROVE  EventInv'
    <3>1. nextId \in Ids /\ task[nextId] = "unborn"
      BY <2>5 DEF StartBridge, TypeOK, HandleInv, Ids
    <3>2. \A id \in Ids : task[id] = "done" => task'[id] = "done"
      BY <2>5, <3>1 DEF StartBridge, NextHandle, TypeOK
    <3>3. \A d \in Clients : Departed(d) => Departed(d)'
      BY <2>5 DEF StartBridge, Departed
    <3>4. QED
      BY <2>5, <3>2, <3>3, EventsStay DEF StartBridge
  <2>6. ASSUME NEW addr \in Addrs, DeviceRemoved(addr)
        PROVE  EventInv'
    <3>1. \A i \in 1 .. Len(removals') : removals'[i] \in gone'
      BY <2>6, AppendProperties, LenProperties DEF DeviceRemoved, EventInv, TypeOK
    <3>2. QED
      BY <2>6, <3>1 DEF DeviceRemoved, EventInv, Departed
  <2>7. CASE Insert \/ Joined \/ EmitFails \/ JoinPanics
    BY <2>1, <2>7 DEF Insert, Joined, EmitFails, JoinPanics, GiveUp
  <2>8. ASSUME NEW a \in Cleaners, Take(a)
        PROVE  EventInv'
    <3>1. CASE TakeDeparture
      <4>1. \A c : Departed(c)' <=> Departed(c)
        BY <2>8 DEF Take, Departed
      <4>2. /\ job'["disconnection"] = Head(departures)
            /\ job'["death"] = job["death"] /\ job'["device"] = job["device"]
        BY <3>1 DEF TakeDeparture, TypeOK, Cleaners
      <4>3. QED
        BY <2>8, <3>1, <4>1, <4>2, TailElements DEF Take, TakeDeparture, EventInv, TypeOK
    <3>2. CASE TakeDeath
      <4>1. \A c : Departed(c)' <=> Departed(c)
        BY <2>8, <3>2 DEF Take, TakeDeath, Departed
      <4>2. /\ job'["death"] = Head(deaths)
            /\ job'["disconnection"] = job["disconnection"] /\ job'["device"] = job["device"]
        BY <3>2 DEF TakeDeath, TypeOK, Cleaners
      <4>3. QED
        BY <2>8, <3>2, <4>1, <4>2, TailElements DEF Take, TakeDeath, EventInv, TypeOK
    <3>3. CASE TakeRemoval
      <4>1. \A c : Departed(c)' <=> Departed(c)
        BY <2>8, <3>3 DEF Take, TakeRemoval, Departed
      <4>2. /\ job'["device"] = Head(removals)
            /\ job'["disconnection"] = job["disconnection"] /\ job'["death"] = job["death"]
        BY <3>3 DEF TakeRemoval, TypeOK, Cleaners
      <4>3. QED
        BY <2>8, <3>3, <4>1, <4>2, TailElements DEF Take, TakeRemoval, EventInv, TypeOK
    <3>4. QED
      BY <2>8, <3>1, <3>2, <3>3 DEF Take
  <2>9. ASSUME NEW a \in Actors, Release(a)
        PROVE  EventInv'
    <3>1. \A b \in Cleaners : job'[b] = job[b] \/ job'[b] = None
      BY <2>9 DEF Release, TypeOK
    <3>2. QED
      BY <2>1, <2>9, <3>1 DEF Release
  <2>10. ASSUME NEW a \in Actors, NEW id \in Ids, Withdraw(a, id)
         PROVE  EventInv'
    BY <2>1, <2>10 DEF Withdraw
  <2>11. ASSUME NEW id \in Ids, BridgeStep(id)
         PROVE  EventInv'
    <3>1. \A h \in Ids : task[h] = "done" => task'[h] = "done"
      BY <2>11 DEF BridgeStep, BridgeCancelled, BridgeDies, BridgePanics, Notified, BecomesOf, TypeOK
    <3>2. \A c : Departed(c)' <=> Departed(c)
      BY <2>11 DEF BridgeStep, BridgeCancelled, BridgeDies, BridgePanics, Notified, BecomesOf, Departed
    <3>3. UNCHANGED <<departures, removals, gone, job>>
      BY <2>11 DEF BridgeStep, BridgeCancelled, BridgeDies, BridgePanics, Notified, BecomesOf
    <3>4. CASE deaths' = deaths
      BY <3>1, <3>2, <3>3, <3>4, EventsStay
    <3>5. CASE Notified(id)
      <4>1. task'[id] = "done" /\ deaths' = Append(deaths, id)
        BY <3>5 DEF Notified, BecomesOf, TypeOK
      <4>2. \A i \in 1 .. Len(deaths) : deaths[i] \in Ids
        BY ElementOfSeq DEF TypeOK
      <4>3. \A i \in 1 .. Len(deaths') : task'[deaths'[i]] = "done"
        <5>1. /\ Len(deaths') = Len(deaths) + 1 /\ Len(deaths) \in Nat
              /\ deaths'[Len(deaths) + 1] = id
              /\ \A i \in 1 .. Len(deaths) : deaths'[i] = deaths[i]
          BY <4>1, AppendProperties, LenProperties DEF TypeOK
        <5>2. \A i \in 1 .. Len(deaths) : task'[deaths[i]] = "done"
          BY <3>1, <4>2 DEF EventInv
        <5>3. QED
          BY <4>1, <5>1, <5>2
      <4>4. job["death"] # None => task'[job["death"]] = "done"
        BY <3>1 DEF EventInv, TypeOK
      <4>5. QED
        BY <3>2, <3>3, <4>3, <4>4 DEF EventInv
    <3>6. QED
      BY <2>11, <3>4, <3>5 DEF BridgeStep, BridgeCancelled, BridgeDies, BridgePanics
  <2>12. QED
    BY <2>2, <2>3, <2>4, <2>5, <2>6, <2>7, <2>8, <2>9, <2>10, <2>11 DEF Next
<1>3. QED
  BY <1>1, <1>2, TypeCorrect, HandleCorrect, PTL DEF Spec

-----------------------------------------------------------------------------
(* Dead bridges.                                                           *)

\* Nothing DeathInv speaks of becomes false.
LEMMA DeathsStay ==
  ASSUME DeathInv, pending' = pending \/ pending' = None, reg' \subseteq reg,
         \A x : InSeq(x, deaths) => InSeq(x, deaths)',
         \A id \in reg \cup {pending} :
            id # None => /\ IsKeyboard(id)' <=> IsKeyboard(id)
                         /\ task'[id] = "done" => task[id] = "done" \/ InSeq(id, deaths)',
         job'["death"] = job["death"],
         Before("handler", "death", lockQ) => Before("handler", "death", lockQ)'
  PROVE  DeathInv'
  BY DEF DeathInv

\* A dead keyboard bridge that is stored or about to be is known to the death
\* cleaner, which reaches the table after the handler that stores it.
THEOREM DeathCorrect == Spec => []DeathInv
<1>1. Init => DeathInv
  BY DEF Init, DeathInv
<1>2. /\ TypeOK /\ LockInv /\ CallInv /\ HandleInv /\ EventInv /\ DeathInv
      /\ TypeOK' /\ LockInv' /\ [Next]_vars
      => DeathInv'
  <2> SUFFICES ASSUME TypeOK, LockInv, CallInv, HandleInv, EventInv, DeathInv,
                      TypeOK', LockInv', [Next]_vars
               PROVE  DeathInv'
    OBVIOUS
  <2> USE DEF busVars, callVars, tableVars
  <2>1. ASSUME UNCHANGED <<pending, task, bridge, deaths, lockQ>>, reg' \subseteq reg,
               job'["death"] = job["death"]
        PROVE  DeathInv'
    BY <2>1, DeathsStay DEF IsKeyboard
  <2>2. CASE Subscribe \/ Idle \/ UNCHANGED vars
    BY <2>1, <2>2 DEF Subscribe, Idle, vars
  <2>3. ASSUME NEW c \in Clients,
               \/ \E request \in Requests : Invoke(c, request)
               \/ Leave(c) \/ ReleaseName(c) \/ RefuseBridge(c)
        PROVE  DeathInv'
    BY <2>1, <2>3 DEF Invoke, Leave, ReleaseName, RefuseBridge
  <2>4. ASSUME NEW a \in Actors, Enqueue(a)
        PROVE  Before("handler", "death", lockQ) => Before("handler", "death", lockQ)'
    BY <2>4, BeforeAppend DEF Enqueue, TypeOK
  <2>5. ASSUME NEW c \in Clients, StartDestroy(c)
        PROVE  DeathInv'
    <3>1. Enqueue("handler") /\ "handler" \in Actors
      BY <2>5 DEF StartDestroy, Actors
    <3>2. QED
      BY <2>4, <2>5, <3>1, DeathsStay DEF StartDestroy, IsKeyboard
  <2>6. ASSUME NEW c \in Clients, StartBridge(c)
        PROVE  DeathInv'
    <3>1. /\ nextId \in Ids /\ task[nextId] = "unborn" /\ nextId \notin reg
          /\ pending' = nextId /\ task'[nextId] = "running"
          /\ \A h \in Ids : h # nextId => task'[h] = task[h] /\ bridge'[h] = bridge[h]
          /\ UNCHANGED <<reg, deaths, job>>
      <4>1. /\ nextId \in Ids /\ nextId <= nextId
            /\ task' = [task EXCEPT ![nextId] = "running"] /\ pending' = nextId
            /\ \A h \in Ids : h # nextId => bridge'[h] = bridge[h]
            /\ UNCHANGED <<reg, deaths, job>>
        BY <2>6 DEF StartBridge, NextHandle, TypeOK, Ids
      <4>2. task[nextId] = "unborn" /\ nextId \notin reg
        BY <4>1 DEF HandleInv
      <4>3. QED
        BY <4>1, <4>2 DEF TypeOK
    <3>2. job["death"] # nextId
      BY <3>1, NoneAssumption DEF EventInv
    <3>3. \A id \in reg : IsKeyboard(id)' <=> IsKeyboard(id)
      BY <3>1 DEF IsKeyboard, TypeOK
    <3>4. QED
      BY <3>1, <3>2, <3>3 DEF DeathInv, TypeOK
  <2>7. ASSUME NEW addr \in Addrs, DeviceRemoved(addr)
        PROVE  DeathInv'
    BY <2>1, <2>7 DEF DeviceRemoved
  <2>8. CASE Insert
    <3>1. /\ reg' = reg \cup {pending} /\ pending' = None
          /\ UNCHANGED <<task, bridge, deaths, job>>
      BY <2>8 DEF Insert
    <3>2. QED
      BY <3>1 DEF DeathInv, IsKeyboard
  <2>9. CASE Joined
    BY <2>1, <2>9 DEF Joined
  <2>10. ASSUME lockQ # <<>>, lockQ' = Tail(lockQ), Holder # "handler"
         PROVE  Before("handler", "death", lockQ) => Before("handler", "death", lockQ)'
    BY <2>10, BeforeTail DEF Holder, TypeOK
  <2>11. CASE EmitFails \/ JoinPanics
    <3>1. GiveUp /\ awaiting # None
      BY <2>11 DEF EmitFails, JoinPanics
    <3>2. CASE lockQ' = lockQ
      BY <2>1, <3>1, <3>2 DEF GiveUp
    <3>3. CASE Holds("handler")
      <4>1. pending = None
        BY <3>1, <3>3 DEF CallInv
      <4>2. QED
        BY <3>1, <4>1 DEF GiveUp, DeathInv, IsKeyboard
    <3>4. QED
      BY <3>1, <3>2, <3>3 DEF GiveUp
  <2>12. ASSUME NEW a \in Cleaners, Take(a)
         PROVE  DeathInv'
    <3>1. Enqueue(a) /\ a \in Actors /\ UNCHANGED <<pending, task, bridge, reg>>
      BY <2>12 DEF Take, TakeDeparture, TakeDeath, TakeRemoval, Actors
    <3>2. CASE a # "death"
      <4>1. UNCHANGED deaths /\ job'["death"] = job["death"]
        BY <2>12, <3>2 DEF Take, TakeDeparture, TakeRemoval, TypeOK, Cleaners
      <4>2. QED
        BY <2>4, <3>1, <4>1, DeathsStay DEF IsKeyboard
    <3>3. CASE a = "death"
      <4>1. /\ job["death"] = None /\ deaths # <<>> /\ deaths' = Tail(deaths)
            /\ job'["death"] = Head(deaths)
        BY <2>12, <3>3 DEF Take, TakeDeath, TypeOK, Cleaners
      <4>2. \A x : InSeq(x, deaths) => InSeq(x, deaths)' \/ job'["death"] = x
        BY <4>1, InSeqTail DEF TypeOK
      <4>3. \A id \in reg' \cup {pending'} :
               (id # None /\ IsKeyboard(id)' /\ task'[id] = "done")
                  => InSeq(id, deaths)' \/ job'["death"] = id
        BY <3>1, <4>1, <4>2 DEF DeathInv, IsKeyboard
      <4>4. pending' # None => Before("handler", "death", lockQ)'
        <5>1. ASSUME pending' # None
              PROVE  InSeq("handler", lockQ)
          BY <3>1, <5>1 DEF CallInv, LockInv
        <5>2. QED
          BY <3>1, <3>3, <5>1, BeforeAppend DEF Enqueue, TypeOK
      <4>5. QED
        BY <4>3, <4>4 DEF DeathInv
    <3>4. QED
      BY <3>2, <3>3
  <2>13. ASSUME NEW a \in Actors, Release(a)
         PROVE  DeathInv'
    <3>1. lockQ # <<>> /\ Holder = a /\ lockQ' = Tail(lockQ)
      BY <2>13 DEF Release, Holds
    <3>2. UNCHANGED <<pending, task, bridge, reg, deaths>>
      BY <2>13 DEF Release
    <3>3. CASE a = "handler"
      <4>1. pending = None /\ job' = job
        BY <2>13, <3>3 DEF Release, Cleaners
      <4>2. QED
        BY <3>2, <4>1 DEF DeathInv, IsKeyboard
    <3>4. CASE a \in Cleaners \ {"death"}
      <4>1. job'["death"] = job["death"]
        BY <2>13, <3>4 DEF Release, TypeOK, Cleaners
      <4>2. a # "handler"
        BY <3>4 DEF Cleaners
      <4>3. QED
        BY <2>10, <3>1, <3>2, <4>1, <4>2, DeathsStay DEF IsKeyboard
    <3>5. CASE a = "death"
      <4>1. job' = [job EXCEPT !["death"] = None] /\ Matches("death") = {}
        BY <2>13, <3>5 DEF Release, Cleaners
      <4>2. job["death"] \notin reg
        BY <4>1 DEF Matches
      <4>3. pending # None => job["death"] # pending
        <5>1. ASSUME pending # None, job["death"] = pending
              PROVE  FALSE
          <6>1. Before("handler", "death", lockQ)
            BY <5>1 DEF DeathInv
          <6>2. Head(lockQ) # "death"
            BY <3>1, <6>1, BeforeHead DEF TypeOK, LockInv
          <6>3. QED
            BY <3>1, <3>5, <6>2 DEF Holder
        <5>2. QED
          BY <5>1
      <4>4. job'["death"] = None
        BY <4>1 DEF TypeOK, Cleaners
      <4>5. QED
        BY <3>2, <4>2, <4>3, <4>4 DEF DeathInv, IsKeyboard
    <3>6. QED
      BY <3>3, <3>4, <3>5 DEF Actors
  <2>14. ASSUME NEW a \in Actors, NEW id \in Ids, Withdraw(a, id)
         PROVE  DeathInv'
    BY <2>1, <2>14 DEF Withdraw
  <2>15. ASSUME NEW id \in Ids, BridgeStep(id)
         PROVE  DeathInv'
    <3>1. /\ UNCHANGED <<pending, bridge, reg, lockQ, job>>
          /\ \A h \in Ids : h # id => task'[h] = task[h]
      BY <2>15 DEF BridgeStep, BridgeCancelled, BridgeDies, BridgePanics, Notified, BecomesOf, TypeOK
    <3>2. \A x : InSeq(x, deaths) => InSeq(x, deaths)'
      <4>1. deaths' = deaths \/ deaths' = Append(deaths, id)
        BY <2>15 DEF BridgeStep, BridgeCancelled, BridgeDies, BridgePanics, Notified
      <4>2. deaths \in Seq(Ids)
        BY DEF TypeOK
      <4>3. \A x : InSeq(x, Append(deaths, id)) <=> InSeq(x, deaths) \/ x = id
        BY <4>2, InSeqAppend
      <4>4. QED
        BY <4>1, <4>3
    <3>3. (id \in reg \cup {pending} /\ IsKeyboard(id) /\ task'[id] = "done")
             => task[id] = "done" \/ InSeq(id, deaths)'
      <4>1. CASE BridgeCancelled(id)
        BY <4>1 DEF BridgeCancelled, HandleInv
      <4>2. CASE BridgeDies(id)
        BY <4>2 DEF BridgeDies, BecomesOf, TypeOK
      <4>3. CASE BridgePanics(id)
        BY <4>3 DEF BridgePanics, BecomesOf, TypeOK
      <4>4. CASE Notified(id)
        BY <4>4, InSeqAppend DEF Notified, TypeOK
      <4>5. QED
        BY <2>15, <4>1, <4>2, <4>3, <4>4 DEF BridgeStep
    <3>4. \A h \in reg \cup {pending} :
            h # None => /\ IsKeyboard(h)' <=> IsKeyboard(h)
                        /\ task'[h] = "done" => ~IsKeyboard(h) \/ task[h] = "done" \/ InSeq(h, deaths)'
      BY <3>1, <3>3 DEF IsKeyboard, TypeOK
    <3>5. QED
      BY <3>1, <3>2, <3>4 DEF DeathInv
  <2>16. QED
    BY <2>2, <2>3, <2>5, <2>6, <2>7, <2>8, <2>9, <2>11, <2>12, <2>13, <2>14, <2>15 DEF Next
<1>3. QED
  BY <1>1, <1>2, TypeCorrect, LockCorrect, CallCorrect, HandleCorrect, EventsCorrect, PTL DEF Spec

\* No keyboard bridge that died by itself is forgotten in the table.
THEOREM NoDeathIsLost == Spec => []NoLostDeath
<1>1. TypeOK /\ DeathInv => NoLostDeath
  BY NoneAssumption DEF TypeOK, DeathInv, NoLostDeath
<1>2. QED
  BY <1>1, TypeCorrect, DeathCorrect, PTL

-----------------------------------------------------------------------------
(* Departures and causes.                                                  *)

\* The clients' bridges only become fewer, or their owners are not "left".
LEMMA DeparturesStay ==
  ASSUME TypeOK, DepartureLeavesNothing,
         \A c \in Clients : client'[c] = "left" => client[c] = "left",
         \A c \in Clients : client[c] = "left" /\ InSeq(c, departures)
                               => InSeq(c, departures)' \/ job'["disconnection"] = c,
         \A c \in Clients : client[c] = "left" /\ job["disconnection"] = c
                               => job'["disconnection"] = c,
         \A id \in reg' : bridge'[id].owner \in Clients /\ client[bridge'[id].owner] = "left"
                               => id \in reg /\ bridge[id].owner = bridge'[id].owner
  PROVE  DepartureLeavesNothing'
  BY DEF DepartureLeavesNothing

\* After the daemon has dealt with the departure of an idle client the table
\* holds none of its bridges, whatever happens later.
THEOREM DepartureIsClean == Spec => []DepartureLeavesNothing
<1>1. Init => DepartureLeavesNothing
  BY DEF Init, DepartureLeavesNothing
<1>2. /\ TypeOK /\ LockInv /\ CallInv /\ HandleInv /\ DepartureLeavesNothing /\ [Next]_vars
      => DepartureLeavesNothing'
  <2> SUFFICES ASSUME TypeOK, LockInv, CallInv, HandleInv, DepartureLeavesNothing, [Next]_vars
               PROVE  DepartureLeavesNothing'
    OBVIOUS
  <2> USE DEF busVars, callVars, tableVars
  <2>1. ASSUME UNCHANGED <<client, departures, bridge>>, reg' \subseteq reg,
               job'["disconnection"] = job["disconnection"]
        PROVE  DepartureLeavesNothing'
    BY <2>1 DEF DepartureLeavesNothing
  <2>2. CASE Subscribe \/ Idle \/ UNCHANGED vars
    BY <2>1, <2>2 DEF Subscribe, Idle, vars
  <2>3. ASSUME NEW c \in Clients,
               \/ \E request \in Requests : Invoke(c, request)
               \/ RefuseBridge(c) \/ StartDestroy(c)
        PROVE  DepartureLeavesNothing'
    BY <2>1, <2>3 DEF Invoke, RefuseBridge, StartDestroy
  <2>4. ASSUME NEW c \in Clients, Leave(c) \/ ReleaseName(c)
        PROVE  DepartureLeavesNothing'
    <3>1. UNCHANGED <<reg, bridge, job>>
      BY <2>4 DEF Leave, ReleaseName
    <3>2. \A d \in Clients : client'[d] = "left" => client[d] = "left" \/ d = c
      BY <2>4 DEF Leave, ReleaseName, TypeOK
    <3>3. \A d : InSeq(d, departures) => InSeq(d, departures)'
      <4>1. ASSUME NEW cs \in Seq(Clients), departures' = departures \o cs
            PROVE  \A d : InSeq(d, departures) => InSeq(d, departures)'
        BY <4>1, ConcatProperties, LenProperties DEF TypeOK, InSeq
      <4>2. <<c>> \in Seq(Clients) /\ <<c, c>> \in Seq(Clients)
        OBVIOUS
      <4>3. QED
        BY <2>4, <4>1, <4>2 DEF Leave, ReleaseName, Publish
    <3>4. client'[c] = "left" => client[c] = "left" \/ InSeq(c, departures)'
      <4>1. CASE ReleaseName(c)
        BY <4>1 DEF ReleaseName
      <4>2. CASE Leave(c) /\ client'[c] = "left"
        <5>1. PICK cs \in {<<c>>, <<c, c>>} : departures' = departures \o cs
          BY <4>2 DEF Leave, Publish, TypeOK
        <5>2. cs \in Seq(Clients) /\ Len(cs) >= 1 /\ cs[1] = c /\ Len(cs) \in Nat
          <6>1. CASE cs = <<c>>
            BY <6>1
          <6>2. CASE cs = <<c, c>>
            BY <6>2
          <6>3. QED
            BY <5>1, <6>1, <6>2
        <5>3. /\ Len(departures') = Len(departures) + Len(cs) /\ Len(departures) \in Nat
              /\ departures'[Len(departures) + 1] = cs[1]
          BY <5>1, <5>2, ConcatProperties, LenProperties DEF TypeOK
        <5>4. QED
          BY <5>2, <5>3 DEF InSeq
      <4>3. QED
        BY <2>4, <4>1, <4>2
    <3>5. QED
      BY <3>1, <3>2, <3>3, <3>4 DEF DepartureLeavesNothing
  <2>5. ASSUME NEW c \in Clients, StartBridge(c)
        PROVE  DepartureLeavesNothing'
    <3>1. nextId \notin reg
      BY <2>5 DEF StartBridge, TypeOK, HandleInv, Ids
    <3>2. \A id \in reg : bridge'[id] = bridge[id]
      BY <2>5, <3>1 DEF StartBridge, NextHandle, TypeOK
    <3>3. QED
      BY <2>5, <3>2 DEF StartBridge, DepartureLeavesNothing
  <2>6. ASSUME NEW addr \in Addrs, DeviceRemoved(addr)
        PROVE  DepartureLeavesNothing'
    BY <2>1, <2>6 DEF DeviceRemoved
  <2>7. CASE Insert
    <3>1. client[serving] # "left" /\ bridge[pending].owner = serving
      BY <2>7 DEF Insert, CallInv, TypeOK
    <3>2. QED
      BY <2>7, <3>1 DEF Insert, DepartureLeavesNothing
  <2>8. CASE Joined \/ EmitFails \/ JoinPanics
    BY <2>1, <2>8 DEF Joined, EmitFails, JoinPanics, GiveUp
  <2>9. ASSUME NEW a \in Cleaners, Take(a)
        PROVE  DepartureLeavesNothing'
    <3>1. CASE a = "disconnection"
      <4>1. /\ job["disconnection"] = None /\ departures # <<>> /\ departures' = Tail(departures)
            /\ job'["disconnection"] = Head(departures) /\ UNCHANGED <<client, reg, bridge>>
        BY <2>9, <3>1 DEF Take, TakeDeparture, TypeOK, Cleaners
      <4>2. \A c : InSeq(c, departures) => InSeq(c, departures)' \/ job'["disconnection"] = c
        BY <4>1, InSeqTail DEF TypeOK
      <4>3. \A c \in Clients : job["disconnection"] # c
        BY <4>1, NoneAssumption
      <4>4. QED
        BY <4>1, <4>2, <4>3, DeparturesStay
    <3>2. CASE a # "disconnection"
      <4>1. UNCHANGED <<client, departures, reg, bridge>> /\ job'["disconnection"] = job["disconnection"]
        BY <2>9, <3>2 DEF Take, TakeDeath, TakeRemoval, TypeOK, Cleaners
      <4>2. QED
        BY <2>1, <4>1
    <3>3. QED
      BY <3>1, <3>2
  <2>10. ASSUME NEW a \in Actors, Release(a)
         PROVE  DepartureLeavesNothing'
    <3>1. UNCHANGED <<client, departures, reg, bridge>>
      BY <2>10 DEF Release
    <3>2. CASE a = "disconnection"
      <4>1. \A id \in reg : bridge[id].owner # job["disconnection"]
        BY <2>10, <3>2 DEF Release, Matches
      <4>2. QED
        BY <3>1, <4>1 DEF DepartureLeavesNothing
    <3>3. CASE a # "disconnection"
      <4>1. job'["disconnection"] = job["disconnection"]
        BY <2>10, <3>3 DEF Release, TypeOK, Cleaners
      <4>2. QED
        BY <2>1, <3>1, <4>1
    <3>4. QED
      BY <3>2, <3>3
  <2>11. ASSUME NEW a \in Actors, NEW id \in Ids, Withdraw(a, id)
         PROVE  DepartureLeavesNothing'
    BY <2>1, <2>11 DEF Withdraw
  <2>12. ASSUME NEW id \in Ids, BridgeStep(id)
         PROVE  DepartureLeavesNothing'
    BY <2>1, <2>12 DEF BridgeStep, BridgeCancelled, BridgeDies, BridgePanics, Notified, BecomesOf
  <2>13. QED
    BY <2>2, <2>3, <2>4, <2>5, <2>6, <2>7, <2>8, <2>9, <2>10, <2>11, <2>12 DEF Next
<1>3. QED
  BY <1>1, <1>2, TypeCorrect, LockCorrect, CallCorrect, HandleCorrect, PTL DEF Spec

\* Only Withdraw takes entries out of the table, one at a time.
LEMMA OnlyWithdrawShrinks ==
  ASSUME [Next]_vars, NEW id \in reg \ reg'
  PROVE  \E a \in Actors : Withdraw(a, id)
<1> USE DEF busVars, callVars, tableVars
<1>1. ASSUME NEW a \in Actors, NEW h \in Ids, Withdraw(a, h)
      PROVE  h = id
  BY <1>1 DEF Withdraw
<1>2. ASSUME ~ \E a \in Actors, h \in Ids : Withdraw(a, h)
      PROVE  reg \subseteq reg'
  BY <1>2 DEF Next, vars, Subscribe, Idle, Invoke, Leave, ReleaseName, StartBridge,
     RefuseBridge, StartDestroy, DeviceRemoved, Insert, Joined, EmitFails, JoinPanics, GiveUp,
     Take, Release, BridgeStep, BridgeCancelled, BridgeDies, BridgePanics, Notified, BecomesOf
<1>3. QED
  BY <1>1, <1>2

\* Whenever an entry leaves the table there is a cause for it.
THEOREM WithdrawalsHaveCauses == Spec => WithdrawnForCause
<1>1. /\ TypeOK /\ LockInv /\ CallInv /\ HandleInv /\ EventInv /\ [Next]_vars
      => \A id \in reg \ reg' : Cause(id)
  <2> SUFFICES ASSUME TypeOK, LockInv, CallInv, HandleInv, EventInv, [Next]_vars,
                      NEW id \in reg \ reg'
               PROVE  Cause(id)
    OBVIOUS
  <2>1. PICK a \in Actors : Withdraw(a, id)
    BY OnlyWithdrawShrinks
  <2>2. id \in Matches(a) /\ Holds(a)
    BY <2>1 DEF Withdraw
  <2>3. InSeq(a, lockQ)
    BY <2>2, InSeqTail DEF Holds, Holder, TypeOK
  <2>4. CASE a = "handler"
    <3>1. /\ call[serving] \in DestroyRequests /\ call[serving].handle = id
          /\ bridge[id].owner = serving
      BY <2>2, <2>4 DEF Matches
    <3>2. call[serving] = [op |-> "destroy", handle |-> id]
      BY <3>1 DEF DestroyRequests
    <3>3. QED
      BY <3>1, <3>2 DEF Cause
  <2>5. CASE a = "disconnection"
    <3>1. bridge[id].owner = job["disconnection"] /\ job["disconnection"] # None
      BY <2>2, <2>3, <2>5 DEF Matches, LockInv, Cleaners
    <3>2. QED
      BY <3>1 DEF Cause, EventInv, Departed
  <2>6. CASE a = "death"
    <3>1. id = job["death"] /\ job["death"] # None
      BY <2>2, <2>3, <2>6 DEF Matches, LockInv, Cleaners
    <3>2. QED
      BY <3>1 DEF Cause, EventInv
  <2>7. CASE a = "device"
    <3>1. bridge[id].target = job["device"] /\ job["device"] # None
      BY <2>2, <2>3, <2>7 DEF Matches, LockInv, Cleaners
    <3>2. QED
      BY <3>1 DEF Cause, EventInv
  <2>8. QED
    BY <2>4, <2>5, <2>6, <2>7 DEF Actors, Cleaners
<1>2. /\ TypeOK /\ LockInv /\ CallInv /\ HandleInv /\ EventInv /\ [Next]_vars
      => [\A id \in reg \ reg' : Cause(id)]_vars
  BY <1>1
<1>3. QED
  BY <1>2, TypeCorrect, LockCorrect, CallCorrect, HandleCorrect, EventsCorrect,
     PTL DEF Spec, WithdrawnForCause

-----------------------------------------------------------------------------
(* What is announced before the lock is let go.                            *)

LEMMA BreaksStay ==
  ASSUME BreakInv, UNCHANGED <<bridge, reg, cancelled, pending, signals, awaiting, serving>>,
         Alive' => Alive, \A c \in Clients : call[c] = Abandoned => call'[c] = Abandoned,
         \A id \in cancelled : bridge[id].owner \in Clients,
         awaiting # None /\ Holds("handler")' => Holds("handler")
  PROVE  BreakInv'
  BY DEF BreakInv

\* A method that answers a request leaves panicked ones alone.
LEMMA AnswerKeepsAbandoned ==
  ASSUME TypeOK, CallInv, serving # None, NEW reply, Answer(reply)
  PROVE  \A c \in Clients : call[c] = Abandoned => call'[c] = Abandoned
<1>1. call[serving] # Abandoned /\ serving \in Clients
  BY RequestKinds DEF CallInv, TypeOK
<1>2. \A c \in Clients : c # serving => call'[c] = call[c]
  BY DEF Answer, TypeOK
<1>3. QED
  BY <1>1, <1>2

\* Every bridge that was started can be reached, and every withdrawn one is announced,
\* awaited, or owed by a handler that panicked.
THEOREM BreakCorrect == Spec => []BreakInv
<1>1. Init => BreakInv
  BY DEF Init, BreakInv
<1>2. TypeOK /\ LockInv /\ CallInv /\ HandleInv /\ BreakInv /\ [Next]_vars => BreakInv'
  <2> SUFFICES ASSUME TypeOK, LockInv, CallInv, HandleInv, BreakInv, [Next]_vars
               PROVE  BreakInv'
    OBVIOUS
  <2> USE DEF busVars, callVars, tableVars
  <2>1. \A id \in cancelled : id \in Ids /\ bridge[id] # None /\ bridge[id].owner \in Clients
    <3>1. \A id \in cancelled : id \in Ids /\ task[id] # "unborn"
      BY DEF TypeOK, HandleInv
    <3>2. \A id \in cancelled : bridge[id] \in BridgeInfos
      BY <3>1 DEF TypeOK, HandleInv
    <3>3. QED
      BY <3>1, <3>2 DEF HandleInv, BridgeInfos
  <2>2. ASSUME UNCHANGED <<bridge, reg, cancelled, pending, signals, awaiting, serving, lockQ>>,
               Alive' => Alive, \A c \in Clients : call[c] = Abandoned => call'[c] = Abandoned
        PROVE  BreakInv'
    BY <2>1, <2>2, BreaksStay DEF Holds, Holder
  <2>3. CASE Subscribe \/ Idle \/ UNCHANGED vars
    BY <2>2, <2>3 DEF Subscribe, Idle, vars, Alive
  <2>4. ASSUME NEW c \in Clients,
               \/ \E request \in Requests : Invoke(c, request)
               \/ Leave(c) \/ ReleaseName(c)
        PROVE  BreakInv'
    <3>1. \A d \in Clients : call[d] = Abandoned => call'[d] = Abandoned
      BY <2>4, AbandonedAssumption DEF Invoke, Leave, ReleaseName, TypeOK
    <3>2. QED
      BY <2>2, <2>4, <3>1 DEF Invoke, Leave, ReleaseName, Alive
  <2>5. ASSUME NEW c \in Clients, RefuseBridge(c)
        PROVE  BreakInv'
    <3>1. \A d \in Clients : call[d] = Abandoned => call'[d] = Abandoned
      <4>1. call[c] # Abandoned
        BY <2>5, RequestKinds DEF RefuseBridge
      <4>2. QED
        BY <2>5, <4>1 DEF RefuseBridge, TypeOK
    <3>2. QED
      BY <2>2, <2>5, <3>1 DEF RefuseBridge, Alive
  <2>6. ASSUME serving = None, Enqueue("handler"), awaiting # None
        PROVE  ~Holds("handler")'
    <3>1. ~InSeq("handler", lockQ) /\ lockQ # <<>>
      BY <2>6 DEF LockInv
    <3>2. ~Holds("handler")
      BY <3>1, InSeqTail DEF Holds, Holder, TypeOK
    <3>3. Head(lockQ') = Head(lockQ)
      BY <2>6, <3>1, HolderStays DEF Actors
    <3>4. QED
      BY <3>1, <3>2, <3>3 DEF Holds, Holder
  <2>7. ASSUME NEW c \in Clients, StartBridge(c)
        PROVE  BreakInv'
    <3>1. nextId \in Ids /\ nextId \notin cancelled /\ pending = None
      BY <2>7 DEF StartBridge, TypeOK, HandleInv, CallInv, Ids
    <3>2. /\ pending' = nextId /\ \A id \in Ids : id # nextId => bridge'[id] = bridge[id]
          /\ UNCHANGED <<phase, call, reg, cancelled, awaiting, signals>>
      BY <2>7, <3>1 DEF StartBridge, NextHandle, TypeOK
    <3>3. awaiting' # None => ~Holds("handler")'
      BY <2>6, <2>7 DEF StartBridge
    <3>4. \A id \in Ids : bridge'[id] # None => id \in reg' \cup cancelled' \cup {pending'}
      <4>1. \A id \in Ids : id # None
        BY NoneAssumption
      <4>2. QED
        BY <3>1, <3>2, <4>1 DEF BreakInv
    <3>5. \A id \in cancelled' : \/ signals'[id] = 1 \/ awaiting' = id \/ ~Alive'
                                 \/ call'[bridge'[id].owner] = Abandoned
      BY <2>1, <3>1, <3>2 DEF BreakInv, Alive
    <3>6. QED
      BY <3>3, <3>4, <3>5 DEF BreakInv
  <2>8. ASSUME NEW c \in Clients, StartDestroy(c)
        PROVE  BreakInv'
    <3>1. awaiting' # None => ~Holds("handler")'
      BY <2>6, <2>8 DEF StartDestroy
    <3>2. UNCHANGED <<phase, call, pending, bridge, reg, cancelled, awaiting, signals>>
      BY <2>8 DEF StartDestroy
    <3>3. QED
      BY <3>1, <3>2 DEF BreakInv, Alive
  <2>9. ASSUME NEW addr \in Addrs, DeviceRemoved(addr)
        PROVE  BreakInv'
    BY <2>2, <2>9 DEF DeviceRemoved, Alive
  <2>10. CASE Insert
    <3>1. serving # None /\ awaiting = None /\ Answer(None) /\ reg' = reg \cup {pending}
          /\ UNCHANGED <<phase, bridge, cancelled, awaiting, signals>>
      BY <2>10 DEF Insert, CallInv
    <3>2. \A c \in Clients : call[c] = Abandoned => call'[c] = Abandoned
      BY <3>1, AnswerKeepsAbandoned
    <3>3. QED
      BY <2>1, <3>1, <3>2, NoneAssumption DEF BreakInv, Alive
  <2>11. CASE Joined
    <3>1. /\ awaiting' = None /\ awaiting \in Ids /\ awaiting \in cancelled
          /\ signals'[awaiting] = 1 /\ \A id \in Ids : id # awaiting => signals'[id] = signals[id]
          /\ UNCHANGED <<phase, call, pending, bridge, reg, cancelled>>
      BY <2>11 DEF Joined, TypeOK, HandleInv
    <3>2. QED
      BY <2>1, <3>1 DEF BreakInv, Alive
  <2>12. CASE EmitFails \/ JoinPanics
    <3>1. /\ GiveUp /\ awaiting # None /\ awaiting' = None
          /\ UNCHANGED <<pending, bridge, reg, cancelled, signals>>
      BY <2>12 DEF EmitFails, JoinPanics, GiveUp
    <3>2. CASE Holds("handler") /\ Answer(Abandoned) /\ UNCHANGED phase
      <4>1. serving # None
        BY <3>2, InSeqTail DEF LockInv, Holds, Holder, TypeOK
      <4>2. \A c \in Clients : call[c] = Abandoned => call'[c] = Abandoned
        BY <3>2, <4>1, AnswerKeepsAbandoned
      <4>3. bridge[awaiting].owner = serving /\ call'[serving] = Abandoned
        BY <3>1, <3>2, <4>1 DEF BreakInv, Answer, TypeOK
      <4>4. \A id \in cancelled : \/ signals[id] = 1 \/ ~Alive
                                  \/ call'[bridge[id].owner] = Abandoned
        BY <2>1, <4>2, <4>3 DEF BreakInv
      <4>5. QED
        BY <3>1, <3>2, <4>4 DEF BreakInv, Alive
    <3>3. CASE phase' = "stopped"
      BY <3>1, <3>3 DEF BreakInv, Alive
    <3>4. QED
      BY <3>1, <3>2, <3>3 DEF GiveUp
  <2>13. ASSUME NEW a \in Cleaners, Take(a)
         PROVE  BreakInv'
    <3>1. UNCHANGED <<phase, call, serving, pending, bridge, reg, cancelled, awaiting, signals>>
      BY <2>13 DEF Take
    <3>2. Enqueue(a) /\ a \in Actors
      BY <2>13 DEF Take, TakeDeparture, TakeDeath, TakeRemoval, Actors
    <3>3. awaiting # None => (Holds("handler")' <=> Holds("handler"))
      BY <3>2, HolderStays, AppendProperties DEF LockInv, Holds, Holder, TypeOK, Enqueue
    <3>4. QED
      BY <2>1, <3>1, <3>3, BreaksStay DEF Alive
  <2>14. ASSUME NEW a \in Actors, Release(a)
         PROVE  BreakInv'
    <3>1. awaiting = None /\ UNCHANGED <<phase, pending, bridge, reg, cancelled, awaiting, signals>>
      BY <2>14 DEF Release
    <3>2. \A c \in Clients : call[c] = Abandoned => call'[c] = Abandoned
      <4>1. CASE a = "handler" /\ Answer(None)
        <5>1. serving # None
          BY <2>14, <4>1, InSeqTail DEF Release, LockInv, Holds, Holder, TypeOK
        <5>2. QED
          BY <4>1, <5>1, AnswerKeepsAbandoned
      <4>2. CASE UNCHANGED call
        BY <4>2
      <4>3. QED
        BY <2>14, <4>1, <4>2 DEF Release
    <3>3. QED
      BY <2>1, <3>1, <3>2 DEF BreakInv, Alive
  <2>15. ASSUME NEW a \in Actors, NEW id \in Ids, Withdraw(a, id)
         PROVE  BreakInv'
    <3>1. /\ awaiting = None /\ awaiting' = id /\ reg' = reg \ {id}
          /\ cancelled' = cancelled \cup {id}
          /\ UNCHANGED <<phase, call, serving, pending, bridge, signals, lockQ>>
      BY <2>15 DEF Withdraw
    <3>2. Holds("handler") => bridge[id].owner = serving
      BY <2>15 DEF Withdraw, Holds, Matches
    <3>3. \A h \in cancelled : h # None
      BY <2>1, NoneAssumption
    <3>4. QED
      BY <3>1, <3>2, <3>3 DEF BreakInv, Alive, Holds, Holder
  <2>16. ASSUME NEW id \in Ids, BridgeStep(id)
         PROVE  BreakInv'
    BY <2>2, <2>16 DEF BridgeStep, BridgeCancelled, BridgeDies, BridgePanics, Notified, BecomesOf, Alive
  <2>17. QED
    BY <2>3, <2>4, <2>5, <2>7, <2>8, <2>9, <2>10, <2>11, <2>12, <2>13, <2>14, <2>15, <2>16 DEF Next
<1>3. QED
  BY <1>1, <1>2, TypeCorrect, LockCorrect, CallCorrect, HandleCorrect, PTL DEF Spec

\* A request that was a destroy_bridge and is answered was answered under the lock, with
\* nothing left to withdraw.
LEMMA DestroyIsAnswered ==
  ASSUME TypeOK, LockInv, CallInv, [Next]_vars, NEW c \in Clients,
         call[c] \in DestroyRequests, call'[c] = None
  PROVE  serving = c /\ Release("handler")
<1> USE DEF busVars, callVars, tableVars
<1>1. call'[c] # call[c] /\ call[c] \in Requests /\ call[c] \notin BridgeRequests
  BY RequestKinds
<1>2. ASSUME NEW reply, Answer(reply)
      PROVE  serving = c
  BY <1>1, <1>2 DEF Answer, TypeOK
<1>3. CASE Subscribe \/ Idle \/ Joined \/ UNCHANGED vars
  BY <1>1, <1>3 DEF Subscribe, Idle, Joined, vars
<1>4. ASSUME NEW d \in Clients, NEW request \in Requests, Invoke(d, request)
      PROVE  FALSE
  BY <1>1, <1>4, RequestKinds DEF Invoke, TypeOK
<1>5. ASSUME NEW d \in Clients,
             Leave(d) \/ ReleaseName(d) \/ StartBridge(d) \/ StartDestroy(d)
      PROVE  FALSE
  BY <1>1, <1>5 DEF Leave, ReleaseName, StartBridge, StartDestroy
<1>6. ASSUME NEW d \in Clients, RefuseBridge(d)
      PROVE  FALSE
  BY <1>1, <1>6 DEF RefuseBridge, TypeOK
<1>7. ASSUME NEW addr \in Addrs, DeviceRemoved(addr)
      PROVE  FALSE
  BY <1>1, <1>7 DEF DeviceRemoved
<1>8. CASE Insert
  <2>1. serving = c /\ call[serving] \in BridgeRequests
    BY <1>2, <1>8 DEF Insert, CallInv
  <2>2. QED
    BY <1>1, <2>1
<1>9. CASE EmitFails \/ JoinPanics
  <2>1. Answer(Abandoned) \/ UNCHANGED call
    BY <1>9 DEF EmitFails, JoinPanics, GiveUp
  <2>2. call'[c] = Abandoned \/ call'[c] = call[c]
    BY <2>1 DEF Answer, TypeOK
  <2>3. QED
    BY <1>1, <2>2, AbandonedAssumption
<1>10. ASSUME NEW a \in Cleaners, Take(a)
       PROVE  FALSE
  BY <1>1, <1>10 DEF Take
<1>11. ASSUME NEW a \in Actors, Release(a)
       PROVE  serving = c /\ a = "handler"
  BY <1>1, <1>2, <1>11 DEF Release
<1>12. ASSUME NEW a \in Actors, NEW id \in Ids, Withdraw(a, id)
       PROVE  FALSE
  BY <1>1, <1>12 DEF Withdraw
<1>13. ASSUME NEW id \in Ids, BridgeStep(id)
       PROVE  FALSE
  BY <1>1, <1>13 DEF BridgeStep, BridgeCancelled, BridgeDies, BridgePanics, Notified, BecomesOf
<1>14. QED
  BY <1>3, <1>4, <1>5, <1>6, <1>7, <1>8, <1>9, <1>10, <1>11, <1>12, <1>13 DEF Next

\* The answer of destroy_bridge never overtakes the signal that the caller's bridge broke,
\* whoever withdrew it, for any number of clients, bridges and deaths at once
\* (main.rs:330-351).
THEOREM AnswersFollowBreaks == Spec => AnswerAfterBreak
<1> DEFINE Heard == \A c \in Clients : (call[c] \in DestroyRequests /\ call'[c] = None) =>
                       LET id == call[c].handle
                       IN  (bridge[id] # None /\ bridge[id].owner = c) => signals[id] = 1
<1>1. TypeOK /\ LockInv /\ CallInv /\ HandleInv /\ BreakInv /\ [Next]_vars => Heard
  <2> SUFFICES ASSUME TypeOK, LockInv, CallInv, HandleInv, BreakInv, [Next]_vars,
                      NEW c \in Clients, call[c] \in DestroyRequests, call'[c] = None,
                      NEW id, id = call[c].handle, bridge[id] # None, bridge[id].owner = c
               PROVE  signals[id] = 1
    OBVIOUS
  <2>1. id \in Ids
    BY DEF DestroyRequests
  <2>2. serving = c /\ Release("handler")
    BY DestroyIsAnswered
  <2>3. Alive /\ awaiting = None /\ pending = None /\ Matches("handler") = {}
    BY <2>2 DEF Release, Cleaners
  <2>4. id \notin reg
    BY <2>2, <2>3 DEF Matches
  <2>5. id \in cancelled
    BY <2>1, <2>3, <2>4, NoneAssumption DEF BreakInv
  <2>6. call[c] # Abandoned /\ id # None
    BY <2>1, RequestKinds, NoneAssumption
  <2>7. QED
    BY <2>3, <2>5, <2>6 DEF BreakInv
<1>2. TypeOK /\ LockInv /\ CallInv /\ HandleInv /\ BreakInv /\ [Next]_vars => [Heard]_vars
  BY <1>1
<1>3. QED
  BY <1>2, TypeCorrect, LockCorrect, CallCorrect, HandleCorrect, BreakCorrect,
     PTL DEF Spec, AnswerAfterBreak

-----------------------------------------------------------------------------
(* What it takes for the daemon to get stuck.                              *)

\* Nothing ReportInv speaks of changes, or the cleaner is done with its death.
LEMMA ReportsStay ==
  ASSUME TypeOK, ReportInv, UNCHANGED deaths,
         job'["death"] = job["death"] \/ job'["death"] = None
  PROVE  ReportInv'
<1>1. ~InSeq(None, deaths)
  BY ElementOfSeq, NoneAssumption DEF TypeOK, InSeq
<1>2. QED
  BY <1>1 DEF ReportInv

\* Every death is in the channel once, or was read from it and is not in it any more.
THEOREM ReportCorrect == Spec => []ReportInv
<1>1. Init => ReportInv
  BY DEF Init, ReportInv, Distinct, InSeq
<1>2. TypeOK /\ EventInv /\ ReportInv /\ [Next]_vars => ReportInv'
  <2> SUFFICES ASSUME TypeOK, EventInv, ReportInv, [Next]_vars
               PROVE  ReportInv'
    OBVIOUS
  <2> USE DEF busVars, callVars, tableVars
  <2>1. CASE Subscribe \/ Idle \/ UNCHANGED vars
    BY <2>1, ReportsStay DEF Subscribe, Idle, vars
  <2>2. ASSUME NEW c \in Clients,
               \/ \E request \in Requests : Invoke(c, request)
               \/ Leave(c) \/ ReleaseName(c)
               \/ StartBridge(c) \/ RefuseBridge(c) \/ StartDestroy(c)
        PROVE  ReportInv'
    BY <2>2, ReportsStay
       DEF Invoke, Leave, ReleaseName, StartBridge, RefuseBridge, StartDestroy
  <2>3. ASSUME NEW addr \in Addrs, DeviceRemoved(addr)
        PROVE  ReportInv'
    BY <2>3, ReportsStay DEF DeviceRemoved
  <2>4. CASE Insert \/ Joined \/ EmitFails \/ JoinPanics
    BY <2>4, ReportsStay DEF Insert, Joined, EmitFails, JoinPanics, GiveUp
  <2>5. ASSUME NEW a \in Cleaners, Take(a)
        PROVE  ReportInv'
    <3>1. CASE TakeDeath
      <4>1. job'["death"] = Head(deaths) /\ deaths' = Tail(deaths) /\ deaths # <<>>
        BY <3>1 DEF TakeDeath, TypeOK, Cleaners
      <4>2. QED
        BY <4>1, DistinctTail DEF ReportInv, TypeOK
    <3>2. CASE TakeDeparture \/ TakeRemoval
      <4>1. job'["death"] = job["death"] /\ UNCHANGED deaths
        BY <3>2 DEF TakeDeparture, TakeRemoval, TypeOK, Cleaners
      <4>2. QED
        BY <4>1, ReportsStay
    <3>3. QED
      BY <2>5, <3>1, <3>2 DEF Take
  <2>6. ASSUME NEW a \in Actors, Release(a)
        PROVE  ReportInv'
    <3>1. job'["death"] = job["death"] \/ job'["death"] = None
      BY <2>6 DEF Release, TypeOK, Cleaners
    <3>2. QED
      BY <2>6, <3>1, ReportsStay DEF Release
  <2>7. ASSUME NEW a \in Actors, NEW id \in Ids, Withdraw(a, id)
        PROVE  ReportInv'
    BY <2>7, ReportsStay DEF Withdraw
  <2>8. ASSUME NEW id \in Ids, BridgeStep(id)
        PROVE  ReportInv'
    <3>1. UNCHANGED job
      BY <2>8 DEF BridgeStep, BridgeCancelled, BridgeDies, BridgePanics, Notified, BecomesOf
    <3>2. CASE deaths' = deaths
      BY <3>1, <3>2, ReportsStay
    <3>3. CASE Notified(id)
      <4>1. task[id] = "notifying" /\ deaths' = Append(deaths, id)
        BY <3>3 DEF Notified, BecomesOf
      <4>2. ~InSeq(id, deaths) /\ job["death"] # id
        BY <4>1, NoneAssumption DEF EventInv, InSeq
      <4>3. Distinct(deaths')
        BY <4>1, <4>2, DistinctAppend DEF ReportInv, TypeOK
      <4>4. ~InSeq(job["death"], deaths')
        BY <4>1, <4>2, InSeqAppend DEF ReportInv, TypeOK
      <4>5. QED
        BY <3>1, <4>3, <4>4 DEF ReportInv
    <3>4. QED
      BY <2>8, <3>2, <3>3 DEF BridgeStep, BridgeCancelled, BridgeDies, BridgePanics
  <2>9. QED
    BY <2>1, <2>2, <2>3, <2>4, <2>5, <2>6, <2>7, <2>8 DEF Next
<1>3. QED
  BY <1>1, <1>2, TypeCorrect, EventsCorrect, PTL DEF Spec

\* A sequence without repetition has as many elements as positions.
LEMMA DistinctSize ==
  ASSUME NEW S, NEW s \in Seq(S), Distinct(s)
  PROVE  LET T == {e \in S : InSeq(e, s)}
         IN  IsFiniteSet(T) /\ Cardinality(T) = Len(s)
<1> DEFINE T == {e \in S : InSeq(e, s)}
           f == [i \in 1 .. Len(s) |-> s[i]]
<1>1. Len(s) \in Nat /\ \A i \in 1 .. Len(s) : s[i] \in S
  BY LenProperties, ElementOfSeq
<1>2. f \in [1 .. Len(s) -> T]
  BY <1>1 DEF InSeq
<1>3. f \in Bijection(1 .. Len(s), T)
  BY <1>2 DEF InSeq, Distinct, Bijection, Injection, Surjection, IsInjective
<1>4. ExistsBijection(1 .. Len(s), T)
  BY <1>3 DEF ExistsBijection
<1>5. IsFiniteSet(1 .. Len(s)) /\ Cardinality(1 .. Len(s)) = Len(s)
  <2>1. ASSUME NEW n \in Nat
        PROVE  IsFiniteSet(1 .. n) /\ Cardinality(1 .. n) = n
    <3>1. 1 \in Int /\ n \in Int
      OBVIOUS
    <3>2. IsFiniteSet(1 .. n) /\ Cardinality(1 .. n) = IF 1 > n THEN 0 ELSE n - 1 + 1
      BY <3>1, FS_Interval
    <3>3. QED
      BY <3>2
  <2>2. QED
    BY <1>1, <2>1
<1>6. QED
  BY <1>4, <1>5, FS_Bijection

\* There are no more unread deaths than handles.
LEMMA UndealtIsFinite ==
  /\ IsFiniteSet(Undealt)
  /\ Cardinality(Undealt) \in Nat
  /\ Cardinality(Undealt) <= MaxId
<1>1. 0 \in Int /\ MaxId - 1 \in Int
  OBVIOUS
<1>2. IsFiniteSet(Ids) /\ Cardinality(Ids) = IF 0 > MaxId - 1 THEN 0 ELSE MaxId - 1 - 0 + 1
  BY <1>1, FS_Interval DEF Ids
<1>3. Undealt \subseteq Ids
  BY DEF Undealt
<1>4. IsFiniteSet(Undealt) /\ Cardinality(Undealt) <= Cardinality(Ids)
  BY <1>2, <1>3, FS_Subset
<1>5. Cardinality(Undealt) \in Nat
  BY <1>4, FS_CardinalityType
<1>6. QED
  BY <1>2, <1>4, <1>5

\* The awaited bridge and the one in the cleaner's hands come on top of those in the channel.
LEMMA CrowdOfTheStuck ==
  ASSUME TypeOK, EventInv, ReportInv, Stuck
  PROVE  Cardinality(Undealt) >= NotifyCap + 2
<1> DEFINE T == {id \in Ids : InSeq(id, deaths)}
           U == T \cup {job["death"]}
           V == U \cup {awaiting}
<1>1. IsFiniteSet(T) /\ Cardinality(T) = Len(deaths) /\ Len(deaths) \in Nat
  BY DistinctSize, LenProperties DEF TypeOK, ReportInv
<1>2. job["death"] \in Ids /\ task[job["death"]] = "done" /\ job["death"] \notin T
  BY DEF Stuck, TypeOK, EventInv, ReportInv
<1>3. awaiting \in Ids /\ task[awaiting] = "notifying" /\ awaiting \notin U
  BY <1>2 DEF Stuck, TypeOK, EventInv, InSeq
<1>4. IsFiniteSet(U) /\ Cardinality(U) = Len(deaths) + 1
  BY <1>1, <1>2, FS_AddElement
<1>5. IsFiniteSet(V) /\ Cardinality(V) = Cardinality(U) + 1
  BY <1>3, <1>4, FS_AddElement
<1>6. V \subseteq Undealt
  BY <1>2, <1>3 DEF Undealt
<1>7. Cardinality(Undealt) \in Nat
  BY UndealtIsFinite
<1>8. Cardinality(Undealt) >= Cardinality(V)
  BY <1>6, UndealtIsFinite, FS_Subset
<1>9. QED
  BY <1>1, <1>4, <1>5, <1>7, <1>8 DEF Stuck

\* The daemon only gets stuck with two more unread deaths than the channel holds.
THEOREM OnlyACrowdGetsStuck == Spec => []StuckTakesACrowd
<1>1. TypeOK /\ EventInv /\ ReportInv => StuckTakesACrowd
  BY CrowdOfTheStuck DEF StuckTakesACrowd
<1>2. QED
  BY <1>1, TypeCorrect, EventsCorrect, ReportCorrect, PTL

\* With no more bridges than the channel holds plus one, over the whole life of the
\* daemon, it never gets stuck on the table's lock.
THEOREM FewNeverGetStuck ==
  ASSUME MaxId <= NotifyCap + 1
  PROVE  Spec => []~Stuck
<1>1. TypeOK /\ EventInv /\ ReportInv => ~Stuck
  BY UndealtIsFinite, CrowdOfTheStuck
<1>2. QED
  BY <1>1, TypeCorrect, EventsCorrect, ReportCorrect, PTL

-----------------------------------------------------------------------------
(* Refinement of BridgeLifecycle.                                          *)

\* A step that leaves place and ended alone is a stutter of the abstract
\* specification; the others move one handle one step along its life.
LEMMA Places ==
  ASSUME TypeOK, HandleInv, NEW id \in Ids
  PROVE  /\ signals[id] = 1 => place[id] = "announced"
         /\ signals[id] = 0 /\ id \in reg => place[id] = "held"
         /\ signals[id] = 0 /\ id \in cancelled => place[id] = "withdrawn"
         /\ task[id] # "unborn" /\ signals[id] = 0 /\ id \notin reg \cup cancelled
               => place[id] = "starting"
         /\ task[id] = "unborn" => place[id] = "unused"
<1>1. place[id] = PlaceOf(id)
  BY DEF place
<1>2. id \in cancelled => id \notin reg
  BY DEF HandleInv
<1>3. task[id] = "unborn" => signals[id] = 0 /\ id \notin reg \cup cancelled
  BY DEF HandleInv
<1>4. CASE signals[id] = 1
  BY <1>1, <1>3, <1>4 DEF PlaceOf
<1>5. CASE signals[id] = 0 /\ id \in reg
  BY <1>1, <1>2, <1>3, <1>5 DEF PlaceOf
<1>6. CASE signals[id] = 0 /\ id \in cancelled
  BY <1>1, <1>2, <1>3, <1>6 DEF PlaceOf
<1>7. CASE signals[id] = 0 /\ id \notin reg /\ id \notin cancelled
  BY <1>1, <1>7 DEF PlaceOf
<1>8. signals[id] = 1 \/ signals[id] = 0
  BY DEF HandleInv
<1>9. QED
  BY <1>3, <1>4, <1>5, <1>6, <1>7, <1>8

LEMMA PlacesNext ==
  ASSUME TypeOK', HandleInv', NEW id \in Ids
  PROVE  /\ signals'[id] = 1 => place'[id] = "announced"
         /\ signals'[id] = 0 /\ id \in reg' => place'[id] = "held"
         /\ signals'[id] = 0 /\ id \in cancelled' => place'[id] = "withdrawn"
         /\ task'[id] # "unborn" /\ signals'[id] = 0 /\ id \notin reg' \cup cancelled'
               => place'[id] = "starting"
<1>1. place'[id] = PlaceOf(id)'
  BY DEF place
<1>2. id \in cancelled' => id \notin reg'
  BY DEF HandleInv
<1>4. CASE signals'[id] = 1
  BY <1>1, <1>4 DEF PlaceOf
<1>5. CASE signals'[id] = 0 /\ id \in reg'
  BY <1>1, <1>2, <1>5 DEF PlaceOf
<1>6. CASE signals'[id] = 0 /\ id \in cancelled'
  BY <1>1, <1>2, <1>6 DEF PlaceOf
<1>7. CASE signals'[id] = 0 /\ id \notin reg' /\ id \notin cancelled'
  BY <1>1, <1>7 DEF PlaceOf
<1>8. signals'[id] = 1 \/ signals'[id] = 0
  BY DEF HandleInv
<1>9. QED
  BY <1>4, <1>5, <1>6, <1>7, <1>8

\* The place of a handle depends on what is known of that handle alone.
LEMMA SamePlace ==
  ASSUME NEW id \in Ids, signals'[id] = signals[id], id \in reg' <=> id \in reg,
         id \in cancelled' <=> id \in cancelled, task'[id] = "unborn" <=> task[id] = "unborn"
  PROVE  place'[id] = place[id]
<1>1. place[id] = PlaceOf(id) /\ place'[id] = PlaceOf(id)'
  BY DEF place
<1>2. QED
  BY <1>1 DEF PlaceOf

\* One handle moves from one place to another and no bridge ends.
LEMMA MoveOne ==
  ASSUME NEW id \in Ids, NEW from, NEW to, place[id] = from, place'[id] = to,
         \A h \in Ids : h # id => place'[h] = place[h], ended' = ended
  PROVE  Lifecycle!Move(id, from, to)
<1>1. place = [h \in Ids |-> place[h]] /\ place' = [h \in Ids |-> place'[h]]
  BY DEF place
<1>2. place' = [place EXCEPT ![id] = to]
  BY <1>1
<1>3. QED
  BY <1>2 DEF Lifecycle!Move

\* The daemon implements the promise of BridgeLifecycle: every handle is given
\* out, stored, withdrawn and announced at most once and in this order, and
\* announced only when its bridge has ended.
THEOREM Refinement == Spec => ImplementsLifecycle
<1>1. Init => Lifecycle!LifecycleInit
  <2> SUFFICES ASSUME Init
               PROVE  Lifecycle!LifecycleInit
    OBVIOUS
  <2>1. place = [id \in Ids |-> "unused"]
    <3>1. \A id \in Ids : PlaceOf(id) = "unused"
      BY DEF Init, PlaceOf
    <3>2. QED
      BY <3>1 DEF place
  <2>2. ended = {}
    BY DEF Init, ended
  <2>3. QED
    BY <2>1, <2>2 DEF Lifecycle!LifecycleInit
<1>2. /\ TypeOK /\ TypeOK' /\ LockInv /\ CallInv /\ HandleInv /\ HandleInv' /\ [Next]_vars
      => [Lifecycle!LifecycleNext]_(Lifecycle!lifecycle)
  <2> SUFFICES ASSUME TypeOK, TypeOK', LockInv, CallInv, HandleInv, HandleInv', [Next]_vars
               PROVE  Lifecycle!LifecycleNext \/ (place' = place /\ ended' = ended)
    BY DEF Lifecycle!lifecycle
  <2> USE DEF busVars, callVars, tableVars
  <2>1. ASSUME UNCHANGED <<signals, reg, cancelled, task>>
        PROVE  place' = place /\ ended' = ended
    BY <2>1 DEF place, PlaceOf, ended
  <2>2. CASE Subscribe \/ Idle \/ UNCHANGED vars
    BY <2>1, <2>2 DEF Subscribe, Idle, vars
  <2>3. ASSUME NEW c \in Clients,
               \/ \E request \in Requests : Invoke(c, request)
               \/ Leave(c) \/ ReleaseName(c) \/ RefuseBridge(c) \/ StartDestroy(c)
        PROVE  place' = place /\ ended' = ended
    BY <2>1, <2>3 DEF Invoke, Leave, ReleaseName, RefuseBridge, StartDestroy
  <2>4. ASSUME NEW c \in Clients, StartBridge(c)
        PROVE  Lifecycle!LifecycleNext
    <3>1. nextId \in Ids /\ task[nextId] = "unborn"
      BY <2>4 DEF StartBridge, TypeOK, HandleInv, Ids
    <3>2. /\ UNCHANGED <<signals, reg, cancelled>> /\ task'[nextId] = "running"
          /\ \A h \in Ids : h # nextId => task'[h] = task[h]
      BY <2>4, <3>1 DEF StartBridge, NextHandle, TypeOK
    <3>3. nextId \notin reg /\ nextId \notin cancelled /\ signals[nextId] = 0
      BY <3>1 DEF HandleInv
    <3>4. place[nextId] = "unused"
      BY <3>1, <3>3, Places
    <3>5. place'[nextId] = "starting"
      BY <3>1, <3>2, <3>3, PlacesNext
    <3>6. \A h \in Ids : h # nextId => place'[h] = place[h]
      BY <3>2, SamePlace
    <3>7. ended' = ended
      BY <3>1, <3>2 DEF ended
    <3>8. QED
      BY <3>1, <3>4, <3>5, <3>6, <3>7, MoveOne DEF Lifecycle!LifecycleNext, Lifecycle!Start
  <2>5. ASSUME NEW addr \in Addrs, DeviceRemoved(addr)
        PROVE  place' = place /\ ended' = ended
    BY <2>1, <2>5 DEF DeviceRemoved
  <2>6. CASE Insert
    <3>1. /\ pending \in Ids /\ pending \notin reg /\ pending \notin cancelled
          /\ task[pending] # "unborn" /\ signals[pending] = 0
      BY <2>6 DEF Insert, TypeOK, HandleInv
    <3>2. reg' = reg \cup {pending} /\ UNCHANGED <<signals, cancelled, task>>
      BY <2>6 DEF Insert
    <3>3. place[pending] = "starting"
      BY <3>1, Places
    <3>4. place'[pending] = "held"
      BY <3>1, <3>2, PlacesNext
    <3>5. \A h \in Ids : h # pending => place'[h] = place[h]
      BY <3>2, SamePlace
    <3>6. ended' = ended
      BY <3>2 DEF ended
    <3>7. QED
      BY <3>1, <3>3, <3>4, <3>5, <3>6, MoveOne DEF Lifecycle!LifecycleNext, Lifecycle!Hold
  <2>7. CASE Joined
    <3>1. /\ awaiting \in Ids /\ awaiting \in cancelled /\ awaiting \notin reg
          /\ signals[awaiting] = 0 /\ task[awaiting] = "done"
      BY <2>7 DEF Joined, TypeOK, HandleInv
    <3>2. /\ UNCHANGED <<reg, cancelled, task>> /\ signals'[awaiting] = 1
          /\ \A h \in Ids : h # awaiting => signals'[h] = signals[h]
      BY <2>7, <3>1 DEF Joined, TypeOK
    <3>3. place[awaiting] = "withdrawn"
      BY <3>1, Places
    <3>4. place'[awaiting] = "announced"
      BY <3>1, <3>2, PlacesNext
    <3>5. \A h \in Ids : h # awaiting => place'[h] = place[h]
      BY <3>2, SamePlace
    <3>6. awaiting \in ended /\ ended' = ended
      BY <3>1, <3>2 DEF ended
    <3>7. QED
      BY <3>1, <3>3, <3>4, <3>5, <3>6, MoveOne DEF Lifecycle!LifecycleNext, Lifecycle!Announce
  <2>8. CASE EmitFails \/ JoinPanics
    BY <2>1, <2>8 DEF EmitFails, JoinPanics, GiveUp
  <2>9. ASSUME NEW a \in Cleaners, Take(a)
        PROVE  place' = place /\ ended' = ended
    BY <2>1, <2>9 DEF Take
  <2>10. ASSUME NEW a \in Actors, Release(a)
         PROVE  place' = place /\ ended' = ended
    BY <2>1, <2>10 DEF Release
  <2>11. ASSUME NEW a \in Actors, NEW id \in Ids, Withdraw(a, id)
         PROVE  Lifecycle!LifecycleNext
    <3>1. id \in reg
      <4>1. Matches(a) \subseteq reg
        BY DEF Matches, Actors, Cleaners
      <4>2. QED
        BY <2>11, <4>1 DEF Withdraw
    <3>2. signals[id] = 0
      BY <3>1 DEF HandleInv
    <3>3. reg' = reg \ {id} /\ cancelled' = cancelled \cup {id} /\ UNCHANGED <<signals, task>>
      BY <2>11 DEF Withdraw
    <3>4. place[id] = "held"
      BY <3>1, <3>2, Places
    <3>5. place'[id] = "withdrawn"
      BY <3>2, <3>3, PlacesNext
    <3>6. \A h \in Ids : h # id => place'[h] = place[h]
      BY <3>3, SamePlace
    <3>7. ended' = ended
      BY <3>3 DEF ended
    <3>8. QED
      BY <3>4, <3>5, <3>6, <3>7, MoveOne DEF Lifecycle!LifecycleNext, Lifecycle!Withdraw
  <2>12. ASSUME NEW id \in Ids, BridgeStep(id)
         PROVE  Lifecycle!LifecycleNext \/ (place' = place /\ ended' = ended)
    <3>1. PICK from \in {"running", "notifying"}, to \in {"notifying", "done", "panicked"} :
             /\ from = "notifying" => to = "done"
             /\ BecomesOf(id, from, to)
      BY <2>12 DEF BridgeStep, BridgeCancelled, BridgeDies, BridgePanics, Notified
    <3>2. /\ task[id] = from /\ task'[id] = to /\ UNCHANGED <<signals, reg, cancelled>>
          /\ \A h \in Ids : h # id => task'[h] = task[h]
      BY <3>1 DEF BecomesOf, TypeOK
    <3>3. \A h \in Ids : task'[h] = "unborn" <=> task[h] = "unborn"
      BY <3>2
    <3>4. place' = place
      BY <3>2, <3>3 DEF place, PlaceOf
    <3>5. CASE from = "running"
      <4>1. id \notin ended /\ ended' = ended \cup {id}
        BY <3>2, <3>5 DEF ended
      <4>2. signals[id] = 0 /\ task[id] # "unborn"
        BY <3>2, <3>5 DEF HandleInv
      <4>3. place[id] \in {"starting", "held", "withdrawn"}
        BY <3>2, <3>5, <4>2, Places
      <4>4. QED
        BY <3>4, <4>1, <4>3 DEF Lifecycle!LifecycleNext, Lifecycle!End
    <3>6. CASE from = "notifying"
      BY <3>1, <3>2, <3>4, <3>6 DEF ended
    <3>7. QED
      BY <3>1, <3>5, <3>6
  <2>13. QED
    BY <2>2, <2>3, <2>4, <2>5, <2>6, <2>7, <2>8, <2>9, <2>10, <2>11, <2>12 DEF Next
<1>3. QED
  BY <1>1, <1>2, TypeCorrect, LockCorrect, CallCorrect, HandleCorrect,
     PTL DEF Spec, ImplementsLifecycle, Lifecycle!LifecycleSpec
=============================================================================
