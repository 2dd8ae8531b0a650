---------------------------- MODULE VRFCallProofs ----------------------------
(* What a transaction may do to the coordinator, callbacks included: how the  *)
(* reentrancy lock is held, how the committed storage grows, that it implements *)
(* RandomnessService, and that a subscription counts its answers.             *)
EXTENDS VRFStorageProofs

-----------------------------------------------------------------------------
(* The reentrancy lock *)

\* The frames of the stack after a push and after a pop.
LEMMA FramesAfter ==
    ASSUME TypeOK
    PROVE  /\ \A f : frames' = Append(frames, f) =>
                /\ frames' # <<>> /\ Top' = f
                /\ \A k \in DOMAIN frames' : frames'[k] = f \/ (k \in DOMAIN frames /\ frames'[k] = frames[k])
           /\ frames # <<>> /\ frames' = Pop =>
                \A k \in DOMAIN frames' : k \in DOMAIN frames /\ frames'[k] = frames[k]
<1> DEFINE n == Len(frames)
<1>0. frames \in Seq(Frame) /\ n \in Nat /\ DOMAIN frames = 1 .. n
  BY DEF TypeOK
<1>1. ASSUME NEW f, frames' = Append(frames, f)
      PROVE  /\ frames' # <<>> /\ Top' = f
             /\ \A k \in DOMAIN frames' :
                  frames'[k] = f \/ (k \in DOMAIN frames /\ frames'[k] = frames[k])
  <2>1. /\ Len(frames') = n + 1 /\ frames'[n + 1] = f /\ DOMAIN frames' = 1 .. n + 1
        /\ \A k \in 1 .. n : frames'[k] = frames[k]
    BY <1>0, <1>1
  <2>2. \A k \in 1 .. n + 1 : k \in 1 .. n \/ k = n + 1
    BY <1>0
  <2> HIDE DEF n
  <2>3. frames' # <<>>
    BY <1>0, <2>1
  <2> QED BY <1>0, <2>1, <2>2, <2>3 DEF Top
<1>2. ASSUME frames # <<>>, frames' = Pop
      PROVE  \A k \in DOMAIN frames' : k \in DOMAIN frames /\ frames'[k] = frames[k]
  <2>1. /\ Pop \in Seq(Frame) /\ Len(Pop) = n - 1
        /\ \A k \in 1 .. n - 1 : Pop[k] = frames[k]
    BY <1>0, <1>2, PopType
  <2>2. DOMAIN frames' = 1 .. n - 1
    BY <1>2, <2>1
  <2> QED BY <1>0, <1>2, <2>1, <2>2
<1> QED BY <1>1, <1>2

\* The two lock properties are inductive together.
LockInv == TypeOK /\ LockReleased /\ LockIsolates

\* The lock is free at first.
LEMMA LockInit == Init => LockInv
<1> SUFFICES ASSUME Init PROVE LockReleased /\ LockIsolates
  BY InitType DEF LockInv
<1>1. frames = <<>> /\ ~evm.s_config.reentrancyLock
  BY DEF Init, initialize
<1> QED BY <1>1 DEF LockReleased, LockIsolates

\* A step under the lock can only be an administrator's, which leaves the guarded
\* storage alone and may drop the lock; the others need it open, take it for a
\* new frame, or end a frame and leave it open.
LEMMA LockNext == LockInv /\ [Next]_vars => LockInv'
<1> SUFFICES ASSUME TypeOK, LockReleased, LockIsolates, [Next]_vars
             PROVE  LockReleased' /\ LockIsolates'
  BY NextType DEF LockInv
<1>0. evm \in Storage /\ frames \in Seq(Frame)
  BY DEF TypeOK
<1>1. ASSUME UNCHANGED frames, Guarded(evm') = Guarded(evm),
             evm'.s_config.reentrancyLock => evm.s_config.reentrancyLock
      PROVE  LockReleased' /\ LockIsolates'
  <2>1. LockReleased'
    BY <1>1 DEF LockReleased
  <2>2. LockIsolates'
    <3> SUFFICES ASSUME frames # <<>>, evm'.s_config.reentrancyLock
                 PROVE  Guarded(evm') = Guarded(AtCallback(Top.pre, Top.id))
      BY <1>1 DEF LockIsolates, Top
    <3> QED BY <1>1 DEF LockIsolates
  <2> QED BY <2>1, <2>2
<1>2. ASSUME UNCHANGED frames, ~evm'.s_config.reentrancyLock
      PROVE  LockReleased' /\ LockIsolates'
  BY <1>2 DEF LockReleased, LockIsolates
<1>3. ASSUME frames # <<>>, frames' = Pop, ~evm'.s_config.reentrancyLock
      PROVE  LockReleased' /\ LockIsolates'
  <2>1. \A k \in DOMAIN frames' : k \in DOMAIN frames /\ frames'[k] = frames[k]
    BY <1>3, FramesAfter
  <2> QED BY <1>3, <2>1 DEF LockReleased, LockIsolates
<1>4. ASSUME NEW sender \in Address, Administer(sender)
      PROVE  LockReleased' /\ LockIsolates'
  BY <1>1, <1>4, AdministerParts, ManagementKeepsLedger
<1>5. ASSUME NEW sender \in Address, Subscribe(sender)
      PROVE  LockReleased' /\ LockIsolates'
  <2>1. UNCHANGED frames
    BY <1>5, ManagementKeepsLedger
  <2>2. evm'.s_config = evm.s_config /\ ~evm.s_config.reentrancyLock
    BY <1>5, SubscribeParts
  <2> QED BY <1>2, <2>1, <2>2
<1>6. ASSUME NEW sender \in Address, Request(sender)
      PROVE  LockReleased' /\ LockIsolates'
  <2>1. UNCHANGED frames /\ evm'.s_config = evm.s_config /\ ~evm.s_config.reentrancyLock
    BY <1>6, RequestParts
  <2> QED BY <1>2, <2>1
<1>7. ASSUME NEW sender \in Address, Fulfill(sender)
      PROVE  LockReleased' /\ LockIsolates'
  <2>1. PICK id, rc :
          /\ ~evm.s_config.reentrancyLock /\ evm' = AtCallback(evm, id)
          /\ frames' = Append(frames, [pre |-> evm, id |-> id, rc |-> rc])
    BY <1>7 DEF Fulfill, FulfillRandomWords, nonReentrant
  <2>2. /\ frames' # <<>> /\ Top' = [pre |-> evm, id |-> id, rc |-> rc]
        /\ \A k \in DOMAIN frames' : frames'[k] = [pre |-> evm, id |-> id, rc |-> rc]
                                     \/ (k \in DOMAIN frames /\ frames'[k] = frames[k])
    BY <2>1, FramesAfter
  <2>3. Top'.pre = evm /\ Top'.id = id
    BY <2>2
  <2>4. \A k \in DOMAIN frames' : ~frames'[k].pre.s_config.reentrancyLock
    BY <2>1, <2>2 DEF LockReleased
  <2>5. Guarded(evm') = Guarded(AtCallback(Top'.pre, Top'.id))
    BY <2>1, <2>3
  <2>6. LockReleased'
    BY <2>2, <2>4 DEF LockReleased
  <2>7. LockIsolates'
    BY <2>5 DEF LockIsolates, Guarded, AtCallback
  <2> QED BY <2>6, <2>7
<1>8. ASSUME NEW success \in BOOLEAN, CallbackReturns(success)
      PROVE  LockReleased' /\ LockIsolates'
  <2> DEFINE e == IF success THEN evm ELSE AtCallback(Top.pre, Top.id)
  <2>1. frames # <<>> /\ frames' = Pop /\ evm' = AfterCallback(e, Top.id, Top.rc)
    BY <1>8 DEF CallbackReturns
  <2>2. e \in Storage
    BY <1>0, <2>1, PopType, AtCallbackType
  <2> HIDE DEF e
  <2>3. ~evm'.s_config.reentrancyLock
    BY <2>1, <2>2 DEF AfterCallback, Storage, Config
  <2> QED BY <1>3, <2>1, <2>3
<1>9. ASSUME FulfillReverts
      PROVE  LockReleased' /\ LockIsolates'
  <2>1. frames # <<>> /\ frames' = Pop /\ evm' = Top.pre
    BY <1>9 DEF FulfillReverts
  <2>2. Len(frames) \in DOMAIN frames
    BY <1>0, <2>1, PopType
  <2>3. ~evm'.s_config.reentrancyLock
    BY <2>1, <2>2 DEF LockReleased, Top
  <2> QED BY <1>3, <2>1, <2>3
<1>10. NextBlock \/ UNCHANGED vars => LockReleased' /\ LockIsolates'
  BY <1>1 DEF NextBlock, vars
<1> QED BY <1>4, <1>5, <1>6, <1>7, <1>8, <1>9, <1>10 DEF Next

\* Between transactions the lock is open, and every fulfilment started with it
\* open: nothing can leave the coordinator locked.
THEOREM LockAlwaysReleased == Spec => []LockReleased
<1>1. LockInv => LockReleased
  BY DEF LockInv
<1> QED BY <1>1, LockInit, LockNext, PTL DEF Spec

\* While the lock is held the guarded storage is the one the callback found.
THEOREM LockAlwaysIsolates == Spec => []LockIsolates
<1>1. LockInv => LockIsolates
  BY DEF LockInv
<1> QED BY <1>1, LockInit, LockNext, PTL DEF Spec

-----------------------------------------------------------------------------
(* How the committed storage grows *)

\* A step that leaves the storage alone is allowed by the lifecycle.
LEMMA FollowsReflexive == \A e \in Storage : Follows(e, e)
<1> SUFFICES ASSUME NEW e \in Storage PROVE Follows(e, e)
  OBVIOUS
<1>1. /\ e.s_currentSubId \in Nat /\ Len(e.requested) \in Nat
      /\ \A id \in RequestId : e.fulfilled[id] \in Nat
  BY BoundAssumption DEF Storage, SubId
<1> QED BY <1>1 DEF Follows

\* Several allowed steps make an allowed one.
LEMMA FollowsTransitive ==
    ASSUME NEW c \in Storage, NEW d \in Storage, NEW e \in Storage,
           Follows(c, d), Follows(d, e)
    PROVE  Follows(c, e)
<1>1. /\ c.s_currentSubId \in Nat /\ d.s_currentSubId \in Nat /\ e.s_currentSubId \in Nat
      /\ Len(c.requested) \in Nat /\ Len(d.requested) \in Nat /\ Len(e.requested) \in Nat
      /\ DOMAIN c.requested = 1 .. Len(c.requested)
      /\ DOMAIN d.requested = 1 .. Len(d.requested)
  BY BoundAssumption DEF Storage, SubId
<1>2. \A id \in RequestId :
        c.fulfilled[id] \in Nat /\ d.fulfilled[id] \in Nat /\ e.fulfilled[id] \in Nat
  BY DEF Storage
<1>3. c.s_currentSubId <= e.s_currentSubId /\ Len(c.requested) <= Len(e.requested)
  BY <1>1 DEF Follows
<1>4. \A s \in 0 .. c.s_currentSubId :
        e.s_subscriptions[s].owner \in {ZeroAddress, c.s_subscriptions[s].owner}
  <2> TAKE s \in 0 .. c.s_currentSubId
  <2>1. s \in 0 .. d.s_currentSubId
    BY <1>1 DEF Follows
  <2> QED BY <2>1 DEF Follows
<1>5. \A id \in RequestId : c.fulfilled[id] <= e.fulfilled[id]
  BY <1>2 DEF Follows
<1>6. \A i \in DOMAIN c.requested : e.requested[i] = c.requested[i]
  <2> TAKE i \in DOMAIN c.requested
  <2>1. i \in DOMAIN d.requested
    BY <1>1 DEF Follows
  <2> QED BY <2>1 DEF Follows
<1> QED BY <1>3, <1>4, <1>5, <1>6 DEF Follows

\* The parts Follows looks at, when only owners or only events may change.
LEMMA FollowsParts ==
    ASSUME NEW d \in Storage, NEW e \in Storage,
           d.s_currentSubId <= e.s_currentSubId,
           \A s \in 0 .. d.s_currentSubId :
             e.s_subscriptions[s].owner \in {ZeroAddress, d.s_subscriptions[s].owner},
           \A id \in RequestId : d.fulfilled[id] <= e.fulfilled[id],
           e.requested = d.requested
    PROVE  Follows(d, e)
<1>1. Len(d.requested) \in Nat
  BY DEF Storage
<1> QED BY <1>1 DEF Follows

\* Both halves of fulfillRandomWords lead to a later storage.
LEMMA CallbackFollows ==
    ASSUME NEW e \in Storage, NEW id \in RequestId, NEW rc \in RequestCommitment
    PROVE  /\ Follows(e, AtCallback(e, id))
           /\ Fits(e.s_subscriptions[rc.subId].reqCount + 1) => Follows(e, AfterCallback(e, id, rc))
<1>0. /\ e.s_currentSubId \in Nat /\ \A s \in 0 .. e.s_currentSubId : s \in SubId
      /\ \A i \in RequestId : e.fulfilled[i] \in Nat
  BY BoundAssumption DEF Storage, SubId
<1>1. ASSUME NEW d \in Storage, KeptParts(d, e),
             \A i \in RequestId : e.fulfilled[i] <= d.fulfilled[i]
      PROVE  Follows(e, d)
  <2>1. /\ d.s_currentSubId = e.s_currentSubId /\ d.requested = e.requested
        /\ \A s \in SubId : d.s_subscriptions[s].owner = e.s_subscriptions[s].owner
    BY <1>1 DEF KeptParts
  <2> QED BY <1>0, <1>1, <2>1, FollowsParts
<1>2. /\ KeptParts(AtCallback(e, id), e) /\ KeptParts(AfterCallback(e, id, rc), e)
      /\ AtCallback(e, id).fulfilled = e.fulfilled
      /\ \A i \in RequestId : AfterCallback(e, id, rc).fulfilled[i]
                              = e.fulfilled[i] + (IF i = id THEN 1 ELSE 0)
  BY CallbackParts, ZenonT(60)
<1>3. \A i \in RequestId : e.fulfilled[i] <= AtCallback(e, id).fulfilled[i]
  BY <1>0, <1>2
<1>4. \A i \in RequestId : e.fulfilled[i] <= AfterCallback(e, id, rc).fulfilled[i]
  BY <1>0, <1>2
<1>5. Follows(e, AtCallback(e, id))
  BY <1>1, <1>2, <1>3, AtCallbackType
<1>6. ASSUME Fits(e.s_subscriptions[rc.subId].reqCount + 1)
      PROVE  Follows(e, AfterCallback(e, id, rc))
  BY <1>1, <1>2, <1>4, <1>6, AfterCallbackType
<1> QED BY <1>5, <1>6

\* createSubscription gives an owner to the next id only; cancelSubscription
\* takes one away; the others keep all owners.
LEMMA SubscribeFollows ==
    ASSUME TypeOK, TypeOK', NEW sender \in Address, Subscribe(sender)
    PROVE  Follows(evm, evm')
<1>0. /\ evm \in Storage /\ evm' \in Storage /\ SubIds \subseteq SubId
      /\ \A s \in SubId : evm.s_subscriptions[s] \in Subscription
      /\ evm.s_currentSubId \in Nat /\ \A s \in 0 .. evm.s_currentSubId : s \in SubId
  <2>1. evm \in Storage /\ evm' \in Storage
    BY DEF TypeOK
  <2>2. evm.s_subscriptions \in [SubId -> Subscription] /\ evm.s_currentSubId \in SubId
    BY <2>1 DEF Storage
  <2>3. MaxSubId \in Nat /\ SubIds \subseteq SubId
    BY InputAssumption, BoundAssumption DEF SubId
  <2>4. evm.s_currentSubId \in Nat /\ \A s \in 0 .. evm.s_currentSubId : s \in SubId
    BY <2>2, <2>3 DEF SubId
  <2> QED BY <2>1, <2>2, <2>3, <2>4
<1>1. /\ evm'.requested = evm.requested
      /\ \A id \in RequestId : evm.fulfilled[id] <= evm'.fulfilled[id]
  <2>1. \A id \in RequestId : evm.fulfilled[id] \in Nat
    BY <1>0 DEF Storage
  <2> QED BY <2>1, ManagementKeepsLedger
<1>2. ASSUME evm.s_currentSubId <= evm'.s_currentSubId,
             \A s \in 0 .. evm.s_currentSubId :
               evm'.s_subscriptions[s].owner \in {ZeroAddress, evm.s_subscriptions[s].owner}
      PROVE  Follows(evm, evm')
  BY <1>0, <1>1, <1>2, FollowsParts
<1>3. ASSUME NEW subscriber \in Address, CreateSubscription(sender, subscriber)
      PROVE  Follows(evm, evm')
  <2> DEFINE new == evm.s_currentSubId + 1
  <2>1. /\ evm'.s_subscriptions
             = [evm.s_subscriptions EXCEPT ![new] = [NoSubscription EXCEPT !.owner = subscriber]]
        /\ evm'.s_currentSubId = new
    BY <1>0, <1>3 DEF CreateSubscription, NextSubId, Storage
  <2>2. \A s \in 0 .. evm.s_currentSubId : evm'.s_subscriptions[s] = evm.s_subscriptions[s]
    BY <1>0, <2>1 DEF Storage
  <2> QED BY <1>0, <1>2, <2>1, <2>2
<1>4. ASSUME NEW subId \in SubIds, NEW consumer \in Consumers,
             AddConsumer(sender, subId, consumer) \/ RemoveConsumer(sender, subId, consumer)
      PROVE  Follows(evm, evm')
  <2>1. /\ evm'.s_currentSubId = evm.s_currentSubId
        /\ \E list : evm'.s_subscriptions = [evm.s_subscriptions EXCEPT ![subId].consumers = list]
    BY <1>0, <1>4 DEF AddConsumer, RemoveConsumer, Storage
  <2>2. \A s \in SubId : evm'.s_subscriptions[s].owner = evm.s_subscriptions[s].owner
    BY <1>0, <2>1 DEF Storage, Subscription
  <2> QED BY <1>0, <1>2, <2>1, <2>2
<1>5. ASSUME NEW subId \in SubIds, CancelSubscription(sender, subId)
      PROVE  Follows(evm, evm')
  <2>1. /\ evm'.s_currentSubId = evm.s_currentSubId
        /\ evm'.s_subscriptions = [evm.s_subscriptions EXCEPT ![subId] = NoSubscription]
    BY <1>0, <1>5 DEF CancelSubscription, Storage
  <2>2. \A s \in SubId :
          evm'.s_subscriptions[s].owner \in {ZeroAddress, evm.s_subscriptions[s].owner}
    BY <1>0, <2>1 DEF Storage, NoSubscription
  <2> QED BY <1>0, <1>2, <2>1, <2>2
<1> QED BY <1>3, <1>4, <1>5, InputAssumption DEF Subscribe

\* A request only adds its event.
LEMMA RequestFollows ==
    ASSUME TypeOK, TypeOK', NEW sender \in Address, Request(sender)
    PROVE  Follows(evm, evm')
<1>1. PICK event \in RequestEvent :
        /\ evm'.requested = Append(evm.requested, event)
        /\ evm'.s_subscriptions = evm.s_subscriptions
        /\ evm'.s_currentSubId = evm.s_currentSubId /\ evm'.fulfilled = evm.fulfilled
  BY RequestParts
<1>2. /\ evm.s_currentSubId \in Nat /\ \A id \in RequestId : evm.fulfilled[id] \in Nat
      /\ evm.requested \in Seq(RequestEvent)
  BY BoundAssumption DEF TypeOK, Storage, SubId
<1>3. /\ Len(evm.requested) <= Len(evm'.requested)
      /\ \A i \in DOMAIN evm.requested : evm'.requested[i] = evm.requested[i]
  BY <1>1, <1>2
<1> QED BY <1>1, <1>2, <1>3 DEF Follows

\* The committed storage changes only when a step leaves no fulfilment running,
\* and is then the storage of that step.
LEMMA CommittedStep ==
    ASSUME TypeOK, [Next]_vars
    PROVE  \/ frames' = <<>> /\ Committed' = evm'
           \/ frames' # <<>> /\ Committed' = Committed
<1> DEFINE n == Len(frames)
<1>0. frames \in Seq(Frame) /\ n \in Nat /\ (frames = <<>> <=> n = 0)
  BY DEF TypeOK
<1>1. frames' \in Seq(Frame) /\ Len(frames') \in Nat /\ (frames' = <<>> <=> Len(frames') = 0)
  BY NextType DEF TypeOK
<1>2. CASE frames' = <<>>
  BY <1>1, <1>2 DEF Committed, Level
<1>3. CASE frames' # <<>>
  <2>1. 1 \in Levels' /\ Level(1)' = frames'[1].pre
    BY <1>1, <1>3 DEF Levels, Level
  <2>2. CASE UNCHANGED frames
    BY <1>3, <2>1, <2>2 DEF Committed, Level
  <2>3. CASE frames # <<>> /\ frames' = Pop
    <3>1. n - 1 = Len(frames') /\ \A k \in 1 .. n - 1 : frames'[k] = frames[k]
      BY <1>0, <2>3, PopType
    <3>2. 1 \in 1 .. n - 1 /\ 1 # n + 1
      BY <1>0, <1>1, <1>3, <3>1
    <3> QED BY <1>3, <2>1, <3>1, <3>2 DEF Committed, Level
  <2>4. ASSUME NEW f, frames' = Append(frames, f), f.pre = evm
        PROVE  Committed' = Committed
    <3>1. frames'[n + 1] = f /\ \A k \in 1 .. n : frames'[k] = frames[k]
      BY <1>0, <2>4
    <3>2. CASE n = 0
      BY <2>1, <2>4, <3>1, <3>2 DEF Committed, Level
    <3>3. CASE n # 0
      <4>1. 1 \in 1 .. n /\ 1 # n + 1
        BY <1>0, <3>3
      <4> QED BY <2>1, <3>1, <4>1 DEF Committed, Level
    <3> QED BY <3>2, <3>3
  <2>5. ASSUME NEW sender \in Address, Fulfill(sender)
        PROVE  Committed' = Committed
    <3>1. PICK id, rc : frames' = Append(frames, [pre |-> evm, id |-> id, rc |-> rc])
      BY <2>5 DEF Fulfill, FulfillRandomWords
    <3> QED BY <2>4, <3>1
  <2>6. ASSUME NEW sender \in Address, Administer(sender) \/ Subscribe(sender)
        PROVE  UNCHANGED frames
    BY <2>6, ManagementKeepsLedger
  <2>7. ASSUME NEW sender \in Address, Request(sender)
        PROVE  UNCHANGED frames
    BY <2>7 DEF Request, RequestRandomWords
  <2>8. ASSUME NEW success \in BOOLEAN, CallbackReturns(success)
        PROVE  frames # <<>> /\ frames' = Pop
    BY <2>8 DEF CallbackReturns
  <2>9. FulfillReverts => frames # <<>> /\ frames' = Pop
    BY DEF FulfillReverts
  <2>10. NextBlock \/ UNCHANGED vars => UNCHANGED frames
    BY DEF NextBlock, vars
  <2> QED BY <1>3, <2>2, <2>3, <2>5, <2>6, <2>7, <2>8, <2>9, <2>10 DEF Next
<1> QED BY <1>2, <1>3

\* The inductive invariant: at every level of the stack the storage is later than
\* the committed one.  SubscriptionLifecycle needs it, because the end of a
\* transaction commits what several nested levels have done.
FollowInv == TypeOK /\ \A k \in Levels : Follows(Committed, Level(k))

\* At first there is one level, the committed storage.
LEMMA FollowInit == Init => FollowInv
<1> SUFFICES ASSUME Init PROVE \A k \in Levels : Follows(Committed, Level(k))
  BY InitType DEF FollowInv
<1>1. frames = <<>> /\ evm \in Storage
  BY InitType DEF Init, TypeOK
<1>2. Committed = evm /\ \A k \in Levels : Level(k) = evm
  BY <1>1 DEF Levels, Level, Committed
<1> QED BY <1>1, <1>2, FollowsReflexive

\* What a step leaves is later than what was committed.
LEMMA StepFollows ==
    ASSUME FollowInv, [Next]_vars
    PROVE  Follows(Committed, evm')
<1>0. TypeOK /\ TypeOK' /\ evm \in Storage /\ evm' \in Storage /\ Committed \in Storage
  <2>1. TypeOK /\ TypeOK'
    BY NextType DEF FollowInv
  <2>2. 1 \in Levels
    BY <2>1, StackLevels DEF Levels
  <2>3. Level(1) \in Storage
    BY <2>1, <2>2, LevelTypes
  <2> QED BY <2>1, <2>3 DEF TypeOK, Committed
<1>1. /\ Follows(Committed, evm)
      /\ frames # <<>> => Follows(Committed, Top.pre)
  BY <1>0, StackLevels DEF FollowInv
<1>2. ASSUME Follows(evm, evm') PROVE Follows(Committed, evm')
  BY <1>0, <1>1, <1>2, FollowsTransitive
<1>3. ASSUME NEW sender \in Address, Administer(sender)
      PROVE  Follows(evm, evm')
  <2>1. Guarded(evm') = Guarded(evm) /\ Follows(evm, evm)
    BY <1>0, <1>3, AdministerParts, FollowsReflexive
  <2> QED BY <2>1 DEF Guarded, Follows
<1>4. ASSUME NEW sender \in Address, Subscribe(sender) \/ Request(sender)
      PROVE  Follows(evm, evm')
  BY <1>0, <1>4, SubscribeFollows, RequestFollows
<1>5. ASSUME NEW sender \in Address, Fulfill(sender)
      PROVE  Follows(evm, evm')
  <2>1. PICK i \in DOMAIN evm.requested, j \in DOMAIN evm.requested :
          FulfillRandomWords(sender, evm.requested[i].id, evm.requested[j].rc)
    BY <1>5 DEF Fulfill
  <2>2. /\ evm' = AtCallback(evm, evm.requested[i].id)
        /\ evm.requested[i] \in RequestEvent /\ evm.requested[j] \in RequestEvent
    BY <1>0, <2>1 DEF FulfillRandomWords, Storage
  <2>3. evm.requested[i].id \in RequestId /\ evm.requested[j].rc \in RequestCommitment
    BY <2>2 DEF RequestEvent
  <2> QED BY <1>0, <2>2, <2>3, CallbackFollows
<1>6. ASSUME NEW success \in BOOLEAN, CallbackReturns(success)
      PROVE  Follows(Committed, evm')
  <2> DEFINE e == IF success THEN evm ELSE AtCallback(Top.pre, Top.id)
  <2>1. /\ frames # <<>> /\ evm' = AfterCallback(e, Top.id, Top.rc)
        /\ Fits(e.s_subscriptions[Top.rc.subId].reqCount + 1)
    BY <1>6 DEF CallbackReturns
  <2>2. Top.pre \in Storage /\ Top.id \in RequestId /\ Top.rc \in RequestCommitment
    BY <1>0, <2>1, PopType DEF TypeOK
  <2>3. AtCallback(Top.pre, Top.id) \in Storage
    BY <2>2, AtCallbackType
  <2>4. Follows(Top.pre, AtCallback(Top.pre, Top.id))
    BY <2>2, CallbackFollows
  <2>5. e \in Storage /\ Follows(Committed, e)
    BY <1>0, <1>1, <2>1, <2>2, <2>3, <2>4, FollowsTransitive
  <2> HIDE DEF e
  <2>6. Follows(e, evm')
    BY <2>1, <2>2, <2>5, CallbackFollows
  <2> QED BY <1>0, <2>5, <2>6, FollowsTransitive
<1>7. FulfillReverts => Follows(Committed, evm')
  BY <1>1 DEF FulfillReverts
<1>8. NextBlock \/ UNCHANGED vars => Follows(Committed, evm')
  BY <1>1 DEF NextBlock, vars
<1> QED BY <1>2, <1>3, <1>4, <1>5, <1>6, <1>7, <1>8 DEF Next

\* Every step keeps the levels in order, and what it commits follows what was
\* committed.
LEMMA FollowNext ==
    ASSUME FollowInv, [Next]_vars
    PROVE  FollowInv' /\ Follows(Committed, Committed')
<1>0. TypeOK /\ TypeOK' /\ Follows(Committed, evm')
  BY NextType, StepFollows DEF FollowInv
<1>1. CASE frames' = <<>> /\ Committed' = evm'
  <2>1. \A k \in Levels' : Level(k)' = evm'
    BY <1>1 DEF Levels, Level
  <2>2. Follows(evm', evm')
    BY <1>0, FollowsReflexive DEF TypeOK
  <2> QED BY <1>0, <1>1, <2>1, <2>2 DEF FollowInv
<1>2. CASE frames' # <<>> /\ Committed' = Committed
  <2>1. \A k \in Levels' : Follows(Committed', Level(k)')
    BY <1>0, <1>2, NewLevels DEF FollowInv
  <2>2. Committed \in Storage
    <3>1. 1 \in Levels
      BY <1>0, StackLevels DEF Levels
    <3> QED BY <1>0, <3>1, LevelTypes DEF Committed
  <2> QED BY <1>0, <1>2, <2>1, <2>2, FollowsReflexive DEF FollowInv
<1> QED BY <1>0, <1>1, <1>2, CommittedStep

\* A cancelled subscription stays cancelled, a live one keeps its owner, and no
\* event or answer is ever taken back, across whole transactions.
THEOREM LifecycleHolds == Spec => SubscriptionLifecycle
<1>1. FollowInv /\ [Next]_vars => FollowInv'
  BY FollowNext
<1>2. FollowInv /\ [Next]_vars => [Follows(Committed, Committed')]_vars
  BY FollowNext
<1> QED BY <1>1, <1>2, FollowInit, PTL DEF Spec, SubscriptionLifecycle

-----------------------------------------------------------------------------
(* The ledger of one id *)

\* An id was asked for, answered and owed (a0, f0, p0) times in the committed
\* storage, and is now (a, f, p) times with u answers under way: of the requests
\* that were open or are new each is answered, under way or owed at most once,
\* and not all of them are lost.
Covered(a0, f0, p0, a, f, p, u) ==
    /\ a0 <= a /\ f0 <= f
    /\ (f - f0) + p + u <= (a - a0) + p0
    /\ (a - a0) + p0 > 0 => (f - f0) + p + u > 0

\* Covered, for the ledgers of two storages: u answers to id are under way in
\* between.
Served(c, e, id, u) ==
    Covered(Asked(c, id), c.fulfilled[id], Pending(c, id),
            Asked(e, id), e.fulfilled[id], Pending(e, id), u)

\* The entries of a ledger are natural numbers.
LEMMA LedgerTypes ==
    ASSUME NEW e \in Storage, NEW id \in RequestId
    PROVE  Asked(e, id) \in Nat /\ Pending(e, id) \in {0, 1} /\ e.fulfilled[id] \in Nat
<1>1. e.requested \in Seq(RequestEvent) /\ e.fulfilled[id] \in Nat
  BY DEF Storage
<1>2. Len(e.requested) \in Nat
      /\ {i \in DOMAIN e.requested : e.requested[i].id = id} \in SUBSET (1 .. Len(e.requested))
  BY <1>1
<1> QED BY <1>1, <1>2, CountPositions DEF Asked, Pending

\* The moves of a request, from storage d to storage e: it is asked for, taken
\* from owed to under way, or answered; or nothing happens to it.
LEMMA ServedMoves ==
    ASSUME NEW c \in Storage, NEW d \in Storage, NEW e, NEW id \in RequestId, NEW u \in Nat
    PROVE  /\ /\ Served(c, d, id, u) /\ e.fulfilled[id] = d.fulfilled[id]
              /\ Asked(e, id) = Asked(d, id) + 1 /\ Pending(e, id) = 1
              => Served(c, e, id, u)
           /\ /\ Served(c, d, id, u) /\ e.fulfilled[id] = d.fulfilled[id]
              /\ Asked(e, id) = Asked(d, id) /\ Pending(d, id) = 1 /\ Pending(e, id) = 0
              => Served(c, e, id, u + 1)
           /\ /\ Served(c, d, id, u + 1) /\ e.fulfilled[id] = d.fulfilled[id] + 1
              /\ Asked(e, id) = Asked(d, id) /\ Pending(e, id) = Pending(d, id)
              => Served(c, e, id, u)
           /\ /\ Served(c, d, id, u) /\ e.fulfilled[id] = d.fulfilled[id]
              /\ Asked(e, id) = Asked(d, id) /\ Pending(e, id) = Pending(d, id)
              => Served(c, e, id, u)
<1>1. /\ Asked(c, id) \in Nat /\ Pending(c, id) \in {0, 1} /\ c.fulfilled[id] \in Nat
      /\ Asked(d, id) \in Nat /\ Pending(d, id) \in {0, 1} /\ d.fulfilled[id] \in Nat
  BY LedgerTypes
<1> QED BY <1>1 DEF Served, Covered

\* A committed storage has served itself.
LEMMA ServedReflexive ==
    ASSUME NEW e \in Storage, NEW id \in RequestId
    PROVE  Served(e, e, id, 0)
<1>1. Asked(e, id) \in Nat /\ Pending(e, id) \in {0, 1} /\ e.fulfilled[id] \in Nat
  BY LedgerTypes
<1> QED BY <1>1 DEF Served, Covered

\* A request asks once more for its id and leaves it owed.
LEMMA RequestLedger ==
    ASSUME TypeOK, NEW sender \in Address, Request(sender)
    PROVE  \E new \in RequestId : \A id \in RequestId :
             /\ id = new => Asked(evm', id) = Asked(evm, id) + 1 /\ Pending(evm', id) = 1
             /\ id # new => Asked(evm', id) = Asked(evm, id) /\ Pending(evm', id) = Pending(evm, id)
             /\ evm'.fulfilled[id] = evm.fulfilled[id]
<1> PICK event \in RequestEvent :
      /\ evm'.requested = Append(evm.requested, event)
      /\ evm'.s_requestCommitments = [evm.s_requestCommitments EXCEPT ![event.id] = event.rc]
      /\ evm'.fulfilled = evm.fulfilled
  BY RequestParts
<1> DEFINE n == Len(evm.requested)
<1>1. /\ evm.requested \in Seq(RequestEvent) /\ n \in Nat
      /\ event.id \in RequestId /\ event.rc # NoCommitment
      /\ DOMAIN evm.s_requestCommitments = RequestId
  BY CommitmentAssumption DEF TypeOK, Storage, RequestEvent
<1>2. /\ DOMAIN evm.requested = 1 .. n /\ DOMAIN evm'.requested = 1 .. n + 1
      /\ evm'.requested[n + 1] = event
      /\ \A i \in 1 .. n : evm'.requested[i] = evm.requested[i]
  BY <1>1
<1> HIDE DEF n
<1> SUFFICES ASSUME NEW id \in RequestId
             PROVE  /\ id = event.id =>
                         Asked(evm', id) = Asked(evm, id) + 1 /\ Pending(evm', id) = 1
                    /\ id # event.id =>
                         Asked(evm', id) = Asked(evm, id) /\ Pending(evm', id) = Pending(evm, id)
                    /\ evm'.fulfilled[id] = evm.fulfilled[id]
  BY <1>1
<1> DEFINE S == {i \in 1 .. n : evm.requested[i].id = id}
           T == {i \in 1 .. n + 1 : evm'.requested[i].id = id}
<1>3. /\ Asked(evm, id) = Cardinality(S) /\ Asked(evm', id) = Cardinality(T)
      /\ Cardinality(S) \in Nat /\ Cardinality(S \cup {n + 1}) = Cardinality(S) + 1
  <2>1. S \in SUBSET (1 .. n)
    OBVIOUS
  <2>2. Asked(evm, id) = Cardinality(S) /\ Asked(evm', id) = Cardinality(T)
    BY <1>2 DEF Asked
  <2> QED BY <1>1, <2>1, <2>2, CountPositions
<1>4. CASE id = event.id
  <2>1. T = S \cup {n + 1}
    BY <1>1, <1>2, <1>4
  <2>2. Pending(evm', id) = 1
    BY <1>1, <1>4 DEF Pending
  <2> QED BY <1>3, <1>4, <2>1, <2>2
<1>5. CASE id # event.id
  <2>1. T = S
    BY <1>1, <1>2, <1>5
  <2>2. Pending(evm', id) = Pending(evm, id)
    BY <1>1, <1>5 DEF Pending
  <2> QED BY <1>3, <1>5, <2>1, <2>2
<1> QED BY <1>4, <1>5

\* Starting a fulfilment of rid uses up what was owed; ending it is an answer.
LEMMA CallbackLedger ==
    ASSUME NEW e \in Storage, NEW rid \in RequestId, NEW rc \in RequestCommitment,
           NEW id \in RequestId
    PROVE  /\ Asked(AtCallback(e, rid), id) = Asked(e, id)
           /\ AtCallback(e, rid).fulfilled[id] = e.fulfilled[id]
           /\ id = rid => Pending(AtCallback(e, rid), id) = 0
           /\ id # rid => Pending(AtCallback(e, rid), id) = Pending(e, id)
           /\ Asked(AfterCallback(e, rid, rc), id) = Asked(e, id)
           /\ id = rid => AfterCallback(e, rid, rc).fulfilled[id] = e.fulfilled[id] + 1
           /\ id # rid => AfterCallback(e, rid, rc).fulfilled[id] = e.fulfilled[id]
           /\ Pending(AfterCallback(e, rid, rc), id) = Pending(e, id)
<1>1. /\ AtCallback(e, rid).requested = e.requested
      /\ AfterCallback(e, rid, rc).requested = e.requested
  BY DEF AtCallback, AfterCallback, Storage
<1>2. /\ AtCallback(e, rid).s_requestCommitments
           = [e.s_requestCommitments EXCEPT ![rid] = NoCommitment]
      /\ DOMAIN e.s_requestCommitments = RequestId
      /\ AfterCallback(e, rid, rc).s_requestCommitments = e.s_requestCommitments
  BY DEF AtCallback, AfterCallback, Storage
<1>3. /\ id = rid => Pending(AtCallback(e, rid), id) = 0
      /\ id # rid => Pending(AtCallback(e, rid), id) = Pending(e, id)
  BY <1>2 DEF Pending
<1>4. AtCallback(e, rid).fulfilled = e.fulfilled
  BY DEF AtCallback, Storage
<1>5. /\ id = rid => AfterCallback(e, rid, rc).fulfilled[id] = e.fulfilled[id] + 1
      /\ id # rid => AfterCallback(e, rid, rc).fulfilled[id] = e.fulfilled[id]
  <2>1. /\ AfterCallback(e, rid, rc).fulfilled = [e.fulfilled EXCEPT ![rid] = @ + 1]
        /\ e.fulfilled \in [RequestId -> Nat]
    BY DEF AfterCallback, Storage
  <2> QED BY <2>1
<1> QED BY <1>1, <1>2, <1>3, <1>4, <1>5 DEF Asked, Pending

-----------------------------------------------------------------------------
(* The answers under way *)

\* How many of the first n frames of a stack answer id.
UnderWay(stack, n, id) == Cardinality({m \in 1 .. n : stack[m].id = id})

\* Only the frames themselves count.
LEMMA UnderWaySame ==
    ASSUME NEW stack, NEW other, NEW n \in Nat, NEW id, \A m \in 1 .. n : other[m] = stack[m]
    PROVE  UnderWay(other, n, id) = UnderWay(stack, n, id)
<1>1. {m \in 1 .. n : other[m].id = id} = {m \in 1 .. n : stack[m].id = id}
  OBVIOUS
<1> QED BY <1>1 DEF UnderWay

\* One more frame counts for its own id.
LEMMA UnderWayOver ==
    ASSUME NEW stack, NEW n \in Nat, NEW id
    PROVE  /\ UnderWay(stack, n, id) \in Nat
           /\ id = stack[n + 1].id => UnderWay(stack, n + 1, id) = UnderWay(stack, n, id) + 1
           /\ id # stack[n + 1].id => UnderWay(stack, n + 1, id) = UnderWay(stack, n, id)
<1> DEFINE S == {m \in 1 .. n : stack[m].id = id}
           T == {m \in 1 .. n + 1 : stack[m].id = id}
<1>1. S \in SUBSET (1 .. n)
  OBVIOUS
<1>2. Cardinality(S) \in Nat /\ Cardinality(S \cup {n + 1}) = Cardinality(S) + 1
  BY <1>1, CountPositions
<1>3. UnderWay(stack, n, id) = Cardinality(S) /\ UnderWay(stack, n + 1, id) = Cardinality(T)
  BY DEF UnderWay
<1>4. CASE stack[n + 1].id = id
  <2>1. T = S \cup {n + 1}
    BY <1>4
  <2> QED BY <1>2, <1>3, <1>4, <2>1
<1>5. CASE stack[n + 1].id # id
  <2>1. T = S
    BY <1>5
  <2> QED BY <1>2, <1>3, <1>5, <2>1
<1> QED BY <1>4, <1>5

\* Nothing is under way below the first frame.
LEMMA UnderWayNone == \A stack, id : UnderWay(stack, 0, id) = 0
<1> TAKE stack, id
<1>1. {m \in 1 .. 0 : stack[m].id = id} = {}
  OBVIOUS
<1> QED BY <1>1, FS_EmptySet DEF UnderWay

-----------------------------------------------------------------------------
(* Every level has served the ids since the committed storage *)

\* What the levels above the committed storage have done to an id is one step
\* of the service.
ServiceInv ==
    /\ AnswerInv
    /\ \A k \in Levels : \A id \in RequestId :
         Served(Committed, Level(k), id, UnderWay(frames, k - 1, id))

\* At first the only level is the committed storage.
LEMMA ServiceInit == Init => ServiceInv
<1> SUFFICES ASSUME Init, NEW k \in Levels, NEW id \in RequestId
             PROVE  Served(Committed, Level(k), id, UnderWay(frames, k - 1, id))
  BY AnswerInit DEF ServiceInv
<1>1. evm \in Storage /\ frames = <<>>
  BY InitType DEF Init, TypeOK
<1>2. k - 1 = 0 /\ Level(k) = evm /\ Committed = evm
  BY <1>1 DEF Levels, Level, Committed
<1> QED BY <1>1, <1>2, UnderWayNone, ServedReflexive

\* The new storage of a step, with all that is then under way, has served every id.
LEMMA StepServed ==
    ASSUME ServiceInv, [Next]_vars, NEW id \in RequestId
    PROVE  Served(Committed, evm', id, UnderWay(frames', Len(frames'), id))
<1> DEFINE n == Len(frames)
           C == Committed
           Goal == Served(C, evm', id, UnderWay(frames', Len(frames'), id))
<1>0. /\ TypeOK /\ FramesOpen /\ evm \in Storage /\ frames \in Seq(Frame)
      /\ n \in Nat /\ (frames # <<>> => n - 1 \in Nat) /\ C \in Storage
  <2>1. TypeOK /\ FramesOpen
    BY DEF ServiceInv, AnswerInv
  <2>2. 1 \in Levels
    BY <2>1, StackLevels DEF Levels
  <2>3. C \in Storage
    BY <2>1, <2>2, LevelTypes DEF Committed
  <2>4. frames # <<>> => n - 1 \in Nat
    BY <2>1 DEF TypeOK
  <2> QED BY <2>1, <2>3, <2>4 DEF TypeOK
<1> HIDE DEF C
<1>1. /\ Served(C, evm, id, UnderWay(frames, n, id)) /\ UnderWay(frames, n, id) \in Nat
      /\ frames # <<>> => /\ Served(C, Top.pre, id, UnderWay(frames, n - 1, id))
                          /\ UnderWay(frames, n - 1, id) \in Nat
  <2>1. /\ n + 1 \in Levels /\ Level(n + 1) = evm /\ n + 1 - 1 = n
        /\ frames # <<>> => n \in Levels /\ Level(n) = Top.pre
    BY <1>0, StackLevels
  <2>2. \A k \in Levels : Served(C, Level(k), id, UnderWay(frames, k - 1, id))
    BY DEF ServiceInv, C
  <2>3. Served(C, evm, id, UnderWay(frames, n + 1 - 1, id))
    BY <2>1, <2>2
  <2>4. UnderWay(frames, n, id) \in Nat
        /\ (frames # <<>> => UnderWay(frames, n - 1, id) \in Nat)
    BY <1>0, UnderWayOver
  <2> QED BY <2>1, <2>2, <2>3, <2>4
<1>3. ASSUME frames # <<>>, frames' = Pop
      PROVE  UnderWay(frames', Len(frames'), id) = UnderWay(frames, n - 1, id)
  <2>1. Len(frames') = n - 1 /\ \A m \in 1 .. n - 1 : frames'[m] = frames[m]
    BY <1>0, <1>3, PopType
  <2> QED BY <1>0, <1>3, <2>1, UnderWaySame
<1>5. ASSUME UNCHANGED frames, evm'.fulfilled = evm.fulfilled,
             evm'.s_requestCommitments = evm.s_requestCommitments,
             evm'.requested = evm.requested
      PROVE  Goal
  <2>1. /\ Asked(evm', id) = Asked(evm, id) /\ Pending(evm', id) = Pending(evm, id)
        /\ evm'.fulfilled[id] = evm.fulfilled[id]
    BY <1>5 DEF Asked, Pending
  <2> QED BY <1>1, <1>5, <2>1 DEF Served
<1>6. ASSUME NEW sender \in Address, Administer(sender) \/ Subscribe(sender)
      PROVE  Goal
  BY <1>0, <1>5, <1>6, ManagementKeepsLedger
<1>7. ASSUME NEW sender \in Address, Request(sender)
      PROVE  Goal
  <2>1. PICK new \in RequestId :
          /\ id = new => Asked(evm', id) = Asked(evm, id) + 1 /\ Pending(evm', id) = 1
          /\ id # new => Asked(evm', id) = Asked(evm, id) /\ Pending(evm', id) = Pending(evm, id)
          /\ evm'.fulfilled[id] = evm.fulfilled[id]
    BY <1>0, <1>7, RequestLedger
  <2>2. UNCHANGED frames
    BY <1>7 DEF Request, RequestRandomWords
  <2>3. UnderWay(frames', Len(frames'), id) = UnderWay(frames, n, id)
    BY <2>2
  <2> HIDE DEF n
  <2>4. CASE id = new
    BY <1>0, <1>1, <2>1, <2>3, <2>4, ServedMoves
  <2>5. CASE id # new
    BY <1>0, <1>1, <2>1, <2>3, <2>5, ServedMoves
  <2> QED BY <2>4, <2>5
<1>8. ASSUME NEW sender \in Address, Fulfill(sender)
      PROVE  Goal
  <2>1. PICK i \in DOMAIN evm.requested, j \in DOMAIN evm.requested :
          FulfillRandomWords(sender, evm.requested[i].id, evm.requested[j].rc)
    BY <1>8 DEF Fulfill
  <2> DEFINE rid == evm.requested[i].id
             rc == evm.requested[j].rc
             top == [pre |-> evm, id |-> rid, rc |-> rc]
  <2>2. evm.requested[i] \in RequestEvent /\ evm.requested[j] \in RequestEvent
    BY <1>0 DEF Storage
  <2>3. /\ rid \in RequestId /\ rc \in RequestCommitment
        /\ evm' = AtCallback(evm, rid) /\ frames' = Append(frames, top) /\ top.id = rid
        /\ evm.s_requestCommitments[rid] # NoCommitment
    BY <2>1, <2>2 DEF FulfillRandomWords, getRandomnessFromProof, RequestEvent
  <2> HIDE DEF rid, rc, top
  <2>4. /\ Len(frames') = n + 1 /\ frames'[n + 1] = top
        /\ \A m \in 1 .. n : frames'[m] = frames[m]
    BY <1>0, <2>3
  <2> HIDE DEF n
  <2>5. UnderWay(frames', n, id) = UnderWay(frames, n, id)
    BY <1>0, <2>4, UnderWaySame
  <2>6. /\ id = rid => UnderWay(frames', Len(frames'), id) = UnderWay(frames, n, id) + 1
        /\ id # rid => UnderWay(frames', Len(frames'), id) = UnderWay(frames, n, id)
    <3>1. /\ id = frames'[n + 1].id => UnderWay(frames', n + 1, id) = UnderWay(frames', n, id) + 1
          /\ id # frames'[n + 1].id => UnderWay(frames', n + 1, id) = UnderWay(frames', n, id)
      BY <1>0, UnderWayOver
    <3> QED BY <2>3, <2>4, <2>5, <3>1
  <2>7. /\ Asked(evm', id) = Asked(evm, id) /\ evm'.fulfilled[id] = evm.fulfilled[id]
        /\ id = rid => Pending(evm', id) = 0
        /\ id # rid => Pending(evm', id) = Pending(evm, id)
    BY <1>0, <2>3, CallbackLedger
  <2>8. id = rid => Pending(evm, id) = 1
    BY <2>3 DEF Pending
  <2>9. CASE id = rid
    BY <1>0, <1>1, <2>6, <2>7, <2>8, <2>9, ServedMoves
  <2>10. CASE id # rid
    BY <1>0, <1>1, <2>6, <2>7, <2>10, ServedMoves
  <2> QED BY <2>9, <2>10
<1>9. ASSUME NEW success \in BOOLEAN, CallbackReturns(success)
      PROVE  Goal
  <2> DEFINE rid == Top.id
             u == UnderWay(frames, n - 1, id)
             e == IF success THEN evm ELSE AtCallback(Top.pre, rid)
  <2>1. frames # <<>> /\ frames' = Pop /\ evm' = AfterCallback(e, rid, Top.rc)
    BY <1>9 DEF CallbackReturns
  <2>2. /\ Top.pre \in Storage /\ rid \in RequestId /\ Top.rc \in RequestCommitment
        /\ n \in DOMAIN frames
    BY <1>0, <2>1, PopType
  <2>3. e \in Storage
    BY <1>0, <2>2, AtCallbackType
  <2>4. Served(C, Top.pre, id, u) /\ u \in Nat
    BY <1>1, <2>1
  <2>5. UnderWay(frames', Len(frames'), id) = u
    BY <1>3, <2>1
  <2>6. /\ id = rid => Served(C, e, id, u + 1)
        /\ id # rid => Served(C, e, id, u)
    <3>1. CASE success
      <4>1. n - 1 \in Nat /\ n - 1 + 1 = n /\ frames[n].id = rid
        BY <1>0, <2>1 DEF Top
      <4>2. /\ id = rid => UnderWay(frames, n, id) = u + 1
            /\ id # rid => UnderWay(frames, n, id) = u
        BY <4>1, UnderWayOver
      <4>3. e = evm
        BY <3>1
      <4> HIDE DEF e, rid, u, n
      <4> QED BY <1>1, <4>2, <4>3
    <3>2. CASE ~success
      <4>1. /\ Asked(e, id) = Asked(Top.pre, id) /\ e.fulfilled[id] = Top.pre.fulfilled[id]
            /\ id = rid => Pending(e, id) = 0
            /\ id # rid => Pending(e, id) = Pending(Top.pre, id)
        BY <2>2, <3>2, CallbackLedger
      <4>2. id = rid => Pending(Top.pre, id) = 1
        BY <1>0, <2>2 DEF FramesOpen, Pending, Top
      <4> HIDE DEF e, rid, u
      <4>4. CASE id = rid
        BY <1>0, <2>2, <2>4, <4>1, <4>2, <4>4, ServedMoves
      <4>5. CASE id # rid
        BY <1>0, <2>2, <2>4, <4>1, <4>5, ServedMoves
      <4> QED BY <4>4, <4>5
    <3> QED BY <3>1, <3>2
  <2> HIDE DEF e, rid, u
  <2>7. /\ Asked(evm', id) = Asked(e, id) /\ Pending(evm', id) = Pending(e, id)
        /\ id = rid => evm'.fulfilled[id] = e.fulfilled[id] + 1
        /\ id # rid => evm'.fulfilled[id] = e.fulfilled[id]
    BY <2>1, <2>2, <2>3, CallbackLedger
  <2>8. CASE id = rid
    BY <1>0, <2>3, <2>4, <2>5, <2>6, <2>7, <2>8, ServedMoves
  <2>9. CASE id # rid
    BY <1>0, <2>3, <2>4, <2>5, <2>6, <2>7, <2>9, ServedMoves
  <2> QED BY <2>8, <2>9
<1>10. FulfillReverts => Goal
  BY <1>1, <1>3 DEF FulfillReverts
<1>11. NextBlock \/ UNCHANGED vars => Goal
  BY <1>5 DEF NextBlock, vars
<1> QED BY <1>6, <1>7, <1>8, <1>9, <1>10, <1>11 DEF Next, C

\* The frames below a level stay as long as the level does.
LEMMA FramesBelow ==
    ASSUME TypeOK, [Next]_vars
    PROVE  \A m \in DOMAIN frames \cap DOMAIN frames' : frames'[m] = frames[m]
<1>1. ASSUME NEW f, frames' = Append(frames, f)
      PROVE  \A m \in DOMAIN frames \cap DOMAIN frames' : frames'[m] = frames[m]
  BY <1>1 DEF TypeOK
<1>2. ASSUME frames # <<>>, frames' = Pop
      PROVE  \A m \in DOMAIN frames \cap DOMAIN frames' : frames'[m] = frames[m]
  BY <1>2, FramesAfter
<1>3. ASSUME NEW sender \in Address, Administer(sender) \/ Subscribe(sender)
      PROVE  UNCHANGED frames
  BY <1>3, ManagementKeepsLedger
<1>4. ASSUME NEW sender \in Address, Request(sender)
      PROVE  UNCHANGED frames
  BY <1>4 DEF Request, RequestRandomWords
<1>5. ASSUME NEW sender \in Address, Fulfill(sender)
      PROVE  \E f : frames' = Append(frames, f)
  BY <1>5 DEF Fulfill, FulfillRandomWords
<1>6. ASSUME NEW success \in BOOLEAN, CallbackReturns(success)
      PROVE  frames # <<>> /\ frames' = Pop
  BY <1>6 DEF CallbackReturns
<1>7. FulfillReverts => frames # <<>> /\ frames' = Pop
  BY DEF FulfillReverts
<1>8. NextBlock \/ UNCHANGED vars => UNCHANGED frames
  BY DEF NextBlock, vars
<1> QED BY <1>1, <1>2, <1>3, <1>4, <1>5, <1>6, <1>7, <1>8 DEF Next

\* Every step keeps this relation between each level and the committed
\* storage.
LEMMA ServiceNext ==
    ASSUME ServiceInv, [Next]_vars
    PROVE  ServiceInv'
<1>0. TypeOK /\ TypeOK' /\ AnswerInv'
  BY NextType, AnswerNext DEF ServiceInv, AnswerInv
<1>1. ASSUME NEW k \in Levels', NEW id \in RequestId
      PROVE  Served(Committed', Level(k)', id, UnderWay(frames', k - 1, id))
  <2>1. CASE frames' = <<>> /\ Committed' = evm'
    <3>1. k - 1 = 0 /\ Level(k)' = evm' /\ evm' \in Storage
      BY <1>0, <2>1 DEF Levels, Level, TypeOK
    <3> QED BY <2>1, <3>1, UnderWayNone, ServedReflexive
  <2>2. CASE frames' # <<>> /\ Committed' = Committed
    <3>0. Len(frames) \in Nat /\ Len(frames') \in Nat /\ DOMAIN frames = 1 .. Len(frames)
          /\ DOMAIN frames' = 1 .. Len(frames') /\ k \in 1 .. Len(frames') + 1
      BY <1>0 DEF TypeOK, Levels
    <3>1. CASE k = Len(frames') + 1
      <4>1. k - 1 = Len(frames') /\ Level(k)' = evm'
        BY <3>0, <3>1 DEF Level
      <4> QED BY <2>2, <4>1, StepServed
    <3>2. CASE k # Len(frames') + 1
      <4>1. k \in Levels /\ Level(k)' = Level(k)
        BY <1>0, <3>2, NewLevels
      <4>2. k - 1 \in Nat /\ \A m \in 1 .. k - 1 : m \in DOMAIN frames \cap DOMAIN frames'
        BY <3>0, <4>1 DEF Levels
      <4>3. \A m \in 1 .. k - 1 : frames'[m] = frames[m]
        BY <1>0, <4>2, FramesBelow
      <4>4. UnderWay(frames', k - 1, id) = UnderWay(frames, k - 1, id)
        BY <4>2, <4>3, UnderWaySame
      <4> QED BY <2>2, <4>1, <4>4 DEF ServiceInv
    <3> QED BY <3>1, <3>2
  <2> QED BY <1>0, <2>1, <2>2, CommittedStep
<1> QED BY <1>0, <1>1 DEF ServiceInv

-----------------------------------------------------------------------------
(* The refinement *)

\* The storage initialize leaves is an initial state of the service.
LEMMA ServiceStarts == Init => Service!Init
<1> SUFFICES ASSUME Init PROVE Service!Init
  OBVIOUS
<1>1. /\ Committed = evm /\ evm.requested = <<>>
      /\ evm.fulfilled = [id \in RequestId |-> 0]
      /\ evm.s_requestCommitments = [id \in RequestId |-> NoCommitment]
  BY DEF Init, initialize, Committed, Level
<1>2. \A id : Asked(Committed, id) = 0
  <2> TAKE id
  <2>1. {i \in DOMAIN Committed.requested : Committed.requested[i].id = id} = {}
    BY <1>1
  <2> QED BY <2>1, FS_EmptySet DEF Asked
<1>3. {id \in RequestId : Committed.s_requestCommitments[id] # NoCommitment} = {}
  BY <1>1
<1> QED BY <1>1, <1>2, <1>3 DEF Service!Init

\* What the end of a transaction commits has served every id.
LEMMA CommittedServed ==
    ASSUME ServiceInv, [Next]_vars, frames' = <<>>, NEW id \in RequestId
    PROVE  Served(Committed, evm', id, 0)
<1>1. Len(frames') = 0
  OBVIOUS
<1> QED BY <1>1, StepServed, UnderWayNone

\* Every step is a step of the service, or one it does not see.
LEMMA ServiceSteps ==
    ASSUME ServiceInv, [Next]_vars
    PROVE  [Service!Next]_(Service!vars)
<1>0. TypeOK /\ TypeOK' /\ Committed \in Storage
  <2>1. TypeOK /\ TypeOK'
    BY NextType DEF ServiceInv, AnswerInv
  <2>2. 1 \in Levels
    BY <2>1, StackLevels DEF Levels
  <2> QED BY <2>1, <2>2, LevelTypes DEF Committed
<1>1. CASE frames' # <<>> /\ Committed' = Committed
  BY <1>1 DEF Service!vars
<1>2. CASE frames' = <<>> /\ Committed' = evm'
  <2>1. Committed' \in Storage
    BY <1>0, <1>2 DEF TypeOK
  <2>2. \A id \in RequestId :
          /\ Served(Committed, Committed', id, 0)
          /\ Asked(Committed, id) \in Nat /\ Asked(Committed', id) \in Nat
          /\ Committed.fulfilled[id] \in Nat /\ Committed'.fulfilled[id] \in Nat
    BY <1>0, <1>2, <2>1, CommittedServed, LedgerTypes
  <2>3. /\ [id \in RequestId |-> Asked(Committed', id)] \in [RequestId -> Int]
        /\ Committed'.fulfilled \in [RequestId -> Int]
    BY <2>1, <2>2 DEF Storage
  <2>4. ASSUME NEW id \in RequestId PROVE Service!Serve(id)
    <3>1. /\ Service!Open(id) = Pending(Committed, id)
          /\ Service!Open(id)' = Pending(Committed', id)
      BY DEF Service!Open, Pending
    <3> DEFINE a0 == Asked(Committed, id)
               a1 == Asked(Committed', id)
               f0 == Committed.fulfilled[id]
               f1 == Committed'.fulfilled[id]
               p0 == Pending(Committed, id)
               p1 == Pending(Committed', id)
    <3>2. Covered(a0, f0, p0, a1, f1, p1, 0)
      BY <2>2 DEF Served
    <3>3. a0 \in Nat /\ a1 \in Nat /\ f0 \in Nat /\ f1 \in Nat /\ p0 \in {0, 1} /\ p1 \in {0, 1}
      BY <1>0, <2>1, LedgerTypes
    <3>4. Service!Serve(id) <=>
            /\ a1 - a0 >= 0 /\ f1 - f0 >= 0
            /\ (f1 - f0) + p1 <= (a1 - a0) + p0
            /\ (a1 - a0) + p0 > 0 => (f1 - f0) + p1 > 0
      BY <3>1 DEF Service!Serve
    <3> HIDE DEF a0, a1, f0, f1, p0, p1
    <3>5. /\ a1 - a0 >= 0 /\ f1 - f0 >= 0
          /\ (f1 - f0) + p1 <= (a1 - a0) + p0
          /\ (a1 - a0) + p0 > 0 => (f1 - f0) + p1 > 0
      BY <3>2, <3>3 DEF Covered
    <3> QED BY <3>4, <3>5
  <2>5. Service!Next
    BY <2>3, <2>4 DEF Service!Next
  <2> QED BY <2>5
<1> QED BY <1>0, <1>1, <1>2, CommittedStep

\* The coordinator implements RandomnessService: whatever a transaction's nested
\* callbacks ask, answer, fail or revert, what it commits is one step in which
\* every open or new request is answered at most once and not lost.
THEOREM CoordinatorImplementsService == Spec => ImplementsService
<1>1. ServiceInv /\ [Next]_vars => ServiceInv'
  BY ServiceNext
<1>2. ServiceInv /\ [Next]_vars => [Service!Next]_(Service!vars)
  BY ServiceSteps
<1> QED BY <1>1, <1>2, ServiceInit, ServiceStarts, PTL
        DEF Spec, ImplementsService, Service!Spec

-----------------------------------------------------------------------------
(* The counter of a subscription *)

\* An id that was not handed out.
Unused(e, s) ==
    /\ e.s_subscriptions[s].owner = ZeroAddress
    /\ \A id \in RequestId : id.subId = s =>
          e.fulfilled[id] = 0 /\ e.s_requestCommitments[id] = NoCommitment

\* What CountInv says of a subscription in the storage at a level.
Counted(e, s) ==
    /\ e.s_subscriptions[s].owner # ZeroAddress =>
          /\ IsFiniteSet(Answers(e, s))
          /\ e.s_subscriptions[s].reqCount = Cardinality(Answers(e, s))
    /\ s > e.s_currentSubId => Unused(e, s)

\* The inductive invariant: a subscription that is created later starts without
\* answers, so ids above s_currentSubId have none, have none under way and can have
\* none; what a fulfilment on the stack is about was handed out in every storage that
\* its callback may end with, and it counts for the subscription of its id.
CountInv ==
    /\ StorageInv
    /\ \A k \in Levels : \A s \in SubId : Counted(Level(k), s)
    /\ \A k \in DOMAIN frames :
          /\ frames[k].rc.subId = frames[k].id.subId
          /\ \A j \in Levels : k <= j => frames[k].id.subId <= Level(j).s_currentSubId

\* The answers of a subscription only depend on how often its ids were fulfilled.
LEMMA AnswersSame ==
    ASSUME NEW d, NEW e, NEW s,
           \A id \in RequestId : id.subId = s => e.fulfilled[id] = d.fulfilled[id]
    PROVE  Answers(e, s) = Answers(d, s)
<1> DEFINE S == {i \in RequestId : i.subId = s}
<1>1. \A id \in S : {<<id, n>> : n \in 1 .. e.fulfilled[id]} = {<<id, n>> : n \in 1 .. d.fulfilled[id]}
  OBVIOUS
<1>2. {{<<id, n>> : n \in 1 .. e.fulfilled[id]} : id \in S}
        = {{<<id, n>> : n \in 1 .. d.fulfilled[id]} : id \in S}
  BY <1>1
<1> QED BY <1>2 DEF Answers

\* One more answer is one more element.
LEMMA AnswersIs ==
    ASSUME NEW e, NEW s, NEW x
    PROVE  x \in Answers(e, s) <=>
             \E id \in RequestId : id.subId = s /\ \E n \in 1 .. e.fulfilled[id] : x = <<id, n>>
BY DEF Answers

LEMMA AnswersGrow ==
    ASSUME NEW d \in Storage, NEW e, NEW id \in RequestId,
           \A i \in RequestId : e.fulfilled[i] = d.fulfilled[i] + (IF i = id THEN 1 ELSE 0),
           IsFiniteSet(Answers(d, id.subId))
    PROVE  /\ IsFiniteSet(Answers(e, id.subId))
           /\ Cardinality(Answers(e, id.subId)) = Cardinality(Answers(d, id.subId)) + 1
<1> DEFINE s == id.subId  x == <<id, d.fulfilled[id] + 1>>
<1>1. \A i \in RequestId : d.fulfilled[i] \in Nat
  BY DEF Storage
<1>2. e.fulfilled[id] = d.fulfilled[id] + 1
      /\ \A i \in RequestId : i # id => e.fulfilled[i] = d.fulfilled[i]
  BY <1>1
<1>3. x \notin Answers(d, s)
  <2> SUFFICES ASSUME x \in Answers(d, s) PROVE FALSE
    OBVIOUS
  <2>1. PICK i \in RequestId : \E n \in 1 .. d.fulfilled[i] : x = <<i, n>>
    BY AnswersIs
  <2>2. PICK n \in 1 .. d.fulfilled[i] : x = <<i, n>>
    BY <2>1
  <2>3. i = id /\ n = d.fulfilled[id] + 1
    BY <2>2
  <2>4. d.fulfilled[id] \in Nat /\ n <= d.fulfilled[id]
    BY <1>1, <2>2, <2>3
  <2> QED BY <2>3, <2>4
<1>4. ASSUME NEW y PROVE y \in Answers(e, s) <=> y \in Answers(d, s) \cup {x}
  <2>1. ASSUME y \in Answers(e, s) PROVE y \in Answers(d, s) \cup {x}
    <3>1. PICK i \in RequestId : i.subId = s /\ \E n \in 1 .. e.fulfilled[i] : y = <<i, n>>
      BY <2>1, AnswersIs
    <3>2. PICK n \in 1 .. e.fulfilled[i] : y = <<i, n>>
      BY <3>1
    <3>3. n \in 1 .. d.fulfilled[i] \/ (i = id /\ n = d.fulfilled[id] + 1)
      <4>1. CASE i = id
        <5>1. d.fulfilled[id] \in Nat /\ n \in 1 .. d.fulfilled[id] + 1
          BY <1>1, <1>2, <3>2, <4>1
        <5> QED BY <4>1, <5>1
      <4>2. CASE i # id
        BY <1>2, <3>2, <4>2
      <4> QED BY <4>1, <4>2
    <3> QED BY <3>1, <3>2, <3>3, AnswersIs
  <2>2. ASSUME y \in Answers(d, s) PROVE y \in Answers(e, s)
    <3>1. PICK i \in RequestId : i.subId = s /\ \E n \in 1 .. d.fulfilled[i] : y = <<i, n>>
      BY <2>2, AnswersIs
    <3>2. PICK n \in 1 .. d.fulfilled[i] : y = <<i, n>>
      BY <3>1
    <3>3. n \in 1 .. e.fulfilled[i]
      <4>1. d.fulfilled[i] \in Nat /\ e.fulfilled[i] \in {d.fulfilled[i], d.fulfilled[i] + 1}
        BY <1>1, <1>2
      <4> QED BY <3>2, <4>1
    <3> QED BY <3>1, <3>2, <3>3, AnswersIs
  <2>3. x \in Answers(e, s)
    <3>1. d.fulfilled[id] + 1 \in 1 .. e.fulfilled[id]
      BY <1>1, <1>2
    <3> QED BY <3>1, AnswersIs
  <2> QED BY <2>1, <2>2, <2>3
<1>5. Answers(e, s) = Answers(d, s) \cup {x}
  BY <1>4
<1> HIDE DEF x, s
<1> QED BY <1>3, <1>5, FS_AddElement DEF s

\* What the functions for subscriptions do to owners, counters and ids.
LEMMA SubscribeCounts ==
    ASSUME TypeOK, NEW sender \in Address, Subscribe(sender)
    PROVE  /\ evm'.s_currentSubId >= evm.s_currentSubId
           /\ \A s \in SubId :
                \/ /\ evm'.s_subscriptions[s].owner = evm.s_subscriptions[s].owner
                   /\ evm'.s_subscriptions[s].reqCount = evm.s_subscriptions[s].reqCount
                \/ evm'.s_subscriptions[s].owner = ZeroAddress
                \/ /\ s > evm.s_currentSubId /\ s = evm'.s_currentSubId
                   /\ evm'.s_subscriptions[s].reqCount = 0
<1>0. /\ evm \in Storage /\ SubIds \subseteq SubId
      /\ \A s \in SubId : evm.s_subscriptions[s] \in Subscription
      /\ evm.s_currentSubId \in Nat
  BY InputAssumption, BoundAssumption DEF TypeOK, Storage, SubId
<1>1. ASSUME NEW subscriber \in Address, CreateSubscription(sender, subscriber)
      PROVE  /\ evm'.s_currentSubId >= evm.s_currentSubId
             /\ \A s \in SubId :
                  \/ evm'.s_subscriptions[s] = evm.s_subscriptions[s]
                  \/ /\ s > evm.s_currentSubId /\ s = evm'.s_currentSubId
                     /\ evm'.s_subscriptions[s].reqCount = 0
  <2> DEFINE new == evm.s_currentSubId + 1
             sub == [NoSubscription EXCEPT !.owner = subscriber]
  <2>1. /\ evm'.s_subscriptions = [evm.s_subscriptions EXCEPT ![new] = sub]
        /\ evm'.s_currentSubId = new
    BY <1>0, <1>1 DEF CreateSubscription, NextSubId, Storage
  <2>2. sub.reqCount = 0
    BY DEF NoSubscription
  <2>3. new > evm.s_currentSubId /\ new >= evm.s_currentSubId
    BY <1>0
  <2>4. \A s \in SubId : evm'.s_subscriptions[s] = IF s = new THEN sub ELSE evm.s_subscriptions[s]
    BY <1>0, <2>1 DEF Storage
  <2> HIDE DEF new, sub
  <2> QED BY <2>1, <2>2, <2>3, <2>4
<1>2. ASSUME NEW subId \in SubIds, NEW consumer \in Consumers,
             AddConsumer(sender, subId, consumer) \/ RemoveConsumer(sender, subId, consumer)
      PROVE  /\ evm'.s_currentSubId = evm.s_currentSubId
             /\ \A s \in SubId :
                  /\ evm'.s_subscriptions[s].owner = evm.s_subscriptions[s].owner
                  /\ evm'.s_subscriptions[s].reqCount = evm.s_subscriptions[s].reqCount
  <2>1. /\ evm'.s_currentSubId = evm.s_currentSubId
        /\ \E list : evm'.s_subscriptions = [evm.s_subscriptions EXCEPT ![subId].consumers = list]
    BY <1>0, <1>2 DEF AddConsumer, RemoveConsumer, Storage
  <2> QED BY <1>0, <2>1 DEF Storage, Subscription
<1>3. ASSUME NEW subId \in SubIds, CancelSubscription(sender, subId)
      PROVE  /\ evm'.s_currentSubId = evm.s_currentSubId
             /\ \A s \in SubId : \/ evm'.s_subscriptions[s] = evm.s_subscriptions[s]
                                 \/ evm'.s_subscriptions[s].owner = ZeroAddress
  <2>1. /\ evm'.s_currentSubId = evm.s_currentSubId
        /\ evm'.s_subscriptions = [evm.s_subscriptions EXCEPT ![subId] = NoSubscription]
    BY <1>0, <1>3 DEF CancelSubscription, Storage
  <2> QED BY <1>0, <2>1 DEF Storage, NoSubscription
<1>4. evm.s_currentSubId >= evm.s_currentSubId
  BY <1>0
<1> QED BY <1>1, <1>2, <1>3, <1>4, InputAssumption DEF Subscribe

\* Counted depends on the ledger and on the subscription's owner and counter.
LEMMA CountedSame ==
    ASSUME NEW d \in Storage, NEW e, NEW s \in SubId, Counted(d, s),
           e.s_currentSubId \in Nat, e.s_currentSubId >= d.s_currentSubId,
           e.fulfilled = d.fulfilled,
           \A id \in RequestId : e.s_requestCommitments[id] # NoCommitment /\ id.subId = s =>
              s <= e.s_currentSubId \/ d.s_requestCommitments[id] # NoCommitment,
           \/ /\ e.s_subscriptions[s].owner = d.s_subscriptions[s].owner
              /\ e.s_subscriptions[s].reqCount = d.s_subscriptions[s].reqCount
           \/ e.s_subscriptions[s].owner = ZeroAddress
           \/ /\ s > d.s_currentSubId /\ s = e.s_currentSubId
              /\ e.s_subscriptions[s].reqCount = 0
    PROVE  Counted(e, s)
<1>1. Answers(e, s) = Answers(d, s)
  BY AnswersSame
<1>2. s \in Nat /\ d.s_currentSubId \in Nat
  BY BoundAssumption DEF Storage, SubId
<1>3. s > d.s_currentSubId => Answers(d, s) = {}
  <2> SUFFICES ASSUME s > d.s_currentSubId, NEW x \in Answers(d, s) PROVE FALSE
    OBVIOUS
  <2>1. \A id \in RequestId : id.subId = s => d.fulfilled[id] = 0
    BY DEF Counted, Unused
  <2>2. PICK id \in RequestId : id.subId = s /\ \E n \in 1 .. d.fulfilled[id] : x = <<id, n>>
    BY AnswersIs
  <2>3. d.fulfilled[id] = 0
    BY <2>1, <2>2
  <2> QED BY <2>2, <2>3
<1>4. s > e.s_currentSubId => Unused(e, s)
  <2> SUFFICES ASSUME s > e.s_currentSubId PROVE Unused(e, s)
    OBVIOUS
  <2>1. s > d.s_currentSubId /\ ~(s <= e.s_currentSubId) /\ s # e.s_currentSubId
    BY <1>2
  <2>2. Unused(d, s)
    BY <2>1 DEF Counted
  <2> QED BY <2>1, <2>2 DEF Unused
<1>5. e.s_subscriptions[s].owner # ZeroAddress =>
        /\ IsFiniteSet(Answers(e, s))
        /\ e.s_subscriptions[s].reqCount = Cardinality(Answers(e, s))
  BY <1>1, <1>3, FS_EmptySet DEF Counted
<1> QED BY <1>4, <1>5 DEF Counted

\* The two halves of fulfillRandomWords.
LEMMA CallbackCounted ==
    ASSUME NEW e \in Storage, NEW id \in RequestId, NEW rc \in RequestCommitment,
           rc.subId = id.subId, id.subId <= e.s_currentSubId, NEW s \in SubId, Counted(e, s)
    PROVE  Counted(AtCallback(e, id), s) /\ Counted(AfterCallback(e, id, rc), s)
<1> DEFINE a == AtCallback(e, id)  b == AfterCallback(e, id, rc)
<1>0. /\ id.subId \in SubId /\ e.s_currentSubId \in Nat /\ s \in Nat
      /\ \A x \in SubId : e.s_subscriptions[x] \in Subscription
  BY BoundAssumption DEF RequestId, Storage, SubId
<1>1. /\ a.s_currentSubId = e.s_currentSubId /\ a.fulfilled = e.fulfilled
      /\ a.s_requestCommitments = [e.s_requestCommitments EXCEPT ![id] = NoCommitment]
      /\ b.s_currentSubId = e.s_currentSubId /\ b.s_requestCommitments = e.s_requestCommitments
      /\ b.s_subscriptions[s].owner = e.s_subscriptions[s].owner
      /\ \A i \in RequestId : b.fulfilled[i] = e.fulfilled[i] + (IF i = id THEN 1 ELSE 0)
  BY CallbackParts DEF KeptParts
<1>2. a.s_subscriptions = e.s_subscriptions
  BY DEF AtCallback, Storage
<1>3. b.s_subscriptions[s].reqCount
        = e.s_subscriptions[s].reqCount + (IF s = id.subId THEN 1 ELSE 0)
  <2>1. b.s_subscriptions = [e.s_subscriptions EXCEPT ![id.subId].reqCount = @ + 1]
    BY DEF AfterCallback, Storage
  <2>2. e.s_subscriptions[s].reqCount \in Nat
    BY <1>0, BoundAssumption DEF Subscription, Nonce
  <2>3. CASE s = id.subId
    BY <1>0, <2>1, <2>2, <2>3 DEF Storage, Subscription
  <2>4. CASE s # id.subId
    BY <1>0, <2>1, <2>2, <2>4 DEF Storage, Subscription
  <2> QED BY <2>3, <2>4
<1> HIDE DEF a, b
<1>4. Counted(a, s)
  <2>1. \A i \in RequestId : a.s_requestCommitments[i] # NoCommitment =>
                               e.s_requestCommitments[i] # NoCommitment
    BY <1>1 DEF Storage
  <2>2. e.s_currentSubId >= e.s_currentSubId
    BY <1>0
  <2>3. \A i \in RequestId : a.s_requestCommitments[i] # NoCommitment /\ i.subId = s =>
           s <= a.s_currentSubId \/ e.s_requestCommitments[i] # NoCommitment
    BY <2>1
  <2>4. a.s_currentSubId \in Nat /\ a.s_currentSubId >= e.s_currentSubId
    BY <1>0, <1>1, <2>2
  <2>5. /\ a.s_subscriptions[s].owner = e.s_subscriptions[s].owner
        /\ a.s_subscriptions[s].reqCount = e.s_subscriptions[s].reqCount
        /\ a.fulfilled = e.fulfilled
    BY <1>1, <1>2
  <2> QED BY <2>3, <2>4, <2>5, CountedSame, Zenon
<1>5. Counted(b, s)
  <2>1. CASE s = id.subId
    <3>1. ~(s > b.s_currentSubId)
      BY <1>0, <1>1, <2>1
    <3>2. ASSUME b.s_subscriptions[s].owner # ZeroAddress
          PROVE  /\ IsFiniteSet(Answers(b, s))
                 /\ b.s_subscriptions[s].reqCount = Cardinality(Answers(b, s))
      <4>1. /\ IsFiniteSet(Answers(e, s))
            /\ e.s_subscriptions[s].reqCount = Cardinality(Answers(e, s))
        BY <1>1, <3>2 DEF Counted
      <4>2. /\ IsFiniteSet(Answers(b, s))
            /\ Cardinality(Answers(b, s)) = Cardinality(Answers(e, s)) + 1
        <5>1. \A i \in RequestId : b.fulfilled[i] = e.fulfilled[i] + (IF i = id THEN 1 ELSE 0)
          BY <1>1
        <5>2. IsFiniteSet(Answers(e, id.subId))
          BY <2>1, <4>1
        <5>3. /\ IsFiniteSet(Answers(b, id.subId))
              /\ Cardinality(Answers(b, id.subId)) = Cardinality(Answers(e, id.subId)) + 1
          BY <5>1, <5>2, AnswersGrow, Zenon
        <5> QED BY <2>1, <5>3
      <4> QED BY <1>3, <2>1, <4>1, <4>2
    <3> QED BY <3>1, <3>2 DEF Counted
  <2>2. CASE s # id.subId
    <3>0. \A i \in RequestId : e.fulfilled[i] \in Nat
      BY DEF Storage
    <3>1. \A i \in RequestId : i.subId = s => b.fulfilled[i] = e.fulfilled[i]
      BY <1>1, <2>2, <3>0
    <3>2. Answers(b, s) = Answers(e, s)
      BY <3>1, AnswersSame
    <3>3. b.s_subscriptions[s].reqCount = e.s_subscriptions[s].reqCount
      <4>1. e.s_subscriptions[s].reqCount \in Nat
        BY <1>0, BoundAssumption DEF Subscription, Nonce
      <4> QED BY <1>3, <2>2, <4>1
    <3>4. Unused(e, s) => Unused(b, s)
      BY <1>1, <3>1 DEF Unused
    <3> QED BY <1>1, <3>2, <3>3, <3>4 DEF Counted
  <2> QED BY <2>1, <2>2
<1> QED BY <1>4, <1>5 DEF a, b

\* What CountInv says of the storage now and of the one the top frame keeps.
LEMMA CountTop ==
    ASSUME CountInv
    PROVE  /\ TypeOK /\ evm \in Storage /\ \A s \in SubId : Counted(evm, s)
           /\ OpenableCommitments(evm)
           /\ frames # <<>> =>
                /\ Top.pre \in Storage /\ Top.id \in RequestId /\ Top.rc \in RequestCommitment
                /\ \A s \in SubId : Counted(Top.pre, s)
                /\ Top.rc.subId = Top.id.subId
                /\ Top.id.subId <= evm.s_currentSubId
                /\ Top.id.subId <= Top.pre.s_currentSubId
<1>1. TypeOK /\ evm \in Storage /\ frames \in Seq(Frame)
  BY DEF CountInv, StorageInv, TypeOK
<1>2. /\ Len(frames) \in Nat /\ Len(frames) + 1 \in Levels
      /\ Level(Len(frames) + 1) = evm
      /\ frames # <<>> => Len(frames) \in Levels /\ Level(Len(frames)) = Top.pre
  BY <1>1, StackLevels
<1>3. (\A s \in SubId : Counted(evm, s)) /\ OpenableCommitments(evm)
  BY <1>2 DEF CountInv, StorageInv, SoundStorage
<1>4. ASSUME frames # <<>>
      PROVE  /\ Top.pre \in Storage /\ Top.id \in RequestId /\ Top.rc \in RequestCommitment
             /\ \A s \in SubId : Counted(Top.pre, s)
             /\ Top.rc.subId = Top.id.subId
             /\ Top.id.subId <= evm.s_currentSubId /\ Top.id.subId <= Top.pre.s_currentSubId
  <2>1. /\ Len(frames) \in DOMAIN frames
        /\ Top.pre \in Storage /\ Top.id \in RequestId /\ Top.rc \in RequestCommitment
    BY <1>1, <1>4, PopType
  <2>2. \A s \in SubId : Counted(Top.pre, s)
    BY <1>2, <1>4 DEF CountInv
  <2>3. /\ Top.rc.subId = Top.id.subId
        /\ \A j \in Levels : Len(frames) <= j => Top.id.subId <= Level(j).s_currentSubId
    BY <2>1 DEF CountInv, Top
  <2>4. Len(frames) <= Len(frames) /\ Len(frames) <= Len(frames) + 1
    BY <1>2
  <2> QED BY <1>2, <1>4, <2>1, <2>2, <2>3, <2>4
<1> QED BY <1>1, <1>3, <1>4

\* A fulfilment starts for an id that was handed out, and counts for its subscription.
LEMMA FulfillKnown ==
    ASSUME CountInv, NEW sender \in Address, Fulfill(sender)
    PROVE  \E id \in RequestId, rc \in RequestCommitment :
             /\ evm' = AtCallback(evm, id) /\ rc.subId = id.subId
             /\ id.subId <= evm.s_currentSubId
             /\ frames' = Append(frames, [pre |-> evm, id |-> id, rc |-> rc])
<1>1. PICK i \in DOMAIN evm.requested, j \in DOMAIN evm.requested :
        FulfillRandomWords(sender, evm.requested[i].id, evm.requested[j].rc)
  BY DEF Fulfill
<1> DEFINE id == evm.requested[i].id  rc == evm.requested[j].rc
<1>2. evm \in Storage /\ OpenableCommitments(evm) /\ \A s \in SubId : Counted(evm, s)
  BY CountTop
<1>3. evm.requested[i] \in RequestEvent /\ evm.requested[j] \in RequestEvent
  BY <1>2 DEF Storage
<1>4. id \in RequestId /\ rc \in RequestCommitment
  BY <1>3 DEF RequestEvent
<1>5. /\ evm' = AtCallback(evm, id) /\ evm.s_requestCommitments[id] # NoCommitment
      /\ evm.s_requestCommitments[id] = rc
      /\ frames' = Append(frames, [pre |-> evm, id |-> id, rc |-> rc])
  BY <1>1 DEF FulfillRandomWords, getRandomnessFromProof
<1> HIDE DEF id, rc
<1>6. rc.subId = id.subId
  BY <1>2, <1>4, <1>5 DEF OpenableCommitments
<1>7. id.subId <= evm.s_currentSubId
  <2>1. id.subId \in SubId /\ evm.s_currentSubId \in SubId
    BY <1>2, <1>4 DEF RequestId, Storage
  <2>2. ~(id.subId > evm.s_currentSubId)
    BY <1>2, <1>4, <1>5, <2>1 DEF Counted, Unused
  <2> QED BY <2>1, <2>2, BoundAssumption DEF SubId
<1> QED BY <1>4, <1>5, <1>6, <1>7

\* Every subscription is counted after a step.
LEMMA StepCounted ==
    ASSUME CountInv, [Next]_vars, NEW s \in SubId
    PROVE  Counted(evm', s)
<1>1. /\ TypeOK /\ evm \in Storage /\ Counted(evm, s) /\ evm.s_currentSubId \in Nat
      /\ evm' \in Storage /\ evm'.s_currentSubId \in Nat
  <2>1. TypeOK /\ Counted(evm, s)
    BY CountTop
  <2>2. TypeOK'
    BY <2>1, NextType
  <2>3. evm \in Storage /\ evm' \in Storage
    BY <2>1, <2>2 DEF TypeOK
  <2>4. evm.s_currentSubId \in SubId /\ evm'.s_currentSubId \in SubId
    BY <2>3 DEF Storage
  <2>5. SubId \subseteq Nat
    BY BoundAssumption DEF SubId
  <2> QED BY <2>1, <2>3, <2>4, <2>5
<1>2. evm.s_currentSubId >= evm.s_currentSubId
  BY <1>1
<1>3. ASSUME NEW sender \in Address, Administer(sender)
      PROVE  Counted(evm', s)
  <2>1. Guarded(evm') = Guarded(evm)
    BY <1>1, <1>3, AdministerParts
  <2>2. /\ evm'.s_currentSubId = evm.s_currentSubId /\ evm'.fulfilled = evm.fulfilled
        /\ evm'.s_subscriptions = evm.s_subscriptions
        /\ evm'.s_requestCommitments = evm.s_requestCommitments
    BY <2>1 DEF Guarded
  <2>3. Answers(evm', s) = Answers(evm, s)
    BY <2>2, AnswersSame
  <2> QED BY <1>1, <2>2, <2>3 DEF Counted, Unused
<1>4. ASSUME NEW sender \in Address, Subscribe(sender)
      PROVE  Counted(evm', s)
  <2>1. /\ evm'.fulfilled = evm.fulfilled
        /\ evm'.s_requestCommitments = evm.s_requestCommitments
    BY <1>1, <1>4, ManagementKeepsLedger
  <2>2. \A id \in RequestId : evm'.s_requestCommitments[id] # NoCommitment /\ id.subId = s =>
           s <= evm'.s_currentSubId \/ evm.s_requestCommitments[id] # NoCommitment
    BY <2>1
  <2>3. /\ evm'.s_currentSubId >= evm.s_currentSubId
        /\ \/ /\ evm'.s_subscriptions[s].owner = evm.s_subscriptions[s].owner
              /\ evm'.s_subscriptions[s].reqCount = evm.s_subscriptions[s].reqCount
           \/ evm'.s_subscriptions[s].owner = ZeroAddress
           \/ /\ s > evm.s_currentSubId /\ s = evm'.s_currentSubId
              /\ evm'.s_subscriptions[s].reqCount = 0
    BY <1>1, <1>4, SubscribeCounts
  <2> QED BY <1>1, <2>1, <2>2, <2>3, CountedSame, Zenon
<1>5. ASSUME NEW sender \in Address, Request(sender)
      PROVE  Counted(evm', s)
  <2>1. PICK keyHash \in KeyHash, subId \in SubIds, confirmations \in Confirmations,
             gasLimit \in GasLimits, numWords \in WordCounts :
               RequestRandomWords(sender, keyHash, subId, confirmations, gasLimit, numWords)
    BY <1>5 DEF Request
  <2> DEFINE id == computeRequestId(keyHash, sender, subId, evm.s_consumers[sender][subId] + 1)
  <2>2. /\ evm.s_subscriptions[subId].owner # ZeroAddress
        /\ evm'.fulfilled = evm.fulfilled /\ evm'.s_subscriptions = evm.s_subscriptions
        /\ evm'.s_currentSubId = evm.s_currentSubId
        /\ \E rc : evm'.s_requestCommitments = [evm.s_requestCommitments EXCEPT ![id] = rc]
    BY <1>1, <2>1 DEF RequestRandomWords, Storage
  <2>3. id.subId = subId /\ subId \in SubId
    BY InputAssumption DEF computeRequestId, SubId
  <2>4. subId <= evm.s_currentSubId
    <3>1. Counted(evm, subId)
      BY <2>3, CountTop
    <3>2. ~(subId > evm.s_currentSubId)
      BY <2>2, <3>1 DEF Counted, Unused
    <3> QED BY <1>1, <2>3, <3>2, BoundAssumption DEF SubId
  <2> HIDE DEF id
  <2>5. \A i \in RequestId : evm'.s_requestCommitments[i] # NoCommitment /\ i.subId = s =>
           s <= evm'.s_currentSubId \/ evm.s_requestCommitments[i] # NoCommitment
    <3>1. \A i \in RequestId : i # id => evm'.s_requestCommitments[i] = evm.s_requestCommitments[i]
      BY <1>1, <2>2 DEF Storage
    <3> QED BY <2>2, <2>3, <2>4, <3>1
  <2>6. /\ evm'.s_currentSubId >= evm.s_currentSubId
        /\ evm'.s_subscriptions[s].owner = evm.s_subscriptions[s].owner
        /\ evm'.s_subscriptions[s].reqCount = evm.s_subscriptions[s].reqCount
    BY <1>2, <2>2
  <2> QED BY <1>1, <2>2, <2>5, <2>6, CountedSame, Zenon
<1>6. ASSUME NEW sender \in Address, Fulfill(sender)
      PROVE  Counted(evm', s)
  <2>1. PICK id \in RequestId, rc \in RequestCommitment :
          evm' = AtCallback(evm, id) /\ rc.subId = id.subId /\ id.subId <= evm.s_currentSubId
    BY <1>6, FulfillKnown
  <2> QED BY <1>1, <2>1, CallbackCounted
<1>7. ASSUME NEW success \in BOOLEAN, CallbackReturns(success)
      PROVE  Counted(evm', s)
  <2> DEFINE e == IF success THEN evm ELSE AtCallback(Top.pre, Top.id)
  <2>1. frames # <<>> /\ evm' = AfterCallback(e, Top.id, Top.rc)
    BY <1>7 DEF CallbackReturns
  <2>2. /\ Top.pre \in Storage /\ Top.id \in RequestId /\ Top.rc \in RequestCommitment
        /\ Counted(Top.pre, s) /\ Top.rc.subId = Top.id.subId
        /\ Top.id.subId <= evm.s_currentSubId /\ Top.id.subId <= Top.pre.s_currentSubId
    BY <2>1, CountTop
  <2>3. AtCallback(Top.pre, Top.id) \in Storage
        /\ AtCallback(Top.pre, Top.id).s_currentSubId = Top.pre.s_currentSubId
    BY <2>2, AtCallbackType, CallbackParts DEF KeptParts
  <2>4. Counted(AtCallback(Top.pre, Top.id), s)
    BY <2>2, CallbackCounted
  <2>5. e \in Storage /\ Counted(e, s) /\ Top.id.subId <= e.s_currentSubId
    BY <1>1, <2>2, <2>3, <2>4
  <2> HIDE DEF e
  <2> QED BY <2>1, <2>2, <2>5, CallbackCounted
<1>8. FulfillReverts => Counted(evm', s)
  BY CountTop DEF FulfillReverts
<1>9. NextBlock \/ UNCHANGED vars => Counted(evm', s)
  BY <1>1 DEF NextBlock, vars
<1> QED BY <1>3, <1>4, <1>5, <1>6, <1>7, <1>8, <1>9 DEF Next

\* What is left below a step: ids grow, or the step goes back to the top frame.
LEMMA StepSubIds ==
    ASSUME CountInv, [Next]_vars
    PROVE  \/ evm'.s_currentSubId >= evm.s_currentSubId /\ UNCHANGED frames
           \/ /\ evm'.s_currentSubId = evm.s_currentSubId
              /\ \E id \in RequestId, rc \in RequestCommitment :
                   /\ rc.subId = id.subId /\ id.subId <= evm.s_currentSubId
                   /\ frames' = Append(frames, [pre |-> evm, id |-> id, rc |-> rc])
           \/ /\ frames # <<>> /\ frames' = Pop
              /\ evm'.s_currentSubId \in {evm.s_currentSubId, Top.pre.s_currentSubId}
<1>1. /\ TypeOK /\ evm \in Storage /\ evm.s_currentSubId \in Nat
      /\ evm.s_currentSubId >= evm.s_currentSubId
  <2>1. TypeOK
    BY CountTop
  <2> QED BY <2>1, BoundAssumption DEF TypeOK, Storage, SubId
<1>2. frames # <<>> => /\ Top.pre \in Storage /\ Top.id \in RequestId
                       /\ Top.rc \in RequestCommitment
  BY CountTop
<1>3. ASSUME NEW sender \in Address, Administer(sender) \/ Subscribe(sender)
      PROVE  evm'.s_currentSubId >= evm.s_currentSubId /\ UNCHANGED frames
  <2>1. UNCHANGED frames
    BY <1>1, <1>3, ManagementKeepsLedger
  <2>2. Administer(sender) => evm'.s_currentSubId = evm.s_currentSubId
    BY <1>1, AdministerParts DEF Guarded
  <2>3. Subscribe(sender) => evm'.s_currentSubId >= evm.s_currentSubId
    BY <1>1, SubscribeCounts
  <2> QED BY <1>1, <1>3, <2>1, <2>2, <2>3
<1>4. ASSUME NEW sender \in Address, Request(sender)
      PROVE  evm'.s_currentSubId >= evm.s_currentSubId /\ UNCHANGED frames
  <2>1. evm'.s_currentSubId = evm.s_currentSubId /\ UNCHANGED frames
    BY <1>1, <1>4, RequestParts
  <2> QED BY <1>1, <2>1
<1>5. ASSUME NEW sender \in Address, Fulfill(sender)
      PROVE  /\ evm'.s_currentSubId = evm.s_currentSubId
             /\ \E id \in RequestId, rc \in RequestCommitment :
                   /\ rc.subId = id.subId /\ id.subId <= evm.s_currentSubId
                   /\ frames' = Append(frames, [pre |-> evm, id |-> id, rc |-> rc])
  <2>1. PICK id \in RequestId, rc \in RequestCommitment :
             /\ evm' = AtCallback(evm, id) /\ rc.subId = id.subId
             /\ id.subId <= evm.s_currentSubId
             /\ frames' = Append(frames, [pre |-> evm, id |-> id, rc |-> rc])
    BY <1>5, FulfillKnown
  <2>2. evm'.s_currentSubId = evm.s_currentSubId
    BY <1>1, <2>1, CallbackParts DEF KeptParts
  <2> QED BY <2>1, <2>2
<1>6. ASSUME NEW success \in BOOLEAN, CallbackReturns(success)
      PROVE  /\ frames # <<>> /\ frames' = Pop
             /\ evm'.s_currentSubId \in {evm.s_currentSubId, Top.pre.s_currentSubId}
  <2> DEFINE e == IF success THEN evm ELSE AtCallback(Top.pre, Top.id)
  <2>1. frames # <<>> /\ frames' = Pop /\ evm' = AfterCallback(e, Top.id, Top.rc)
    BY <1>6 DEF CallbackReturns
  <2>2. /\ AtCallback(Top.pre, Top.id) \in Storage
        /\ AtCallback(Top.pre, Top.id).s_currentSubId = Top.pre.s_currentSubId
    BY <1>2, <2>1, AtCallbackType, CallbackParts DEF KeptParts
  <2>3. e \in Storage /\ e.s_currentSubId \in {evm.s_currentSubId, Top.pre.s_currentSubId}
    BY <1>1, <2>2
  <2> HIDE DEF e
  <2>4. evm'.s_currentSubId = e.s_currentSubId
    BY <1>2, <2>1, <2>3, CallbackParts DEF KeptParts
  <2> QED BY <2>1, <2>3, <2>4
<1>7. FulfillReverts => /\ frames # <<>> /\ frames' = Pop
                        /\ evm'.s_currentSubId = Top.pre.s_currentSubId
  BY DEF FulfillReverts
<1>8. NextBlock \/ UNCHANGED vars => evm' = evm /\ UNCHANGED frames
  BY DEF NextBlock, vars
<1> QED BY <1>1, <1>3, <1>4, <1>5, <1>6, <1>7, <1>8 DEF Next

\* The fulfilments on the stack after a step.
LEMMA StepFrames ==
    ASSUME CountInv, [Next]_vars, NEW k \in DOMAIN frames'
    PROVE  /\ frames'[k].rc.subId = frames'[k].id.subId
           /\ \A j \in Levels' : k <= j => frames'[k].id.subId <= Level(j)'.s_currentSubId
<1> DEFINE n == Len(frames)
<1>1. /\ TypeOK /\ frames \in Seq(Frame) /\ n \in Nat /\ n + 1 \in Levels
      /\ Level(n + 1) = evm /\ DOMAIN frames = 1 .. n
      /\ frames # <<>> => n \in Levels /\ Level(n) = Top.pre
  <2>1. TypeOK
    BY CountTop
  <2> QED BY <2>1, StackLevels DEF TypeOK
<1>2. \A j \in Levels' : \/ j = Len(frames') + 1 /\ Level(j)' = evm'
                         \/ j \in Levels /\ Level(j)' = Level(j)
  BY <1>1, NewLevels
<1>3. evm.s_currentSubId \in Nat /\ evm'.s_currentSubId \in Nat
  <2>1. TypeOK'
    BY <1>1, NextType
  <2> QED BY <1>1, <2>1, BoundAssumption DEF TypeOK, Storage, SubId
<1>4. ASSUME k \in DOMAIN frames, frames'[k] = frames[k],
             frames[k].id.subId <= evm'.s_currentSubId
      PROVE  /\ frames'[k].rc.subId = frames'[k].id.subId
             /\ \A j \in Levels' : k <= j => frames'[k].id.subId <= Level(j)'.s_currentSubId
  <2>1. /\ frames[k].rc.subId = frames[k].id.subId
        /\ \A j \in Levels : k <= j => frames[k].id.subId <= Level(j).s_currentSubId
    BY <1>4 DEF CountInv
  <2> QED BY <1>2, <1>4, <2>1
<1>5. k \in DOMAIN frames => /\ frames[k].id.subId <= evm.s_currentSubId
                             /\ k \in 1 .. n /\ frames[k].id.subId \in Nat
                             /\ k <= n /\ n \in Levels =>
                                  frames[k].id.subId <= Level(n).s_currentSubId
  <2> SUFFICES ASSUME k \in DOMAIN frames
               PROVE  /\ frames[k].id.subId <= evm.s_currentSubId
                      /\ k \in 1 .. n /\ frames[k].id.subId \in Nat
                      /\ k <= n /\ n \in Levels =>
                           frames[k].id.subId <= Level(n).s_currentSubId
    OBVIOUS
  <2>1. k \in 1 .. n /\ k <= n + 1
    BY <1>1
  <2>2. frames[k].id.subId \in Nat
    <3>1. frames[k] \in Frame
      BY <1>1
    <3>2. frames[k].id \in RequestId
      BY <3>1 DEF Frame
    <3> QED BY <3>2, BoundAssumption DEF RequestId, SubId
  <2>3. \A j \in Levels : k <= j => frames[k].id.subId <= Level(j).s_currentSubId
    BY DEF CountInv
  <2> QED BY <1>1, <2>1, <2>2, <2>3
<1>6. CASE evm'.s_currentSubId >= evm.s_currentSubId /\ UNCHANGED frames
  <2>1. k \in DOMAIN frames /\ frames'[k] = frames[k]
    BY <1>6
  <2>2. frames[k].id.subId <= evm'.s_currentSubId
    BY <1>3, <1>5, <1>6, <2>1
  <2> QED BY <1>4, <2>1, <2>2
<1>7. CASE /\ evm'.s_currentSubId = evm.s_currentSubId
           /\ \E id \in RequestId, rc \in RequestCommitment :
                /\ rc.subId = id.subId /\ id.subId <= evm.s_currentSubId
                /\ frames' = Append(frames, [pre |-> evm, id |-> id, rc |-> rc])
  <2>1. PICK id \in RequestId, rc \in RequestCommitment :
                /\ rc.subId = id.subId /\ id.subId <= evm.s_currentSubId
                /\ frames' = Append(frames, [pre |-> evm, id |-> id, rc |-> rc])
    BY <1>7
  <2> DEFINE f == [pre |-> evm, id |-> id, rc |-> rc]
  <2>2. /\ frames'[n + 1] = f /\ DOMAIN frames' = 1 .. n + 1
        /\ \A m \in 1 .. n : frames'[m] = frames[m]
    BY <1>1, <2>1
  <2>3. CASE k \in 1 .. n
    BY <1>1, <1>4, <1>5, <1>7, <2>2, <2>3
  <2>4. CASE k = n + 1
    <3>1. frames'[k].rc.subId = frames'[k].id.subId /\ frames'[k].id = id
      BY <2>1, <2>2, <2>4
    <3>2. ASSUME NEW j \in Levels', k <= j PROVE id.subId <= Level(j)'.s_currentSubId
      <4>1. CASE j = Len(frames') + 1 /\ Level(j)' = evm'
        BY <1>7, <2>1, <4>1
      <4>2. CASE j \in Levels /\ Level(j)' = Level(j)
        <5>1. j = n + 1
          BY <1>1, <2>4, <3>2, <4>2 DEF Levels
        <5> QED BY <1>1, <2>1, <4>2, <5>1
      <4> QED BY <1>2, <4>1, <4>2
    <3> QED BY <3>1, <3>2
  <2>5. k \in 1 .. n \/ k = n + 1
    BY <1>1, <2>2
  <2> QED BY <2>3, <2>4, <2>5
<1>8. CASE /\ frames # <<>> /\ frames' = Pop
           /\ evm'.s_currentSubId \in {evm.s_currentSubId, Top.pre.s_currentSubId}
  <2>1. k \in DOMAIN frames /\ frames'[k] = frames[k]
    BY <1>1, <1>8, FramesAfter
  <2>2. k <= n
    BY <1>1, <2>1
  <2>3. frames[k].id.subId <= evm'.s_currentSubId
    BY <1>1, <1>5, <1>8, <2>1, <2>2
  <2> QED BY <1>4, <2>1, <2>3
<1> QED BY <1>6, <1>7, <1>8, StepSubIds

LEMMA CountInit == Init => CountInv
<1> SUFFICES ASSUME Init PROVE CountInv
  OBVIOUS
<1>1. StorageInv /\ frames = <<>>
  BY StorageInit DEF Init
<1>2. \A k \in Levels : Level(k) = evm
  BY <1>1 DEF Levels, Level
<1>3. ASSUME NEW s \in SubId PROVE Counted(evm, s)
  <2>1. /\ evm.s_subscriptions[s].owner = ZeroAddress
        /\ \A id \in RequestId :
             evm.fulfilled[id] = 0 /\ evm.s_requestCommitments[id] = NoCommitment
    BY DEF Init, initialize, NoSubscription
  <2> QED BY <2>1 DEF Counted, Unused
<1>4. DOMAIN frames = {}
  BY <1>1
<1> QED BY <1>1, <1>2, <1>3, <1>4 DEF CountInv

LEMMA CountNext == CountInv /\ [Next]_vars => CountInv'
<1> SUFFICES ASSUME CountInv, [Next]_vars PROVE CountInv'
  OBVIOUS
<1>1. StorageInv'
  BY StorageNext DEF CountInv
<1>2. ASSUME NEW k \in Levels' PROVE \A s \in SubId : Counted(Level(k)', s)
  <2>1. \/ Level(k)' = evm'
        \/ k \in Levels /\ Level(k)' = Level(k)
    BY NewLevels, CountTop
  <2>2. \A s \in SubId : Counted(evm', s)
    BY StepCounted
  <2> QED BY <2>1, <2>2 DEF CountInv
<1>3. \A k \in DOMAIN frames' :
        /\ frames'[k].rc.subId = frames'[k].id.subId
        /\ \A j \in Levels' : k <= j => frames'[k].id.subId <= Level(j)'.s_currentSubId
  BY StepFrames
<1> QED BY <1>1, <1>2, <1>3 DEF CountInv

\* A live subscription's reqCount is exactly the number of its requests that were
\* answered, at every level of the call stack, for any number of requests, of nested
\* callbacks and of subscriptions cancelled in between.
THEOREM ReqCountAlwaysExact == Spec => []ReqCountExact
<1>1. CountInv => ReqCountExact
  BY DEF CountInv, Counted, ReqCountExact
<1> QED BY <1>1, CountInit, CountNext, PTL DEF Spec

=============================================================================
