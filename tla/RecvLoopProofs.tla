---------------------------- MODULE RecvLoopProofs ----------------------------
(***************************************************************************)
(* For any number of handlers and messages: while the AIO has one receive  *)
(* at a time, the inbox is complete and the loop is silent only when its   *)
(* handler knows.                                                          *)
(* The life lock, which keeps a handler alive in a callback, comes last.   *)
(***************************************************************************)
EXTENDS RecvLoop, LifeLock, SequenceTheorems, TLAPS

(* A running callback has the handler that is in place, and the AIO to     *)
(* itself; so recv_start cannot replace a handler that is being called.    *)
(* A stopped AIO has an owner that stops the loop.                         *)
CallbackHasLoop ==
  /\ aio = "success" => msg \in Msg
  /\ busy # None => busy = handler /\ aio = "none"
  /\ stopped => life # "alive"

(* What arrived for a handler and is not yet in its queue.                 *)
InHand(h) == IF aio = "success" /\ handler = h THEN <<msg>> ELSE <<>>

Complete == ~overlap => \A h \in Handler \ dropped :
  arrived[h] = taken[h] \o deq[h] \o InHand(h)

RecvInv == TypeOK /\ CallbackHasLoop /\ Complete /\ SilentOnlyWhenDone

(* Pulling moves the front of the queue to the end of what was taken.      *)
LEMMA PullKeepsAll ==
  ASSUME NEW S, NEW t \in Seq(S), NEW q \in Seq(S), q # <<>>
  PROVE  Append(t, Head(q)) \o Tail(q) = t \o q
  OBVIOUS

(* Pushing back extends the whole.                                         *)
LEMMA PushKeepsAll ==
  ASSUME NEW S, NEW t \in Seq(S), NEW q \in Seq(S), NEW e \in S
  PROVE  t \o Append(q, e) = (t \o q) \o <<e>>
  OBVIOUS

(* So does arriving, with the message in hand.                             *)
LEMMA ArriveExtends ==
  ASSUME NEW S, NEW t \in Seq(S), NEW q \in Seq(S), NEW e \in S
  PROVE  Append(t \o q, e) = (t \o q) \o <<e>>
  OBVIOUS

(* Nothing in hand adds nothing.                                           *)
LEMMA NothingAdded ==
  ASSUME NEW S, NEW t \in Seq(S), NEW q \in Seq(S)
  PROVE  t \o q \in Seq(S) /\ (t \o q) \o <<>> = t \o q
  OBVIOUS

(* The types are kept.                                                     *)
LEMMA TypeStep == TypeOK /\ CallbackHasLoop /\ [Next]_vars => TypeOK'
  <1> SUFFICES ASSUME TypeOK, CallbackHasLoop, [Next]_vars PROVE TypeOK'
    OBVIOUS
  <1> USE NoneAssumption, ErrorAssumption DEF TypeOK
  <1>1. ASSUME NEW h \in Handler, RecvStart(h) PROVE TypeOK'
    BY <1>1, Zenon DEF RecvStart, Receive, queueVars, Result
  <1>2. ASSUME NEW m \in Msg, Arrive(m) PROVE TypeOK'
    <2>1. arrived' \in [Handler -> Seq(Msg)]
      BY <1>2 DEF Arrive, Alive
    <2> QED BY <1>2, <2>1 DEF Arrive, queueVars, Result
  <1>3. ASSUME NEW e \in AioError, Fail(e) PROVE TypeOK'
    BY <1>3 DEF Fail, queueVars, Result
  <1>4. CASE CallbackNoHandler
    BY <1>4 DEF CallbackNoHandler, queueVars
  <1>5. CASE CallbackRecv
    <2>1. handler \in Handler /\ msg \in Msg
      BY <1>5 DEF CallbackRecv, Alive, CallbackHasLoop
    <2> QED BY <1>5, <2>1 DEF CallbackRecv
  <1>6. CASE CallbackTimeout
    BY <1>6 DEF CallbackTimeout, queueVars
  <1>7. CASE CallbackStop
    BY <1>7 DEF CallbackStop, queueVars, Alive
  <1>8. CASE CallbackAgain
    BY <1>8 DEF CallbackAgain, Receive, queueVars, Result
  <1>9. ASSUME NEW h \in Handler, Pull(h) PROVE TypeOK'
    <2>1. Head(deq[h]) \in Msg /\ Tail(deq[h]) \in Seq(Msg)
      BY <1>9, HeadTailProperties DEF Pull
    <2>2. taken' \in [Handler -> Seq(Msg)] /\ deq' \in [Handler -> Seq(Msg)]
      <3>1. Append(taken[h], Head(deq[h])) \in Seq(Msg)
        BY <2>1
      <3> QED BY <1>9, <2>1, <3>1, Zenon DEF Pull
    <2> QED BY <1>9, <2>2, Zenon DEF Pull
  <1>10. ASSUME NEW h \in Handler, Drop(h) PROVE TypeOK'
    BY <1>10, Zenon DEF Drop, queueVars
  <1>11. CASE StopAio
    BY <1>11 DEF StopAio, queueVars, Result
  <1>12. CASE StopHandler
    BY <1>12 DEF StopHandler, queueVars, Alive
  <1>13. CASE UNCHANGED vars
    BY <1>13 DEF vars
  <1> QED
    BY <1>1, <1>2, <1>3, <1>4, <1>5, <1>6, <1>7, <1>8, <1>9, <1>10, <1>11, <1>12, <1>13, Zenon
    DEF Next, Callback

(* A callback keeps the loop to itself: only recv_start and the callback   *)
(* start a receive, and the first is refused while the handler lives.      *)
LEMMA CallbackStep == TypeOK /\ CallbackHasLoop /\ [Next]_vars => CallbackHasLoop'
  <1> SUFFICES ASSUME TypeOK, CallbackHasLoop, [Next]_vars PROVE CallbackHasLoop'
    OBVIOUS
  <1> USE NoneAssumption, ErrorAssumption DEF TypeOK, CallbackHasLoop
  <1>1. ASSUME NEW h \in Handler, RecvStart(h) PROVE CallbackHasLoop'
    <2>1. busy = None
      BY <1>1 DEF RecvStart, Alive
    <2> QED BY <1>1, <2>1 DEF RecvStart, Receive
  <1>2. ASSUME NEW m \in Msg, Arrive(m) PROVE CallbackHasLoop'
    BY <1>2 DEF Arrive
  <1>3. ASSUME NEW e \in AioError, Fail(e) PROVE CallbackHasLoop'
    BY <1>3 DEF Fail
  <1>4. CASE CallbackNoHandler
    BY <1>4 DEF CallbackNoHandler
  <1>5. CASE CallbackRecv \/ CallbackTimeout \/ CallbackStop
    BY <1>5 DEF CallbackRecv, CallbackTimeout, CallbackStop
  <1>6. CASE CallbackAgain
    BY <1>6 DEF CallbackAgain, Receive
  <1>7. ASSUME NEW h \in Handler, Pull(h) \/ Drop(h) PROVE CallbackHasLoop'
    BY <1>7 DEF Pull, Drop
  <1>8. CASE StopAio
    BY <1>8 DEF StopAio
  <1>9. CASE StopHandler
    BY <1>9 DEF StopHandler
  <1>10. CASE UNCHANGED vars
    BY <1>10 DEF vars
  <1> QED
    BY <1>1, <1>2, <1>3, <1>4, <1>5, <1>6, <1>7, <1>8, <1>9, <1>10 DEF Next, Callback

(* Receiving ends with async_stop, with the handler or with the loop.      *)
LEMMA SilentStep ==
  TypeOK /\ CallbackHasLoop /\ SilentOnlyWhenDone /\ [Next]_vars => SilentOnlyWhenDone'
  <1> SUFFICES ASSUME TypeOK, CallbackHasLoop, SilentOnlyWhenDone, [Next]_vars
               PROVE  SilentOnlyWhenDone'
    OBVIOUS
  <1> USE NoneAssumption, ErrorAssumption
      DEF TypeOK, CallbackHasLoop, SilentOnlyWhenDone, DeafOnlyIfTold, DestroyedIsQuiet
  <1>1. ASSUME NEW h \in Handler, RecvStart(h) PROVE SilentOnlyWhenDone'
    BY <1>1 DEF RecvStart, Receive
  <1>2. ASSUME NEW m \in Msg, Arrive(m) PROVE SilentOnlyWhenDone'
    BY <1>2 DEF Arrive
  <1>3. ASSUME NEW e \in AioError, Fail(e) PROVE SilentOnlyWhenDone'
    BY <1>3 DEF Fail
  <1>4. CASE CallbackNoHandler
    BY <1>4 DEF CallbackNoHandler, Alive
  <1>5. CASE CallbackRecv \/ CallbackTimeout
    BY <1>5 DEF CallbackRecv, CallbackTimeout, Alive
  <1>6. CASE CallbackStop
    BY <1>6 DEF CallbackStop, Alive
  <1>7. CASE CallbackAgain
    BY <1>7 DEF CallbackAgain, Receive
  <1>8. ASSUME NEW h \in Handler, Pull(h) \/ Drop(h) PROVE SilentOnlyWhenDone'
    BY <1>8 DEF Pull, Drop
  <1>9. CASE StopAio
    BY <1>9 DEF StopAio
  <1>10. CASE StopHandler
    BY <1>10 DEF StopHandler
  <1>11. CASE UNCHANGED vars
    BY <1>11 DEF vars
  <1> QED
    BY <1>1, <1>2, <1>3, <1>4, <1>5, <1>6, <1>7, <1>8, <1>9, <1>10, <1>11 DEF Next, Callback

(* The inbox stays complete.  A message is added when it arrives, changes  *)
(* from the callback's hand to the queue and from there to the user.       *)
LEMMA CompleteStep ==
  TypeOK /\ CallbackHasLoop /\ Complete /\ [Next]_vars => Complete'
  <1> SUFFICES ASSUME TypeOK, CallbackHasLoop, Complete, [Next]_vars, ~overlap',
                      NEW g \in Handler, g \notin dropped'
               PROVE  arrived'[g] = taken'[g] \o deq'[g] \o InHand(g)'
    BY Zenon DEF Complete
  <1> DEFINE Goal == arrived'[g] = taken'[g] \o deq'[g] \o InHand(g)'
  <1>a. g # None /\ taken[g] \in Seq(Msg) /\ deq[g] \in Seq(Msg)
    BY NoneAssumption DEF TypeOK
  <1>b. g \notin dropped /\ ~overlap
    BY Zenon DEF Next, Callback, RecvStart, Arrive, Fail, CallbackNoHandler, CallbackRecv,
           CallbackTimeout, CallbackStop, CallbackAgain, Pull, Drop, StopAio, StopHandler,
           vars, TypeOK
  <1>c. arrived[g] = taken[g] \o deq[g] \o InHand(g)
    BY <1>b, Zenon DEF Complete
  <1>d. ASSUME UNCHANGED <<arrived, taken, deq>>, InHand(g)' = InHand(g) PROVE Goal
    BY <1>c, <1>d, Zenon
  <1> SUFFICES Goal
    OBVIOUS
  <1> HIDE DEF Goal
  <1>1. ASSUME NEW h \in Handler, RecvStart(h) PROVE Goal
    <2>1. aio = "none" /\ aio' # "success"
      BY <1>1, <1>b, Zenon DEF RecvStart, Receive, TypeOK
    <2>2. UNCHANGED <<arrived, taken, deq>> /\ InHand(g)' = InHand(g)
      BY <1>1, <2>1 DEF RecvStart, queueVars, InHand
    <2> QED BY <1>d, <2>2
  <1>2. ASSUME NEW m \in Msg, Arrive(m) PROVE Goal
    <2>1. InHand(g) = <<>> /\ UNCHANGED <<taken, deq, handler>>
      BY <1>2 DEF Arrive, InHand, queueVars
    <2>2. CASE handler = g
      <3>1. arrived'[g] = Append(arrived[g], m) /\ InHand(g)' = <<m>>
        <4>1. arrived' = [arrived EXCEPT ![g] = Append(@, m)]
          BY <1>2, <2>2, <1>a, <1>b, Zenon DEF Arrive, Alive
        <4>2. arrived'[g] = Append(arrived[g], m)
          BY <4>1, <1>b, Zenon DEF TypeOK
        <4>3. InHand(g)' = <<m>>
          BY <1>2, <2>1, <2>2, Zenon DEF Arrive, InHand
        <4> QED BY <4>2, <4>3
      <3>2. arrived[g] = taken[g] \o deq[g]
        BY <1>a, <1>c, <2>1, NothingAdded
      <3>3. Append(taken[g] \o deq[g], m) = (taken[g] \o deq[g]) \o <<m>>
        <4> DEFINE t == taken[g]
                   q == deq[g]
        <4>1. t \in Seq(Msg) /\ q \in Seq(Msg)
          BY <1>a
        <4> HIDE DEF t, q
        <4>2. Append(t \o q, m) = (t \o q) \o <<m>>
          BY <4>1, ArriveExtends
        <4> QED BY <4>2 DEF t, q
      <3>4. taken'[g] = taken[g] /\ deq'[g] = deq[g]
        BY <2>1
      <3>5. arrived'[g] = (taken[g] \o deq[g]) \o <<m>>
        BY <3>1, <3>2, <3>3, Zenon
      <3> QED BY <3>1, <3>4, <3>5, Zenon DEF Goal
    <2>3. CASE handler # g
      <3>1. arrived'[g] = arrived[g] /\ InHand(g)' = <<>>
        BY <1>2, <2>1, <2>3 DEF Arrive, InHand, TypeOK
      <3> QED BY <3>1, <2>1, <1>c DEF Goal
    <2> QED BY <2>2, <2>3
  <1>3. ASSUME NEW e \in AioError, Fail(e) PROVE Goal
    <2>1. UNCHANGED <<arrived, taken, deq>> /\ InHand(g)' = InHand(g)
      BY <1>3, ErrorAssumption DEF Fail, queueVars, InHand
    <2> QED BY <1>d, <2>1
  <1>4. CASE CallbackNoHandler
    <2>1. handler # g
      BY <1>4, <1>a, <1>b DEF CallbackNoHandler, Alive
    <2>2. UNCHANGED <<arrived, taken, deq>> /\ InHand(g)' = InHand(g)
      BY <1>4, <2>1 DEF CallbackNoHandler, queueVars, InHand
    <2> QED BY <1>d, <2>2
  <1>5. CASE CallbackRecv
    <2>1. msg \in Msg /\ aio = "success" /\ InHand(g)' = <<>> /\ UNCHANGED <<arrived, taken>>
      BY <1>5 DEF CallbackRecv, CallbackHasLoop, InHand
    <2>2. CASE handler = g
      <3>1. deq'[g] = Append(deq[g], msg) /\ InHand(g) = <<msg>>
        BY <1>5, <2>1, <2>2 DEF CallbackRecv, InHand, TypeOK
      <3>2. deq'[g] \in Seq(Msg) /\ taken[g] \o deq'[g] = (taken[g] \o deq[g]) \o <<msg>>
        <4>0. msg \in Msg
          BY <2>1
        <4>1. taken[g] \o Append(deq[g], msg) = (taken[g] \o deq[g]) \o <<msg>>
          <5>1. \A t, q \in Seq(Msg) : \A e \in Msg : t \o Append(q, e) = (t \o q) \o <<e>>
            BY PushKeepsAll
          <5> QED BY ONLY <5>1, <4>0, <1>a, Zenon
        <4>2. Append(deq[g], msg) \in Seq(Msg)
          BY <2>1, <1>a
        <4> QED BY <3>1, <4>1, <4>2
      <3>3. (taken[g] \o deq'[g]) \o <<>> = taken[g] \o deq'[g]
        BY <3>2, <1>a, NothingAdded
      <3> QED BY <3>1, <3>2, <3>3, <2>1, <1>c, Zenon DEF Goal
    <2>3. CASE handler # g
      <3>1. deq'[g] = deq[g] /\ InHand(g) = <<>>
        BY <1>5, <2>3 DEF CallbackRecv, InHand, TypeOK
      <3> QED BY <3>1, <2>1, <1>c DEF Goal
    <2> QED BY <2>2, <2>3
  <1>6. CASE CallbackTimeout
    <2>1. UNCHANGED <<arrived, taken, deq>> /\ InHand(g)' = InHand(g)
      BY <1>6 DEF CallbackTimeout, queueVars, InHand
    <2> QED BY <1>d, <2>1
  <1>7. CASE CallbackStop
    <2>1. UNCHANGED <<arrived, taken, deq>> /\ InHand(g)' = InHand(g)
      BY <1>7 DEF CallbackStop, queueVars, InHand
    <2> QED BY <1>d, <2>1
  <1>8. CASE CallbackAgain
    <2>1. aio = "none" /\ aio' # "success"
      BY <1>8 DEF CallbackAgain, Receive, CallbackHasLoop
    <2>2. UNCHANGED <<arrived, taken, deq>> /\ InHand(g)' = InHand(g)
      BY <1>8, <2>1 DEF CallbackAgain, queueVars, InHand
    <2> QED BY <1>d, <2>2
  <1>9. ASSUME NEW h \in Handler, Pull(h) PROVE Goal
    <2>1. InHand(g)' = InHand(g) /\ arrived' = arrived
      BY <1>9 DEF Pull, InHand
    <2>2. CASE h = g
      <3>1. /\ deq[g] # <<>>
            /\ taken'[g] = Append(taken[g], Head(deq[g])) /\ deq'[g] = Tail(deq[g])
        BY <1>9, <2>2 DEF Pull, TypeOK
      <3>2. taken'[g] \o deq'[g] = taken[g] \o deq[g]
        BY <3>1, <1>a, PullKeepsAll, Zenon
      <3> QED BY <3>2, <2>1, <1>c DEF Goal
    <2>3. CASE h # g
      <3>1. taken'[g] = taken[g] /\ deq'[g] = deq[g]
        BY <1>9, <2>3 DEF Pull, TypeOK
      <3> QED BY <3>1, <2>1, <1>c DEF Goal
    <2> QED BY <2>2, <2>3
  <1>10. ASSUME NEW h \in Handler, Drop(h) PROVE Goal
    <2>1. UNCHANGED <<arrived, taken, deq>> /\ InHand(g)' = InHand(g)
      BY <1>10 DEF Drop, queueVars, InHand
    <2> QED BY <1>d, <2>1
  <1>11. CASE StopAio
    <2>1. UNCHANGED <<arrived, taken, deq>> /\ InHand(g)' = InHand(g)
      BY <1>11 DEF StopAio, queueVars, InHand
    <2> QED BY <1>d, <2>1
  <1>12. CASE StopHandler
    <2>1. UNCHANGED <<arrived, taken, deq>> /\ InHand(g)' = InHand(g)
      BY <1>12 DEF StopHandler, queueVars, InHand
    <2> QED BY <1>d, <2>1
  <1>13. CASE UNCHANGED vars
    <2>1. UNCHANGED <<arrived, taken, deq>> /\ InHand(g)' = InHand(g)
      BY <1>13 DEF vars, InHand
    <2> QED BY <1>d, <2>1
  <1> QED
    BY <1>1, <1>2, <1>3, <1>4, <1>5, <1>6, <1>7, <1>8, <1>9, <1>10, <1>11, <1>12, <1>13
    DEF Next, Callback

-----------------------------------------------------------------------------
(* The loop starts with nothing received.                                  *)
LEMMA RecvInit == Init => RecvInv
  <1> SUFFICES ASSUME Init PROVE RecvInv
    OBVIOUS
  <1>1. TypeOK
    <2>1. <<>> \in Seq(Msg) /\ 0 \in Nat
      OBVIOUS
    <2> QED BY <2>1, Zenon DEF Init, TypeOK
  <1>2. CallbackHasLoop /\ SilentOnlyWhenDone
    BY DEF Init, CallbackHasLoop, SilentOnlyWhenDone, DeafOnlyIfTold, DestroyedIsQuiet
  <1>3. Complete
    <2>1. <<>> \o <<>> \o <<>> = <<>>
      OBVIOUS
    <2> QED BY <2>1 DEF Init, Complete, InHand
  <1> QED BY <1>1, <1>2, <1>3 DEF RecvInv

(* The inductive invariant of the receive loop.                            *)
THEOREM RecvInvariant == Spec => []RecvInv
  <1>1. RecvInv /\ [Next]_vars => RecvInv'
    BY TypeStep, CallbackStep, SilentStep, CompleteStep DEF RecvInv
  <1> QED BY <1>1, RecvInit, PTL DEF Spec

(* AsyncRecvLoop with AsyncRecvQueue loses and reorders nothing, whatever  *)
(* handlers come and go, unless two receives share the AIO.                *)
THEOREM InboxIsComplete == Spec => []InboxComplete
  <1>1. RecvInv => InboxComplete
    BY Zenon DEF RecvInv, Complete, InHand, InboxComplete
  <1> QED BY <1>1, RecvInvariant, PTL

(* The loop does not go deaf behind its handler's back, and after          *)
(* recv_stop it has neither a receive nor a callback.                      *)
THEOREM LoopIsNotDeaf == Spec => []SilentOnlyWhenDone
  <1>1. RecvInv => SilentOnlyWhenDone
    BY DEF RecvInv
  <1> QED BY <1>1, RecvInvariant, PTL

-----------------------------------------------------------------------------
(***************************************************************************)
(* The lock that keeps a handler while a callback of the loop has it: the  *)
(* callback turns its weak pointer into a shared one (Alive above).  For   *)
(* any number of callbacks and of lives of the lock, the object outlives   *)
(* every pointer to it, and the status word only goes forward.             *)
(***************************************************************************)
(* Where the owner is and what the word says decide who may have a         *)
(* pointer.  The word is the lock's only knowledge of the holders, so the  *)
(* invariant says of each of its values what it implies about them.        *)
NoDeleter == \A h \in Holder : holds[h] # "deleting"

WordMatchesHolders ==
  /\ ref => pc = "idle" /\ status \in {"working", "empty"} /\ NoDeleter /\ ~Holding(Owner)
  /\ InUse => object = "alive"
  /\ InUse /\ ~ref => pc = "storing" \/ status = "retired"
  /\ status = "working" => ref \/ pc = "storing"
  /\ status # "retired" => NoDeleter
  /\ \A h \in Holder : holds[h] = "deleting" =>
       /\ ~InUse
       /\ \A g \in Holder \ {h} : holds[g] = "none"

OwnerMatchesWord ==
  /\ pc = "storing" => Holding(Owner) /\ ~ref /\ status \in {"working", "empty"}
  /\ pc = "dropping" => Holding(Owner) /\ ~ref /\ status = "retired"
  /\ pc = "awaiting" => status \in {"retired", "expired"}
  /\ pc = "finalizing" => status = "expired"
  /\ pc = "gone" => status = "empty" /\ ~ref

LifeInv == LockTypeOK /\ WordMatchesHolders /\ OwnerMatchesWord

-----------------------------------------------------------------------------
(* Initially the lock works and nobody has a pointer.                      *)
LEMMA LifeInit == LockInit => LifeInv
  BY OwnerAssumption, InitAssumption
  DEF LockInit, LifeInv, LockTypeOK, WordMatchesHolders, OwnerMatchesWord,
      NoDeleter, InUse, Holding, Holder, Status

(* The steps of a holder: a pointer is made from one that exists, the last *)
(* to go enters the deleter, and only the deleter writes expired.          *)
LEMMA HolderStep ==
  ASSUME LifeInv,
         \/ \E u \in User : Weak(u) \/ Lock(u) \/ Upgrade(u)
         \/ \E h \in Holder : Release(h) \/ Deleter(h)
  PROVE  LifeInv'
<1> USE OwnerAssumption, InitAssumption DEF LifeInv, LockTypeOK, WordMatchesHolders,
            OwnerMatchesWord, NoDeleter, InUse, Holding, Holder, Status
<1>1. CASE \E u \in User : Weak(u)
  BY <1>1 DEF Weak
<1>2. CASE \E u \in User : Lock(u)
  BY <1>2 DEF Lock
<1>3. CASE \E u \in User : Upgrade(u)
  BY <1>3 DEF Upgrade
<1>4. CASE \E h \in Holder : Release(h)
  BY <1>4 DEF Release, Dropped
<1>5. CASE \E h \in Holder : Deleter(h)
  BY <1>5 DEF Deleter
<1> QED  BY <1>1, <1>2, <1>3, <1>4, <1>5, Zenon

(* The steps of the owner.                                                 *)
LEMMA OwnerSteps ==
  ASSUME LifeInv,
         \/ Retire \/ OwnerStep \/ Reinit
         \/ Destroy("destroy") \/ Destroy("destructor")
  PROVE  LifeInv'
<1> USE OwnerAssumption, InitAssumption DEF LifeInv, LockTypeOK, WordMatchesHolders,
            OwnerMatchesWord, NoDeleter, InUse, Holding, Holder, Status
<1>1. CASE Retire
  BY <1>1, Zenon DEF Retire, RetireMove, status_t
<1>2. CASE Destroy("destroy")
  BY <1>2, Zenon DEF Destroy, RetireMove, status_t
<1>3. CASE Destroy("destructor")
  BY <1>3, Zenon DEF Destroy, RetireMove, status_t
<1>4. CASE RetireStore
  BY <1>4 DEF RetireStore
<1>5. CASE RetireDrop
  BY <1>5 DEF RetireDrop, Dropped
<1>6. CASE Await
  BY <1>6, Zenon DEF Await
<1>7. CASE Finalize
  BY <1>7, Zenon DEF Finalize
<1>8. CASE Unlock
  BY <1>8, Zenon DEF Unlock, status_t
<1>9. CASE Reinit
  BY <1>9 DEF Reinit, status_t
<1> QED  BY <1>1, <1>2, <1>3, <1>4, <1>5, <1>6, <1>7, <1>8, <1>9, Zenon DEF OwnerStep

(* Every step keeps the invariant of the lock.                             *)
LEMMA LifeStep == LifeInv /\ [LockNext]_lifeVars => LifeInv'
<1> SUFFICES ASSUME LifeInv, [LockNext]_lifeVars PROVE LifeInv'
  OBVIOUS
<1>1. CASE UNCHANGED lifeVars
  BY <1>1 DEF lifeVars, LifeInv, LockTypeOK, WordMatchesHolders, OwnerMatchesWord, NoDeleter,
              InUse, Holding
<1> QED  BY <1>1, HolderStep, OwnerSteps DEF LockNext

(* The invariant holds throughout.                                         *)
LEMMA LifeInvariant == LockSpec => []LifeInv
  BY LifeInit, LifeStep, PTL DEF LockSpec

(* However many callbacks hold the lock and however often it is used       *)
(* again, destroy() does not destroy the object under any of them.         *)
THEOREM PointersKeepTheObject == LockSpec => []HeldMeansAlive
<1>1. LifeInv => HeldMeansAlive
  BY DEF LifeInv, WordMatchesHolders, OwnerMatchesWord, NoDeleter, HeldMeansAlive
<1> QED  BY <1>1, LifeInvariant, PTL

(* The deleter's store and _retire's cannot come in the wrong order.       *)
THEOREM WordNeverGoesBack == LockSpec => StatusGoesForward
<1> DEFINE Forward ==
      /\ status = "expired" => status' \in {"expired", "empty"}
      /\ status = "retired" => status' \in {"retired", "expired"}
      /\ status' = "expired" => status \in {"retired", "expired"}
<1>1. LifeInv /\ [LockNext]_lifeVars => [Forward]_lifeVars
  BY Zenon DEF LifeInv, LockTypeOK, WordMatchesHolders, OwnerMatchesWord, NoDeleter, Status,
         Holder, LockNext, lifeVars, Weak, Lock, Upgrade, Release,
         Deleter, Retire, RetireMove, Destroy, OwnerStep,
         RetireStore, RetireDrop, Await, Finalize, Unlock, Reinit
<1> QED  BY <1>1, LifeInvariant, PTL DEF LockSpec, StatusGoesForward
=============================================================================
