---------------------------- MODULE HttpClientProofs ----------------------------
(***************************************************************************)
(* Proofs that the pool of Actions is consistent and that every response   *)
(* meets the promise of its own query, for any number of callers, requests *)
(* and Actions.                                                            *)
(***************************************************************************)
EXTENDS HttpClient, SequenceTheorems, FiniteSetTheorems, TLAPS

(***************************************************************************)
(* The inductive invariant.  An Action that goes back to the pool has no   *)
(* connection of its own, and its promise was settled, or broken with all  *)
(* the others when the last pointer to the box went.                       *)
(***************************************************************************)
CleanedUp ==
  /\ \A s \in Slot : callback[s] \in {"cleanup", "orphan"} => ~conn[s] /\ query[s] \notin pending
  /\ ~HandlerAlive => pending = {}

(* Ids are counted, so those in use are less than the next, and no two     *)
(* active Actions share one.                                               *)
IdsAreFresh ==
  /\ \A q \in Id : q \in pending \/ promise[q] = "open" => q < nextQueryID
  /\ \A s \in active : query[s] < nextQueryID
  /\ \A r, s \in active : query[r] = query[s] => r = s

(* A promise still to be kept is filed, and an Action works for it.        *)
PromisesFiled ==
  /\ \A q \in Id : promise[q] = "open" => q \in pending /\ \E s \in active : query[s] = q
  /\ \A q \in pending : promise[q] \in {"open", "declined"}

HttpInv == PoolConsistent /\ CleanedUp /\ IdsAreFresh /\ PromisesFiled

(* A new client has made no Action and no promise.                         *)
LEMMA InitHttp == Init => HttpInv
  <1> SUFFICES ASSUME Init PROVE HttpInv
    OBVIOUS
  <1>0. 0 \in Id /\ nextQueryID \in 0 .. MaxQueries
    BY BoundAssumption DEF Init, Id
  <1>1. idle \in Seq(Slot) /\ Len(idle) = 0
    BY DEF Init
  <1>2. Unknown \in Completion
    BY DEF Unknown, Completion
  <1>3. <<>> \in Seq({"recv", "error"})
    OBVIOUS
  <1>4. conn \in [Slot -> BOOLEAN] /\ \A s \in Slot : ~conn[s]
    BY Zenon DEF Init
  <1>5. TypeOK
    BY <1>0, <1>1, <1>2, <1>3, <1>4 DEF Init, TypeOK, Outcome
  <1>6. PoolConsistent
    BY <1>1, <1>4, <1>5 DEF Init, PoolConsistent
  <1>7. CleanedUp /\ IdsAreFresh /\ PromisesFiled
    BY DEF Init, CleanedUp, IdsAreFresh, PromisesFiled
  <1> QED BY <1>6, <1>7 DEF HttpInv

(* The id of the next query.                                               *)
LEMMA NextId ==
  ASSUME TypeOK, nextQueryID < MaxQueries
  PROVE  /\ nextQueryID \in Id /\ nextQueryID \in Nat /\ nextQueryID + 1 \in 0 .. MaxQueries
         /\ \A q \in Id : q \in Nat /\ (q < nextQueryID => q # nextQueryID /\ q < nextQueryID + 1)
  BY BoundAssumption DEF TypeOK, Id

(* What taking an Action from the pool does.                               *)
LEMMA AllocateTakes ==
  ASSUME PoolConsistent, NEW s \in Slot, Allocate(s)
  PROVE  /\ s \notin active
         /\ idle' \in Seq(Slot)
         /\ \A i \in 1 .. Len(idle') : idle'[i] # s
         /\ \A r \in active : \A i \in 1 .. Len(idle') : idle'[i] # r
         /\ \A i, j \in 1 .. Len(idle') : idle'[i] = idle'[j] => i = j
  <1>t. idle \in Seq(Slot)
    BY DEF PoolConsistent, TypeOK
  <1>1. CASE idle # <<>> /\ s = Head(idle) /\ idle' = Tail(idle)
    <2>1. /\ s = idle[1] /\ 1 \in 1 .. Len(idle) /\ idle' \in Seq(Slot)
          /\ \A i \in 1 .. Len(idle') : i + 1 \in 1 .. Len(idle) /\ idle'[i] = idle[i + 1]
          /\ \A i, j \in 1 .. Len(idle') : i + 1 # 1 /\ (i + 1 = j + 1 => i = j)
      BY <1>t, <1>1, HeadTailProperties
    <2>2. s \notin active
      BY <2>1, Zenon DEF PoolConsistent
    <2>3. \A i \in 1 .. Len(idle') : idle'[i] # s
      BY <2>1 DEF PoolConsistent
    <2>4. \A i, j \in 1 .. Len(idle') : idle'[i] = idle'[j] => i = j
      BY <2>1 DEF PoolConsistent
    <2>5. \A r \in active : \A i \in 1 .. Len(idle') : idle'[i] # r
      BY <2>1 DEF PoolConsistent
    <2> QED BY <2>1, <2>2, <2>3, <2>4, <2>5
  <1>2. CASE idle = <<>> /\ ~Pooled(s) /\ UNCHANGED idle
    <2>1. Len(idle') = 0
      BY <1>2
    <2> QED BY <1>t, <1>2, <2>1 DEF Pooled
  <1> QED BY <1>1, <1>2 DEF Allocate

(* What a declined request does to the pool: the Action is in front.       *)
LEMMA DeclinedPool ==
  ASSUME PoolConsistent, NEW s \in Slot,
         \/ idle # <<>> /\ s = Head(idle) /\ UNCHANGED idle
         \/ idle = <<>> /\ ~Pooled(s) /\ idle' = <<s>>
  PROVE  /\ s \notin active
         /\ idle' \in Seq(Slot)
         /\ \A r \in active : \A i \in 1 .. Len(idle') : idle'[i] # r
         /\ \A i, j \in 1 .. Len(idle') : idle'[i] = idle'[j] => i = j
  <1>t. idle \in Seq(Slot)
    BY DEF PoolConsistent, TypeOK
  <1>1. CASE idle # <<>> /\ s = Head(idle) /\ UNCHANGED idle
    <2>1. s = idle[1] /\ 1 \in 1 .. Len(idle)
      BY <1>t, <1>1, HeadTailProperties
    <2> QED BY <1>t, <1>1, <2>1 DEF PoolConsistent
  <1>2. CASE idle = <<>> /\ ~Pooled(s) /\ idle' = <<s>>
    <2>1. Len(idle') = 1 /\ idle'[1] = s /\ idle' \in Seq(Slot)
      BY <1>2
    <2> QED BY <1>2, <2>1 DEF Pooled
  <1> QED BY <1>1, <1>2

(* What the handler hears and what becomes of promises keep their types.   *)
LEMMA ToldTypes ==
  ASSUME TypeOK, NEW s \in Slot, NEW calls \in {<<"recv">>, <<"error", "recv">>},
         NEW outcome \in {"value", "error"}, Tell(s, calls, outcome)
  PROVE  /\ heard' \in [Id -> Seq({"recv", "error"})]
         /\ promise' \in [Id -> {"none", "open", "declined", "value", "error", "broken"}]
         /\ pending' \subseteq Id
         /\ fault' \subseteq {"race", "null"}
  <1>1. query[s] \in Id /\ heard[query[s]] \in Seq({"recv", "error"})
    BY DEF TypeOK
  <1>2. calls \in Seq({"recv", "error"})
    OBVIOUS
  <1>3. heard[query[s]] \o calls \in Seq({"recv", "error"})
    BY <1>1, <1>2, ConcatProperties
  <1>4. heard' \in [Id -> Seq({"recv", "error"})]
    BY <1>1, <1>3 DEF Tell, TypeOK
  <1>5. promise' \in [Id -> {"none", "open", "declined", "value", "error", "broken"}]
        /\ pending' \subseteq Id
    BY <1>1 DEF Tell, TypeOK
  <1>6. fault' \subseteq {"race", "null"}
    BY DEF Tell, ChangesPending, TypeOK
  <1> QED BY <1>4, <1>5, <1>6

(* The types are kept.                                                     *)
LEMMA TypeStep == PoolConsistent /\ [Next]_vars => TypeOK'
  <1> SUFFICES ASSUME PoolConsistent, [Next]_vars PROVE TypeOK'
    OBVIOUS
  <1>t. TypeOK
    BY DEF PoolConsistent
  <1> USE DEF actionVars, boxVars
  <1>1. ASSUME NEW c \in Caller, NEW s \in Slot, Request(c, s) PROVE TypeOK'
    <2>1. idle' \in Seq(Slot)
      BY <1>1, AllocateTakes DEF Request
    <2>2. nextQueryID \in Id /\ nextQueryID' \in 0 .. MaxQueries
      BY <1>t, <1>1, NextId DEF Request
    <2>3. fault' \subseteq {"race", "null"}
      BY <1>t, <1>1 DEF Request, ChangesPending, TypeOK
    <2> QED BY <1>t, <1>1, <2>1, <2>2, <2>3, Zenon DEF Request, TypeOK
  <1>2. ASSUME NEW c \in Caller, NEW s \in Slot, RequestDeclined(c, s) PROVE TypeOK'
    <2>1. idle' \in Seq(Slot)
      BY <1>2, DeclinedPool DEF RequestDeclined
    <2>2. nextQueryID \in Id /\ nextQueryID' \in 0 .. MaxQueries
      BY <1>t, <1>2, NextId DEF RequestDeclined
    <2>3. fault' \subseteq {"race", "null"}
      BY <1>t, <1>2 DEF RequestDeclined, ChangesPending, TypeOK
    <2> QED BY <1>t, <1>2, <2>1, <2>2, <2>3 DEF RequestDeclined, TypeOK
  <1>3. ASSUME NEW c \in Caller, GetFuture(c) PROVE TypeOK'
    <2>1. newQueryID' \in Id
      BY <1>t, <1>3, BoundAssumption DEF GetFuture, TypeOK, Id
    <2> QED BY <1>t, <1>3, <2>1 DEF GetFuture, TypeOK
  <1>4. ASSUME NEW s \in Slot, NEW r \in Outcome, Complete(s, r) PROVE TypeOK'
    BY <1>t, <1>4 DEF Complete, TypeOK
  <1>a. ASSUME NEW s \in Slot, NEW next \in {"reading", "next", "cleanup", "orphan"}, Enter(s, next),
               conn' \in [Slot -> BOOLEAN], completion' \in [Slot -> Completion],
               received' \subseteq Id, leaked' \subseteq Id,
               \/ UNCHANGED <<pending, promise, heard, fault>>
               \/ \E calls \in {<<"recv">>, <<"error", "recv">>}, outcome \in {"value", "error"} :
                    Tell(s, calls, outcome)
        PROVE  TypeOK'
    <2>1. /\ heard' \in [Id -> Seq({"recv", "error"})]
          /\ promise' \in [Id -> {"none", "open", "declined", "value", "error", "broken"}]
          /\ pending' \subseteq Id
          /\ fault' \subseteq {"race", "null"}
      <3>1. CASE UNCHANGED <<pending, promise, heard, fault>>
        BY <1>t, <3>1 DEF TypeOK
      <3>2. ASSUME NEW calls \in {<<"recv">>, <<"error", "recv">>}, NEW outcome \in {"value", "error"},
                   Tell(s, calls, outcome)
            PROVE  /\ heard' \in [Id -> Seq({"recv", "error"})]
                   /\ promise' \in [Id -> {"none", "open", "declined", "value", "error", "broken"}]
                   /\ pending' \subseteq Id
                   /\ fault' \subseteq {"race", "null"}
        BY <1>t, <3>2, ToldTypes
      <3> QED BY <1>a, <3>1, <3>2
    <2> QED BY <1>t, <1>a, <2>1 DEF Enter, TypeOK
  <1>b. ASSUME NEW s \in Slot PROVE [conn EXCEPT ![s] = FALSE] \in [Slot -> BOOLEAN]
                                    /\ [conn EXCEPT ![s] = TRUE] \in [Slot -> BOOLEAN]
    BY <1>t DEF TypeOK
  <1>c. ASSUME NEW s \in Slot, NEW c \in Completion
        PROVE  [completion EXCEPT ![s] = c] \in [Slot -> Completion] /\ query[s] \in Id
    BY <1>t DEF TypeOK
  <1>5. ASSUME NEW s \in Slot, CallbackNoHandler(s) \/ CallbackConnect(s) \/ CallbackSent(s) \/ CallbackHangup(s)
        PROVE  TypeOK'
    <2>1. \E next \in {"reading", "next", "cleanup", "orphan"} : Enter(s, next)
      BY <1>5 DEF CallbackNoHandler, CallbackConnect, CallbackSent, CallbackHangup
    <2>2. conn' \in [Slot -> BOOLEAN]
      BY <1>t, <1>b, <1>5, Zenon DEF CallbackNoHandler, CallbackConnect, CallbackSent, CallbackHangup, Disconnect, TypeOK
    <2>3. /\ completion' \in [Slot -> Completion] /\ received' \subseteq Id
          /\ UNCHANGED <<pending, promise, heard, fault>>
      BY <1>t, <1>5 DEF CallbackNoHandler, CallbackConnect, CallbackSent, CallbackHangup, TypeOK
    <2>4. leaked' \subseteq Id
      BY <1>t, <1>5 DEF CallbackNoHandler, CallbackConnect, CallbackSent, CallbackHangup, TypeOK
    <2> QED BY <1>a, <2>1, <2>2, <2>3, <2>4
  <1>6. ASSUME NEW s \in Slot, CallbackConnectStale(s) \/ CallbackHangupComplete(s) PROVE TypeOK'
    <2>1. /\ Enter(s, "cleanup") /\ Tell(s, <<"recv">>, "value") /\ Disconnect(s)
          /\ UNCHANGED <<completion, received, leaked>>
      BY <1>6 DEF CallbackConnectStale, CallbackHangupComplete
    <2> QED BY <1>t, <1>a, <1>b, <2>1, Zenon DEF Disconnect, TypeOK
  <1>7. ASSUME NEW s \in Slot, CallbackRecvSome(s) \/ CallbackRecvAll(s) PROVE TypeOK'
    <2>1. PICK c \in Completion : completion' = [completion EXCEPT ![s] = c]
      BY <1>7 DEF CallbackRecvSome, CallbackRecvAll
    <2>2. completion' \in [Slot -> Completion] /\ received' \subseteq Id /\ leaked' \subseteq Id
      BY <1>t, <1>c, <1>7, <2>1 DEF CallbackRecvSome, CallbackRecvAll, TypeOK
    <2>3. conn' \in [Slot -> BOOLEAN]
      BY <1>t, <1>b, <1>7, Zenon DEF CallbackRecvSome, CallbackRecvAll, Disconnect, TypeOK
    <2>4. CASE CallbackRecvSome(s)
      BY <1>a, <2>2, <2>3, <2>4 DEF CallbackRecvSome
    <2>5. CASE CallbackRecvAll(s)
      BY <1>a, <2>2, <2>3, <2>5 DEF CallbackRecvAll
    <2> QED BY <1>7, <2>4, <2>5
  <1>8. ASSUME NEW s \in Slot, CallbackError(s) PROVE TypeOK'
    <2>1. Unknown \in Completion
      BY DEF Unknown, Completion
    <2>2. /\ Enter(s, "cleanup") /\ Tell(s, <<"error", "recv">>, "error") /\ Disconnect(s)
          /\ UNCHANGED <<received, leaked>> /\ completion' = [completion EXCEPT ![s] = Unknown]
      BY <1>8 DEF CallbackError
    <2> QED BY <1>t, <1>a, <1>b, <1>c, <2>1, <2>2, Zenon DEF Disconnect, TypeOK
  <1>9. ASSUME NEW b \in BOOLEAN, Break(b)
        PROVE  /\ promise' \in [Id -> {"none", "open", "declined", "value", "error", "broken"}]
               /\ pending' \subseteq Id
    BY <1>t, <1>9 DEF Break, TypeOK
  <1>10. ASSUME NEW s \in Slot, EndSent(s) \/ Return(s) PROVE TypeOK'
    <2>1. CASE EndSent(s)
      BY <1>t, <2>1 DEF EndSent, TypeOK
    <2>2. CASE Return(s)
      <3>1. \E b \in BOOLEAN : Break(b)
        BY <2>2, Zenon DEF Return
      <3> QED BY <1>t, <1>9, <2>2, <3>1 DEF Return, TypeOK
    <2> QED BY <1>10, <2>1, <2>2
  <1>11. ASSUME NEW s \in Slot, FinishNext(s) PROVE TypeOK'
    <2>1. Unknown \in Completion
      BY DEF Unknown, Completion
    <2>2. completion' \in [Slot -> Completion] /\ fault' \subseteq {"race", "null"}
      BY <1>t, <1>c, <1>11, <2>1 DEF FinishNext, TypeOK
    <2> QED BY <1>t, <1>11, <2>2 DEF FinishNext, TypeOK
  <1>12. ASSUME NEW s \in Slot, FinishCleanup(s) PROVE TypeOK'
    <2>1. idle' \in Seq(Slot)
      BY <1>t, <1>12, AppendProperties DEF FinishCleanup, TypeOK
    <2> QED BY <1>t, <1>12, <2>1 DEF FinishCleanup, TypeOK
  <1>13. CASE DropBox
    <2>1. \E b \in BOOLEAN : Break(b)
      BY <1>13, Zenon DEF DropBox
    <2> QED BY <1>t, <1>9, <1>13, <2>1 DEF DropBox, TypeOK
  <1>14. CASE CancelAll \/ WaitAll
    BY <1>t, <1>14, Zenon DEF CancelAll, WaitAll, TypeOK
  <1>15. CASE UNCHANGED vars
    BY <1>t, <1>15 DEF vars, TypeOK
  <1> QED BY <1>1, <1>2, <1>3, <1>4, <1>5, <1>6, <1>7, <1>8, <1>10, <1>11, <1>12, <1>13, <1>14, <1>15
          DEF Next, Callback

-----------------------------------------------------------------------------
(***************************************************************************)
(* The pool.                                                               *)
(***************************************************************************)

(* Steps on one active Action that keep it active: it has an operation or  *)
(* a callback under way afterwards.                                        *)
LEMMA PoolMovesOn ==
  ASSUME PoolConsistent, TypeOK', UNCHANGED <<active, idle>>,
         NEW s \in active,
         state'[s] # "IDLE", aio'[s] = "none" <=> callback'[s] # "none",
         \A r \in Slot \ {s} : /\ state'[r] = state[r] /\ aio'[r] = aio[r]
                               /\ callback'[r] = callback[r] /\ conn'[r] = conn[r]
  PROVE  PoolConsistent'
  <1>1. active \subseteq Slot
    BY DEF PoolConsistent, TypeOK
  <1> QED BY <1>1 DEF PoolConsistent

(* Steps that leave the pool alone.                                        *)
LEMMA PoolFrame ==
  ASSUME PoolConsistent, TypeOK', UNCHANGED <<state, active, idle, aio, callback, conn>>
  PROVE  PoolConsistent'
  BY DEF PoolConsistent

(* Every callback enters for an Action in use, and changes no other.       *)
LEMMA CallbackEnters ==
  ASSUME NEW s \in Slot,
         \/ CallbackNoHandler(s) \/ CallbackConnectStale(s) \/ CallbackConnect(s)
         \/ CallbackSent(s) \/ CallbackRecvSome(s) \/ CallbackRecvAll(s)
         \/ CallbackHangup(s) \/ CallbackHangupComplete(s) \/ CallbackError(s)
  PROVE  /\ \E next \in {"reading", "next", "cleanup", "orphan"} : Enter(s, next)
         /\ UNCHANGED conn \/ \E b \in BOOLEAN : conn' = [conn EXCEPT ![s] = b]
  <1> USE DEF Disconnect
  <1>1. CASE CallbackNoHandler(s)
    BY <1>1, Zenon DEF CallbackNoHandler
  <1>2. CASE CallbackConnectStale(s)
    BY <1>2, Zenon DEF CallbackConnectStale
  <1>3. CASE CallbackConnect(s)
    BY <1>3, Zenon DEF CallbackConnect
  <1>4. CASE CallbackSent(s)
    BY <1>4 DEF CallbackSent
  <1>5. CASE CallbackRecvSome(s)
    BY <1>5 DEF CallbackRecvSome
  <1>6. CASE CallbackRecvAll(s)
    BY <1>6, Zenon DEF CallbackRecvAll
  <1>7. CASE CallbackHangup(s)
    BY <1>7 DEF CallbackHangup
  <1>8. CASE CallbackHangupComplete(s)
    BY <1>8, Zenon DEF CallbackHangupComplete
  <1>9. CASE CallbackError(s)
    BY <1>9, Zenon DEF CallbackError
  <1> QED BY <1>1, <1>2, <1>3, <1>4, <1>5, <1>6, <1>7, <1>8, <1>9

(* An Action is in one place, whatever happens.                            *)
LEMMA PoolStep == PoolConsistent /\ CleanedUp /\ [Next]_vars => PoolConsistent'
  <1> SUFFICES ASSUME PoolConsistent, CleanedUp, [Next]_vars PROVE PoolConsistent'
    OBVIOUS
  <1>t. TypeOK
    BY DEF PoolConsistent
  <1>t1. TypeOK'
    BY TypeStep
  <1>0. \A s \in Slot : aio[s] # "none" \/ callback[s] # "none" => s \in active /\ state[s] # "IDLE"
    BY DEF PoolConsistent
  <1> USE DEF actionVars
  <1>1. ASSUME NEW c \in Caller, NEW s \in Slot, Request(c, s) PROVE PoolConsistent'
    <2>1. /\ s \notin active
          /\ \A i \in 1 .. Len(idle') : idle'[i] # s
          /\ \A r \in active : \A i \in 1 .. Len(idle') : idle'[i] # r
          /\ \A i, j \in 1 .. Len(idle') : idle'[i] = idle'[j] => i = j
      BY <1>1, AllocateTakes DEF Request
    <2>2. /\ active' = active \cup {s} /\ UNCHANGED <<callback, conn>>
          /\ \A r \in Slot : /\ state'[r] = IF r = s THEN "CONNECT" ELSE state[r]
                             /\ aio'[r] = IF r = s THEN "pending" ELSE aio[r]
      BY <1>t, <1>1 DEF Request, TypeOK
    <2>3. callback[s] = "none"
      BY <2>1 DEF PoolConsistent
    <2>4. \A r \in active' : /\ state'[r] # "IDLE"
                             /\ aio'[r] = "none" <=> callback'[r] # "none"
                             /\ \A i \in 1 .. Len(idle') : idle'[i] # r
      <3>1. active \subseteq Slot
        BY <1>t DEF TypeOK
      <3> QED BY <2>1, <2>2, <2>3, <3>1 DEF PoolConsistent
    <2>5. \A r \in Slot \ active' :
            aio'[r] = "none" /\ callback'[r] = "none" /\ state'[r] = "IDLE" /\ ~conn'[r]
      BY <2>2 DEF PoolConsistent
    <2> QED BY <1>t1, <2>1, <2>4, <2>5 DEF PoolConsistent
  <1>2. ASSUME NEW c \in Caller, NEW s \in Slot, RequestDeclined(c, s) PROVE PoolConsistent'
    <2>1. /\ \A r \in active : \A i \in 1 .. Len(idle') : idle'[i] # r
          /\ \A i, j \in 1 .. Len(idle') : idle'[i] = idle'[j] => i = j
      BY <1>2, DeclinedPool DEF RequestDeclined
    <2> QED BY <1>t1, <1>2, <2>1 DEF RequestDeclined, PoolConsistent
  <1>3. ASSUME NEW c \in Caller, GetFuture(c) PROVE PoolConsistent'
    BY <1>t1, <1>3, PoolFrame DEF GetFuture
  <1>4. ASSUME NEW s \in Slot, NEW r \in Outcome, Complete(s, r) PROVE PoolConsistent'
    <2>1. s \in active /\ callback[s] = "none" /\ state[s] # "IDLE"
      BY <1>0, <1>4 DEF Complete, PoolConsistent
    <2>2. /\ UNCHANGED <<active, idle, state, callback, conn>>
          /\ aio'[s] # "none" /\ \A x \in Slot \ {s} : aio'[x] = aio[x]
      BY <1>t, <1>4 DEF Complete, TypeOK, Outcome
    <2> QED BY <1>t1, <2>1, <2>2, PoolMovesOn
  <1>5. ASSUME NEW s \in Slot,
               \/ CallbackNoHandler(s) \/ CallbackConnectStale(s) \/ CallbackConnect(s)
               \/ CallbackSent(s) \/ CallbackRecvSome(s) \/ CallbackRecvAll(s)
               \/ CallbackHangup(s) \/ CallbackHangupComplete(s) \/ CallbackError(s)
        PROVE  PoolConsistent'
    <2>1. PICK next \in {"reading", "next", "cleanup", "orphan"} : Enter(s, next)
      BY <1>5, CallbackEnters
    <2>2. s \in active /\ state[s] # "IDLE"
      BY <1>0, <2>1 DEF Enter
    <2>3. /\ UNCHANGED <<active, idle, state>>
          /\ aio'[s] = "none" /\ \A x \in Slot \ {s} : aio'[x] = aio[x]
          /\ callback'[s] = next /\ \A x \in Slot \ {s} : callback'[x] = callback[x]
      BY <1>t, <2>1 DEF Enter, TypeOK
    <2>4. \A x \in Slot \ {s} : conn'[x] = conn[x]
      BY <1>t, <1>5, CallbackEnters, Zenon DEF TypeOK
    <2> QED BY <1>t1, <2>2, <2>3, <2>4, PoolMovesOn
  <1>6. ASSUME NEW s \in Slot, EndSent(s) PROVE PoolConsistent'
    <2>1. s \in active /\ state[s] # "IDLE" /\ aio[s] = "none"
      BY <1>0, <1>6 DEF EndSent, InHandler, PoolConsistent
    <2>2. /\ UNCHANGED <<active, idle, state, aio, conn>>
          /\ callback'[s] = "next" /\ \A x \in Slot \ {s} : callback'[x] = callback[x]
      BY <1>t, <1>6 DEF EndSent, TypeOK
    <2> QED BY <1>t1, <2>1, <2>2, PoolMovesOn
  <1>7. ASSUME NEW s \in Slot, FinishNext(s) PROVE PoolConsistent'
    <2>1. s \in active
      BY <1>0, <1>7 DEF FinishNext
    <2>2. /\ UNCHANGED <<active, idle, conn>>
          /\ state'[s] # "IDLE" /\ \A x \in Slot \ {s} : state'[x] = state[x]
          /\ aio'[s] = "pending" /\ \A x \in Slot \ {s} : aio'[x] = aio[x]
          /\ callback'[s] = "none" /\ \A x \in Slot \ {s} : callback'[x] = callback[x]
      BY <1>t, <1>7 DEF FinishNext, TypeOK
    <2> QED BY <1>t1, <2>1, <2>2, PoolMovesOn
  <1>8. ASSUME NEW s \in Slot, FinishCleanup(s) PROVE PoolConsistent'
    <2>1. s \in active /\ aio[s] = "none" /\ ~conn[s] /\ \A i \in 1 .. Len(idle) : idle[i] # s
      BY <1>0, <1>8, Zenon DEF FinishCleanup, PoolConsistent, CleanedUp
    <2>2. /\ active' = active \ {s} /\ UNCHANGED <<aio, conn>>
          /\ \A x \in Slot : /\ state'[x] = IF x = s THEN "IDLE" ELSE state[x]
                             /\ callback'[x] = IF x = s THEN "none" ELSE callback[x]
      BY <1>t, <1>8 DEF FinishCleanup, TypeOK
    <2>3. /\ \A i \in 1 .. Len(idle) : idle'[i] = idle[i]
          /\ idle'[Len(idle) + 1] = s
          /\ \A i \in 1 .. Len(idle') : i = Len(idle) + 1 \/ i \in 1 .. Len(idle)
      BY <1>t, <1>8, AppendProperties DEF FinishCleanup, TypeOK
    <2>4. \A i, j \in 1 .. Len(idle') : idle'[i] = idle'[j] => i = j
      BY <2>1, <2>3 DEF PoolConsistent
    <2>5. \A r \in active' : \A i \in 1 .. Len(idle') : idle'[i] # r
      BY <2>2, <2>3 DEF PoolConsistent
    <2>6. \A r \in active' : state'[r] # "IDLE" /\ (aio'[r] = "none" <=> callback'[r] # "none")
      <3> SUFFICES ASSUME NEW r \in active, r # s
                   PROVE  state'[r] # "IDLE" /\ (aio'[r] = "none" <=> callback'[r] # "none")
        BY <2>2, Zenon
      <3>1. r \in Slot
        BY <1>t DEF TypeOK
      <3>2. state'[r] = state[r] /\ callback'[r] = callback[r] /\ aio'[r] = aio[r]
        BY <2>2, <3>1
      <3> QED BY <3>2, Zenon DEF PoolConsistent
    <2>7. ASSUME NEW r \in Slot \ active'
          PROVE  aio'[r] = "none" /\ callback'[r] = "none" /\ state'[r] = "IDLE" /\ ~conn'[r]
      <3>1. CASE r = s
        BY <2>1, <2>2, <3>1
      <3>2. CASE r # s
        BY <2>2, <2>7, <3>2 DEF PoolConsistent
      <3> QED BY <3>1, <3>2
    <2> QED BY <1>t1, <2>4, <2>5, <2>6, <2>7, Zenon DEF PoolConsistent
  <1>9. CASE (\E s \in Slot : Return(s)) \/ DropBox \/ WaitAll \/ UNCHANGED vars
    BY <1>t1, <1>9, PoolFrame, Zenon DEF Return, DropBox, WaitAll, vars
  <1>10. CASE CancelAll
    <2>1. /\ UNCHANGED <<state, active, idle, callback, conn>>
          /\ \A s \in Slot : aio'[s] = aio[s] \/ (s \in active /\ aio[s] = "pending" /\ aio'[s] = "canceled")
      BY <1>10 DEF CancelAll
    <2> QED BY <1>t, <1>t1, <2>1 DEF PoolConsistent, TypeOK
  <1> QED
    BY <1>1, <1>2, <1>3, <1>4, <1>5, <1>6, <1>7, <1>8, <1>9, <1>10 DEF Next, Callback

-----------------------------------------------------------------------------
(***************************************************************************)
(* The promises.                                                           *)
(***************************************************************************)

(* A callback or a destructor settles the promise of one id, breaks all    *)
(* that are left, or leaves them alone.                                    *)
LEMMA PromisesSettle ==
  ASSUME TypeOK, IdsAreFresh, PromisesFiled, UNCHANGED <<active, query, nextQueryID>>,
         \/ UNCHANGED <<pending, promise>>
         \/ \E s \in Slot, calls \in {<<"recv">>, <<"error", "recv">>}, outcome \in {"value", "error"} :
              Tell(s, calls, outcome)
         \/ \E b \in BOOLEAN : Break(b)
  PROVE  IdsAreFresh' /\ PromisesFiled' /\ pending' \subseteq pending
  <1>1. /\ pending' \subseteq pending
        /\ \A q \in Id : promise'[q] = "open" => promise[q] = "open" /\ q \in pending'
        /\ \A q \in pending' : promise'[q] = promise[q]
    <2>1. CASE UNCHANGED <<pending, promise>>
      BY <2>1 DEF PromisesFiled
    <2>2. ASSUME NEW s \in Slot, NEW calls, NEW outcome \in {"value", "error"}, Tell(s, calls, outcome)
          PROVE  /\ pending' \subseteq pending
                 /\ \A q \in Id : promise'[q] = "open" => promise[q] = "open" /\ q \in pending'
                 /\ \A q \in pending' : promise'[q] = promise[q]
      <3>1. /\ query[s] \in Id /\ pending \subseteq Id /\ pending' = pending \ {query[s]}
            /\ promise' = IF query[s] \in pending THEN [promise EXCEPT ![query[s]] = outcome] ELSE promise
        BY <2>2, Zenon DEF Tell, TypeOK
      <3>2. \A q \in Id : promise'[q] = IF q = query[s] /\ q \in pending THEN outcome ELSE promise[q]
        BY <3>1 DEF TypeOK
      <3> QED BY <3>1, <3>2 DEF PromisesFiled
    <2>3. ASSUME NEW b \in BOOLEAN, Break(b)
          PROVE  /\ pending' \subseteq pending
                 /\ \A q \in Id : promise'[q] = "open" => promise[q] = "open" /\ q \in pending'
                 /\ \A q \in pending' : promise'[q] = promise[q]
      BY <2>3 DEF Break, PromisesFiled
    <2> QED BY <2>1, <2>2, <2>3
  <1>2. IdsAreFresh'
    <2>1. \A q \in Id : q \in pending' \/ promise'[q] = "open" => q < nextQueryID
      BY <1>1 DEF IdsAreFresh
    <2> QED BY <2>1 DEF IdsAreFresh
  <1>3. PromisesFiled'
    BY <1>1, Zenon DEF PromisesFiled
  <1> QED BY <1>1, <1>2, <1>3

(* A callback that begins.                                                 *)
LEMMA EnterCleansUp ==
  ASSUME TypeOK, CleanedUp, NEW s \in Slot, NEW next \in {"reading", "next", "cleanup", "orphan"},
         Enter(s, next), pending' \subseteq pending,
         \A r \in Slot \ {s} : conn'[r] = conn[r],
         next \in {"cleanup", "orphan"} => ~conn'[s] /\ query[s] \notin pending'
  PROVE  CleanedUp'
  <1>1. /\ \A r \in Slot : callback'[r] = IF r = s THEN next ELSE callback[r]
        /\ UNCHANGED <<query, life, leaving>> /\ callback[s] = "none"
    BY DEF Enter, TypeOK, actionVars
  <1>2. HandlerAlive => HandlerAlive'
    BY <1>1 DEF HandlerAlive, Holds
  <1>3. \A r \in Slot : callback'[r] \in {"cleanup", "orphan"} => ~conn'[r] /\ query'[r] \notin pending'
    BY <1>1 DEF CleanedUp
  <1>4. ~HandlerAlive' => pending' = {}
    BY <1>2 DEF CleanedUp
  <1> QED BY <1>3, <1>4 DEF CleanedUp

(* Requests take a new id.                                                 *)
LEMMA RequestKeepsPromises ==
  ASSUME HttpInv, NEW c \in Caller, NEW s \in Slot, Request(c, s) \/ RequestDeclined(c, s)
  PROVE  CleanedUp' /\ IdsAreFresh' /\ PromisesFiled'
  <1>t. TypeOK /\ PoolConsistent /\ active \subseteq Slot
    BY Zenon DEF HttpInv, PoolConsistent, TypeOK
  <1>i. CleanedUp /\ IdsAreFresh /\ PromisesFiled
    BY DEF HttpInv
  <1>n. PICK n \in Id : n = nextQueryID /\ nextQueryID' = n + 1
    BY <1>t, NextId DEF Request, RequestDeclined
  <1>0. \A q \in Id : q \in Nat /\ n < n + 1 /\ (q < n => q # n /\ q < n + 1)
    BY <1>t, <1>n, NextId DEF Request, RequestDeclined
  <1>1. s \notin active
    BY <1>t, AllocateTakes, DeclinedPool DEF Request, RequestDeclined
  <1>2. /\ pending' = pending \cup {n} /\ UNCHANGED <<callback, conn, life>> /\ life = "alive"
        /\ active' = active \/ active' = active \cup {s}
        /\ \A r \in Slot : query'[r] = IF r = s THEN n ELSE query[r]
    BY <1>t, <1>n DEF Request, RequestDeclined, TypeOK
  <1>3. \/ active' = active \cup {s} /\ promise' = [promise EXCEPT ![n] = "open"]
        \/ active' = active /\ promise' = [promise EXCEPT ![n] = "declined"]
    BY <1>n DEF Request, RequestDeclined
  <1>4. /\ \A q \in Id : q # n => promise'[q] = promise[q]
        /\ promise'[n] \in {"open", "declined"}
        /\ promise'[n] = "open" => active' = active \cup {s}
    BY <1>t, <1>3 DEF TypeOK
  <1>5. \A r \in active : query[r] \in Id /\ query[r] < n /\ query[r] # n /\ query'[r] = query[r]
    BY <1>t, <1>i, <1>n, <1>0, <1>1, <1>2 DEF IdsAreFresh, TypeOK
  <1>6. CleanedUp'
    <2>1. HandlerAlive'
      BY <1>2 DEF HandlerAlive
    <2>2. \A r \in Slot : callback[r] \in {"cleanup", "orphan"} => r \in active
      BY <1>t DEF PoolConsistent
    <2> QED BY <1>i, <1>2, <1>5, <2>1, <2>2, Zenon DEF CleanedUp
  <1>7. IdsAreFresh'
    <2>1. \A q \in Id : q \in pending' \/ promise'[q] = "open" => q < n + 1
      BY <1>i, <1>n, <1>0, <1>2, <1>4, Zenon DEF IdsAreFresh
    <2>2. \A r \in active' : query'[r] < n + 1
      BY <1>0, <1>2, <1>5
    <2>3. \A q, r \in active' : query'[q] = query'[r] => q = r
      BY <1>i, <1>2, <1>5 DEF IdsAreFresh
    <2> QED BY <1>n, <2>1, <2>2, <2>3 DEF IdsAreFresh
  <1>8. PromisesFiled'
    <2>1. ASSUME NEW q \in Id, promise'[q] = "open"
          PROVE  q \in pending' /\ \E r \in active' : query'[r] = q
      <3>1. CASE q = n
        BY <1>2, <1>4, <2>1, <3>1, Zenon
      <3>2. CASE q # n
        <4>1. q \in pending /\ \E r \in active : query[r] = q
          BY <1>i, <1>4, <2>1, <3>2, Zenon DEF PromisesFiled
        <4> QED BY <1>2, <1>5, <4>1, Zenon
      <3> QED BY <3>1, <3>2
    <2>2. \A q \in pending' : promise'[q] \in {"open", "declined"}
      <3>1. pending \subseteq Id
        BY <1>t DEF TypeOK
      <3> QED BY <1>i, <1>2, <1>4, <3>1 DEF PromisesFiled
    <2> QED BY <2>1, <2>2 DEF PromisesFiled
  <1> QED BY <1>6, <1>7, <1>8

(* Promises are kept whatever else happens.                                *)
LEMMA PromisesStep == HttpInv /\ [Next]_vars => CleanedUp' /\ IdsAreFresh' /\ PromisesFiled'
  <1> SUFFICES ASSUME HttpInv, [Next]_vars PROVE CleanedUp' /\ IdsAreFresh' /\ PromisesFiled'
    OBVIOUS
  <1>t. TypeOK /\ PoolConsistent /\ CleanedUp /\ IdsAreFresh /\ PromisesFiled
    BY DEF HttpInv, PoolConsistent
  <1> USE DEF actionVars, boxVars
  <1>1. ASSUME NEW c \in Caller, NEW s \in Slot, Request(c, s) \/ RequestDeclined(c, s)
        PROVE  CleanedUp' /\ IdsAreFresh' /\ PromisesFiled'
    BY <1>1, RequestKeepsPromises
  <1>2. CASE \/ \E c \in Caller : GetFuture(c)
             \/ \E s \in Slot, r \in Outcome : Complete(s, r)
             \/ CancelAll \/ WaitAll \/ UNCHANGED vars
    <2>1. /\ UNCHANGED <<active, query, nextQueryID, pending, promise, callback, leaving, conn>>
          /\ life' = "alive" <=> life = "alive"
      BY <1>2 DEF GetFuture, Complete, CancelAll, WaitAll, vars
    <2>2. CleanedUp'
      BY <1>t, <2>1 DEF CleanedUp, HandlerAlive, Holds
    <2> QED BY <1>t, <2>1, <2>2, PromisesSettle
  <1>3. ASSUME NEW s \in Slot, CallbackNoHandler(s) PROVE CleanedUp' /\ IdsAreFresh' /\ PromisesFiled'
    <2>1. /\ Enter(s, "orphan") /\ conn' = [conn EXCEPT ![s] = FALSE] /\ pending = {}
          /\ UNCHANGED <<active, query, nextQueryID, pending, promise>>
      BY <1>t, <1>3, Zenon DEF CallbackNoHandler, Disconnect, Enter, CleanedUp
    <2>2. ~conn'[s] /\ \A r \in Slot \ {s} : conn'[r] = conn[r]
      BY <1>t, <2>1 DEF TypeOK
    <2>3. CleanedUp'
      BY <1>t, <2>1, <2>2, EnterCleansUp, Zenon
    <2> QED BY <1>t, <2>1, <2>3, PromisesSettle
  <1>4. ASSUME NEW s \in Slot,
               CallbackConnect(s) \/ CallbackSent(s) \/ CallbackRecvSome(s) \/ CallbackHangup(s)
        PROVE  CleanedUp' /\ IdsAreFresh' /\ PromisesFiled'
    <2>1. /\ Enter(s, "next") \/ Enter(s, "reading")
          /\ UNCHANGED conn \/ conn' = [conn EXCEPT ![s] = TRUE]
          /\ UNCHANGED <<pending, promise>>
      BY <1>4 DEF CallbackConnect, CallbackSent, CallbackRecvSome, CallbackHangup
    <2>2. UNCHANGED <<active, query, nextQueryID>> /\ \A r \in Slot \ {s} : conn'[r] = conn[r]
      BY <1>t, <2>1 DEF Enter, TypeOK
    <2>3. CleanedUp'
      BY <1>t, <2>1, <2>2, EnterCleansUp, Zenon
    <2> QED BY <1>t, <2>1, <2>2, <2>3, PromisesSettle
  <1>5. ASSUME NEW s \in Slot,
               \/ CallbackConnectStale(s) \/ CallbackRecvAll(s)
               \/ CallbackHangupComplete(s) \/ CallbackError(s)
        PROVE  CleanedUp' /\ IdsAreFresh' /\ PromisesFiled'
    <2>1. /\ Enter(s, "cleanup") /\ conn' = [conn EXCEPT ![s] = FALSE]
          /\ Tell(s, <<"recv">>, "value") \/ Tell(s, <<"error", "recv">>, "error")
      BY <1>5, Zenon DEF CallbackConnectStale, CallbackRecvAll, CallbackHangupComplete, CallbackError, Disconnect
    <2>2. /\ ~conn'[s] /\ \A r \in Slot \ {s} : conn'[r] = conn[r]
          /\ UNCHANGED <<active, query, nextQueryID>>
      BY <1>t, <2>1 DEF Enter, TypeOK
    <2>3. query[s] \notin pending' /\ pending' \subseteq pending
      BY <2>1 DEF Tell
    <2>4. CleanedUp'
      BY <1>t, <2>1, <2>2, <2>3, EnterCleansUp, Zenon
    <2>5. \E r \in Slot, calls \in {<<"recv">>, <<"error", "recv">>}, outcome \in {"value", "error"} :
            Tell(r, calls, outcome)
      BY <2>1
    <2> QED BY <1>t, <2>2, <2>4, <2>5, PromisesSettle
  <1>6. ASSUME NEW s \in Slot, EndSent(s) \/ FinishNext(s) PROVE CleanedUp' /\ IdsAreFresh' /\ PromisesFiled'
    <2>1. /\ UNCHANGED <<active, query, nextQueryID, conn, life, pending, promise>>
          /\ \/ callback'[s] = "next" /\ UNCHANGED leaving
             \/ callback'[s] = "none" /\ leaving' = leaving \cup {s}
          /\ \A r \in Slot \ {s} : callback'[r] = callback[r]
          /\ callback[s] \in {"reading", "next"}
      BY <1>t, <1>6 DEF EndSent, FinishNext, InHandler, TypeOK
    <2>2. HandlerAlive'
      BY <2>1 DEF HandlerAlive, Holds
    <2>3. CleanedUp'
      BY <1>t, <2>1, <2>2 DEF CleanedUp
    <2> QED BY <1>t, <2>1, <2>3, PromisesSettle
  <1>7. ASSUME NEW s \in Slot, Return(s) PROVE CleanedUp' /\ IdsAreFresh' /\ PromisesFiled'
    <2>1. UNCHANGED <<active, query, nextQueryID, conn, callback>> /\ Break(~HandlerAlive')
      BY <1>7, Zenon DEF Return
    <2>2. \E b \in BOOLEAN : Break(b)
      BY <2>1, Zenon
    <2>3. IdsAreFresh' /\ PromisesFiled' /\ pending' \subseteq pending
      BY <1>t, <2>1, <2>2, PromisesSettle, Zenon
    <2>4. ~HandlerAlive' => pending' = {}
      BY <2>1 DEF Break
    <2>5. \A r \in Slot : callback'[r] \in {"cleanup", "orphan"} => ~conn'[r] /\ query'[r] \notin pending'
      BY <1>t, <2>1, <2>3 DEF CleanedUp
    <2> QED BY <2>3, <2>4, <2>5 DEF CleanedUp
  <1>8. ASSUME NEW s \in Slot, FinishCleanup(s) PROVE CleanedUp' /\ IdsAreFresh' /\ PromisesFiled'
    <2>1. /\ UNCHANGED <<query, nextQueryID, conn, life, pending, promise>>
          /\ active' = active \ {s}
          /\ \A r \in Slot : callback'[r] = IF r = s THEN "none" ELSE callback[r]
          /\ callback[s] \in {"cleanup", "orphan"}
          /\ leaving' = IF callback[s] = "cleanup" THEN leaving \cup {s} ELSE leaving
      BY <1>t, <1>8 DEF FinishCleanup, TypeOK
    <2>2. HandlerAlive => HandlerAlive'
      BY <2>1 DEF HandlerAlive, Holds
    <2>3. CleanedUp'
      <3>1. \A r \in Slot : callback'[r] \in {"cleanup", "orphan"} => ~conn'[r] /\ query'[r] \notin pending'
        BY <1>t, <2>1 DEF CleanedUp
      <3>2. ~HandlerAlive' => pending' = {}
        BY <1>t, <2>1, <2>2 DEF CleanedUp
      <3> QED BY <3>1, <3>2 DEF CleanedUp
    <2>4. IdsAreFresh'
      BY <1>t, <2>1 DEF IdsAreFresh
    <2>5. query[s] \notin pending
      BY <1>t, <2>1 DEF CleanedUp
    <2>6. PromisesFiled'
      BY <1>t, <2>1, <2>5, Zenon DEF PromisesFiled
    <2> QED BY <2>3, <2>4, <2>6
  <1>9. CASE DropBox
    <2>1. /\ UNCHANGED <<active, query, nextQueryID, conn, callback, leaving>> /\ life' = "dropped"
          /\ Break(~\E s \in Slot : Holds(s))
      BY <1>9, Zenon DEF DropBox
    <2>2. \E b \in BOOLEAN : Break(b)
      BY <2>1, Zenon
    <2>3. IdsAreFresh' /\ PromisesFiled' /\ pending' \subseteq pending
      BY <1>t, <2>1, <2>2, PromisesSettle
    <2>4. ~HandlerAlive' => pending' = {}
      BY <2>1 DEF HandlerAlive, Holds, Break
    <2>5. \A r \in Slot : callback'[r] \in {"cleanup", "orphan"} => ~conn'[r] /\ query'[r] \notin pending'
      BY <1>t, <2>1, <2>3 DEF CleanedUp
    <2> QED BY <2>3, <2>4, <2>5 DEF CleanedUp
  <1> QED BY <1>1, <1>2, <1>3, <1>4, <1>5, <1>6, <1>7, <1>8, <1>9 DEF Next, Callback

-----------------------------------------------------------------------------
(* Actions and promises stay consistent while HttpClient recycles Actions. *)
THEOREM HttpInvariant == Spec => []HttpInv
  <1>1. HttpInv /\ [Next]_vars => HttpInv'
    BY PoolStep, PromisesStep DEF HttpInv
  <1> QED BY <1>1, InitHttp, PTL DEF Spec

(* A promise that waits is filed under one id that one Action works for,   *)
(* so the response of one query never settles the promise of another, and  *)
(* every Action is in one place, whoever holds the box while it goes.      *)
THEOREM QueriesStayConsistent == Spec => []QueriesConsistent
  <1>1. ASSUME HttpInv, NEW q \in Id, promise[q] = "open"
        PROVE  q \in pending /\ Cardinality({s \in active : query[s] = q}) = 1
    <2>1. PICK s \in active : query[s] = q
      BY <1>1 DEF HttpInv, PromisesFiled
    <2>2. {r \in active : query[r] = q} = {s}
      BY <1>1, <2>1 DEF HttpInv, IdsAreFresh
    <2> QED BY <1>1, <2>2, FS_Singleton DEF HttpInv, PromisesFiled
  <1>2. HttpInv => QueriesConsistent
    BY <1>1, Zenon DEF HttpInv, PromisesFiled, QueriesConsistent, ResponseMeetsItsPromise
  <1> QED BY <1>2, HttpInvariant, PTL
=============================================================================
