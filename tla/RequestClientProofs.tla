-------------------------- MODULE RequestClientProofs --------------------------
(***************************************************************************)
(* Proofs that the pool of Actions is consistent, that a response meets    *)
(* the promise of its own call although query ids are recycled, and that a *)
(* caller whom no other overtakes in request() gets the future which the   *)
(* response to its own message settles: for any number of callers, calls   *)
(* and Actions.                                                            *)
(***************************************************************************)
EXTENDS RequestClient, SequenceTheorems, TLAPS

(***************************************************************************)
(* The inductive invariant.  It holds in a corrupted state as well: nobody *)
(* acts any more once `pending` is corrupted.                              *)
(***************************************************************************)
PromisesFiled ==
  /\ \A s \in Slot : pending[s] # None =>
       IF s \in active
       THEN promise[pending[s]] = "open" /\ (pending[s] = query[s] \/ got[pending[s]] = "declined")
       ELSE promise[pending[s]] = "left"
  /\ \A k \in Call : promise[k] = "open" => \E s \in active : pending[s] = k

(* A promise is filed under one id.                                        *)
FiledOnce == \A r, s \in Slot : pending[r] # None /\ pending[r] = pending[s] => r = s

(* A call whose message a context carries, or whose promise is filed, has  *)
(* been made, so that no other message is sent and no other promise filed  *)
(* for it; what an Action in the pool still has filed is of a declined one.*)
FiledIsMade ==
  \A s \in Slot :
    /\ query[s] # None => ~Unmade(query[s])
    /\ pending[s] # None => ~Unmade(pending[s])
    /\ pending[s] # None /\ s \notin active => got[pending[s]] = "declined"

(* Nobody has returned from a call before getFuture, and each call is made *)
(* by one caller.                                                          *)
Visitors ==
  \A c \in Caller : at[c] # None =>
    /\ got[at[c].call] = "none"
    /\ \A d \in Caller : at[d] # None /\ at[d].call = at[c].call => d = c

(* A caller whom no other has overtaken: if a promise is filed under its   *)
(* id, the Action of that id carries its message.                          *)
AloneCarries ==
  \A c \in Caller : at[c] # None /\ at[c].alone /\ pending[at[c].id] # None =>
    at[c].id \in active /\ query[at[c].id] = at[c].call

(* An Action goes back to the pool without a promise: the handler settled  *)
(* it, or the box is gone and broke them all.                              *)
CleanedUp ==
  /\ \A s \in Slot : callback[s] = "cleanup" => pending[s] = None
  /\ ~HandlerAlive => \A s \in Slot : pending[s] = None

Promises == PromisesFiled /\ FiledOnce /\ FiledIsMade /\ Visitors /\ AloneCarries
RequestInv == PoolConsistent /\ Promises /\ CleanedUp

(* A new client has made no Action and no promise.                         *)
LEMMA InitRequest == Init => RequestInv
  <1> SUFFICES ASSUME Init PROVE RequestInv
    OBVIOUS
  <1> USE NoneAssumption, CallAssumption
  <1>0. fault \in BOOLEAN
    BY Zenon DEF Init
  <1>1. idle \in Seq(Slot) /\ Len(idle) = 0
    BY DEF Init
  <1>2. TypeOK
    BY <1>0, <1>1 DEF Init, TypeOK
  <1>3. PoolConsistent
    BY <1>1, <1>2 DEF Init, PoolConsistent
  <1>4. Promises /\ CleanedUp
    BY DEF Init, Promises, PromisesFiled, FiledOnce, FiledIsMade, Visitors, AloneCarries, CleanedUp
  <1> QED BY <1>3, <1>4 DEF RequestInv

(* What taking an Action from the pool does.                               *)
LEMMA AllocateTakes ==
  ASSUME PoolConsistent, NEW s \in Slot, Allocate(s)
  PROVE  /\ s \notin active
         /\ idle' \in Seq(Slot)
         /\ \A i \in 1 .. Len(idle') : idle'[i] # s
         /\ \A r \in active : \A i \in 1 .. Len(idle') : idle'[i] # r
         /\ \A i, j \in 1 .. Len(idle') : idle'[i] = idle'[j] => i = j
  <1>t. idle \in Seq(Slot)
    BY DEF PoolConsistent, TypeOK
  <1>1. CASE idle # <<>> /\ s = Head(idle) /\ idle' = Tail(idle)
    <2>1. /\ s = idle[1] /\ 1 \in 1 .. Len(idle) /\ Tail(idle) \in Seq(Slot)
          /\ Len(idle) \in Nat /\ Len(idle') = Len(idle) - 1
          /\ \A i \in 1 .. Len(idle') : i + 1 \in 1 .. Len(idle) /\ idle'[i] = idle[i + 1]
      BY <1>t, <1>1, HeadTailProperties
    <2>2. s \notin active
      BY <2>1 DEF PoolConsistent
    <2>3. \A i \in 1 .. Len(idle') : i + 1 # 1
      BY <2>1
    <2>4. \A i \in 1 .. Len(idle') : idle'[i] # s
      BY <2>1, <2>3 DEF PoolConsistent
    <2>5. \A i, j \in 1 .. Len(idle') : i + 1 = j + 1 => i = j
      BY <2>1
    <2>6. \A i, j \in 1 .. Len(idle') : idle'[i] = idle'[j] => i = j
      BY <2>1, <2>5 DEF PoolConsistent
    <2>7. \A r \in active : \A i \in 1 .. Len(idle') : idle'[i] # r
      BY <2>1 DEF PoolConsistent
    <2> QED BY <1>1, <2>1, <2>2, <2>4, <2>6, <2>7
  <1>2. CASE idle = <<>> /\ ~Pooled(s) /\ UNCHANGED idle
    <2>1. Len(idle') = 0
      BY <1>2
    <2> QED BY <1>t, <1>2, <2>1 DEF Pooled
  <1> QED BY <1>1, <1>2 DEF Allocate

(* What a declined request does to the pool: the Action is in front.       *)
LEMMA DeclinedPool ==
  ASSUME PoolConsistent, NEW s \in Slot,
         \/ idle # <<>> /\ s = Head(idle) /\ UNCHANGED idle
         \/ idle = <<>> /\ ~Pooled(s) /\ idle' = <<s>>
  PROVE  /\ s \notin active
         /\ idle' \in Seq(Slot)
         /\ \A r \in active : \A i \in 1 .. Len(idle') : idle'[i] # r
         /\ \A i, j \in 1 .. Len(idle') : idle'[i] = idle'[j] => i = j
  <1>t. idle \in Seq(Slot)
    BY DEF PoolConsistent, TypeOK
  <1>1. CASE idle # <<>> /\ s = Head(idle) /\ UNCHANGED idle
    <2>1. s = idle[1] /\ 1 \in 1 .. Len(idle)
      BY <1>t, <1>1, HeadTailProperties
    <2> QED BY <1>t, <1>1, <2>1 DEF PoolConsistent
  <1>2. CASE idle = <<>> /\ ~Pooled(s) /\ idle' = <<s>>
    <2>1. Len(idle') = 1 /\ idle'[1] = s /\ idle' \in Seq(Slot)
      BY <1>2
    <2> QED BY <1>2, <2>1 DEF Pooled
  <1> QED BY <1>1, <1>2

(* What a call that enters request() does to the others on their way.      *)
LEMMA Overtaking ==
  ASSUME TypeOK, NEW d \in Caller
  PROVE  /\ Overtaken(d) \in Visit \cup {None}
         /\ Overtaken(d) = None <=> at[d] = None
         /\ at[d] # None => /\ Overtaken(d).call = at[d].call
                            /\ Overtaken(d).alone = FALSE
  <1>1. CASE at[d] = None
    BY <1>1, Zenon DEF Overtaken
  <1>2. CASE at[d] # None
    <2>1. at[d] \in Visit
      BY <1>2 DEF TypeOK
    <2>2. Overtaken(d) = [at[d] EXCEPT !.alone = FALSE]
      BY <1>2, Zenon DEF Overtaken
    <2>3. /\ Overtaken(d) \in Visit
          /\ Overtaken(d).call = at[d].call /\ Overtaken(d).alone = FALSE
      BY <2>1, <2>2 DEF Visit
    <2> QED BY <1>2, <2>3, NoneAssumption
  <1> QED BY <1>1, <1>2

(* The promise that a call finds or files is that of some call.            *)
LEMMA FiledTypes ==
  ASSUME TypeOK, NEW k \in Call, NEW s \in Slot
  PROVE  Filed(k, s) \in Call
  BY DEF TypeOK, Filed

(* Promises settled or broken keep their types.                            *)
LEMMA SettledTypes ==
  ASSUME TypeOK, NEW s \in Slot,
         \/ Settle(s, "value") \/ Settle(s, "error") \/ UNCHANGED <<pending, promise>>
         \/ \E b \in BOOLEAN : Break(b)
  PROVE  /\ pending' \in [Slot -> Call \cup {None}]
         /\ promise' \in [Call -> {"none", "left", "open", "value", "error", "broken"}]
  BY DEF TypeOK, Settle, Break

(* The types are kept.                                                     *)
LEMMA TypeStep == PoolConsistent /\ [Next]_vars => TypeOK'
  <1> SUFFICES ASSUME PoolConsistent, [Next]_vars PROVE TypeOK'
    OBVIOUS
  <1>t. TypeOK
    BY DEF PoolConsistent
  <1> USE DEF poolVars, boxVars, userVars
  <1>1. ASSUME NEW c \in Caller, NEW k \in Call, NEW s \in Slot, Request(c, k, s) PROVE TypeOK'
    <2>1. idle' \in Seq(Slot)
      BY <1>1, AllocateTakes DEF Request
    <2>2. fault' \in BOOLEAN
      BY <1>1, Zenon DEF Request, ChangesPending
    <2>3. at' \in [Caller -> Visit \cup {None}]
      <3>1. [call |-> k, id |-> s, alone |-> TRUE] \in Visit
        BY DEF Visit
      <3> QED BY <1>t, <1>1, <3>1, Overtaking DEF Request
    <2>4. /\ pending' \in [Slot -> Call \cup {None}]
          /\ promise' \in [Call -> {"none", "left", "open", "value", "error", "broken"}]
      BY <1>t, <1>1, FiledTypes DEF Request, TypeOK
    <2> QED BY <1>t, <1>1, <2>1, <2>2, <2>3, <2>4 DEF Request, TypeOK
  <1>2. ASSUME NEW c \in Caller, NEW k \in Call, NEW s \in Slot, RequestDeclined(c, k, s) PROVE TypeOK'
    <2>1. idle' \in Seq(Slot)
      BY <1>2, DeclinedPool DEF RequestDeclined
    <2>2. fault' \in BOOLEAN
      BY <1>2, Zenon DEF RequestDeclined, ChangesPending
    <2>3. at' \in [Caller -> Visit \cup {None}]
      BY <1>t, <1>2, Overtaking DEF RequestDeclined
    <2>4. /\ pending' \in [Slot -> Call \cup {None}]
          /\ promise' \in [Call -> {"none", "left", "open", "value", "error", "broken"}]
      BY <1>t, <1>2, FiledTypes DEF RequestDeclined, TypeOK
    <2> QED BY <1>t, <1>2, <2>1, <2>2, <2>3, <2>4 DEF RequestDeclined, TypeOK
  <1>3. ASSUME NEW c \in Caller, GetFuture(c) PROVE TypeOK'
    <2>1. at[c].call \in Call /\ at[c].id \in Slot
      BY <1>t, <1>3 DEF GetFuture, TypeOK, Visit
    <2>2. /\ got' \in [Call -> Call \cup {"none", "declined", "threw"}]
          /\ newQueryID' \in Slot \cup {None}
      BY <1>t, <1>3, <2>1 DEF GetFuture, TypeOK
    <2>3. at' \in [Caller -> Visit \cup {None}]
      BY <1>t, <1>3 DEF GetFuture, TypeOK
    <2> QED BY <1>t, <1>3, <2>2, <2>3, Zenon DEF GetFuture, TypeOK
  <1>4. ASSUME NEW s \in Slot, NEW r \in {"success", "error"}, Complete(s, r) PROVE TypeOK'
    BY <1>t, <1>4 DEF Complete, TypeOK
  <1>5. ASSUME NEW s \in Slot, CallbackNoHandler(s) \/ CallbackSent(s) PROVE TypeOK'
    BY <1>t, <1>5, Zenon DEF CallbackNoHandler, CallbackSent, Enter, TypeOK
  <1>6. ASSUME NEW s \in Slot, CallbackRecv(s) \/ CallbackError(s) PROVE TypeOK'
    <2>1. Settle(s, "value") \/ Settle(s, "error")
      BY <1>6 DEF CallbackRecv, CallbackError
    <2>2. /\ pending' \in [Slot -> Call \cup {None}]
          /\ promise' \in [Call -> {"none", "left", "open", "value", "error", "broken"}]
      BY <1>t, <2>1, SettledTypes
    <2>3. fault' \in BOOLEAN
      BY <2>1, Zenon DEF Settle, ChangesPending
    <2>4. Enter(s, "cleanup") /\ UNCHANGED newQueryID
      BY <1>6 DEF CallbackRecv, CallbackError
    <2> QED BY <1>t, <2>2, <2>3, <2>4 DEF Enter, TypeOK
  <1>7. ASSUME NEW s \in Slot, EndSent(s) PROVE TypeOK'
    <2>1. \E b \in BOOLEAN : Break(b)
      BY <1>7, Zenon DEF EndSent
    <2>2. /\ pending' \in [Slot -> Call \cup {None}]
          /\ promise' \in [Call -> {"none", "left", "open", "value", "error", "broken"}]
      BY <1>t, <2>1, SettledTypes
    <2> QED BY <1>t, <1>7, <2>2, Zenon DEF EndSent, TypeOK
  <1>8. ASSUME NEW s \in Slot, FinishSent(s) PROVE TypeOK'
    BY <1>t, <1>8 DEF FinishSent, TypeOK
  <1>9. ASSUME NEW s \in Slot, FinishCleanup(s) PROVE TypeOK'
    <2>1. idle' \in Seq(Slot)
      BY <1>t, <1>9, AppendProperties DEF FinishCleanup, TypeOK
    <2> QED BY <1>t, <1>9, <2>1 DEF FinishCleanup, TypeOK
  <1>10. CASE DropBox
    <2>1. \E b \in BOOLEAN : Break(b)
      BY <1>10, Zenon DEF DropBox
    <2>2. /\ pending' \in [Slot -> Call \cup {None}]
          /\ promise' \in [Call -> {"none", "left", "open", "value", "error", "broken"}]
      BY <1>t, <2>1 DEF TypeOK, Break
    <2> QED BY <1>t, <1>10, <2>2 DEF DropBox, TypeOK
  <1>11. CASE CancelAll \/ WaitAll
    BY <1>t, <1>11 DEF CancelAll, WaitAll, TypeOK
  <1>12. CASE UNCHANGED vars
    BY <1>t, <1>12 DEF vars, TypeOK
  <1> QED BY <1>1, <1>2, <1>3, <1>4, <1>5, <1>6, <1>7, <1>8, <1>9, <1>10, <1>11, <1>12 DEF Next, Callback

-----------------------------------------------------------------------------
(***************************************************************************)
(* The pool.                                                               *)
(***************************************************************************)

(* Steps on one active Action that keep it active: it has an operation or  *)
(* a callback under way afterwards.                                        *)
LEMMA PoolMovesOn ==
  ASSUME PoolConsistent, TypeOK', UNCHANGED <<active, idle>>,
         NEW s \in active,
         state'[s] \in {"SEND", "RECV"}, aio'[s] = "none" <=> callback'[s] # "none",
         \A r \in Slot \ {s} : state'[r] = state[r] /\ aio'[r] = aio[r] /\ callback'[r] = callback[r]
  PROVE  PoolConsistent'
  <1>1. active \subseteq Slot
    BY DEF PoolConsistent, TypeOK
  <1> QED BY <1>1 DEF PoolConsistent

(* Steps that leave the pool alone.                                        *)
LEMMA PoolFrame ==
  ASSUME PoolConsistent, TypeOK', UNCHANGED <<state, active, idle, aio, callback>>
  PROVE  PoolConsistent'
  BY DEF PoolConsistent

(* An Action is in one place, whatever happens.                            *)
LEMMA PoolStep == PoolConsistent /\ [Next]_vars => PoolConsistent'
  <1> SUFFICES ASSUME PoolConsistent, [Next]_vars PROVE PoolConsistent'
    OBVIOUS
  <1>t. TypeOK
    BY DEF PoolConsistent
  <1>t1. TypeOK'
    BY TypeStep
  <1>0. \A s \in Slot : aio[s] # "none" \/ callback[s] # "none" => s \in active
    BY DEF PoolConsistent
  <1> USE DEF poolVars
  <1>1. ASSUME NEW c \in Caller, NEW k \in Call, NEW s \in Slot, Request(c, k, s)
        PROVE  PoolConsistent'
    <2>1. /\ s \notin active
          /\ \A i \in 1 .. Len(idle') : idle'[i] # s
          /\ \A r \in active : \A i \in 1 .. Len(idle') : idle'[i] # r
          /\ \A i, j \in 1 .. Len(idle') : idle'[i] = idle'[j] => i = j
      BY <1>1, AllocateTakes DEF Request
    <2>2. /\ active' = active \cup {s} /\ callback' = callback
          /\ \A r \in Slot : /\ state'[r] = IF r = s THEN "SEND" ELSE state[r]
                             /\ aio'[r] = IF r = s THEN "pending" ELSE aio[r]
      BY <1>t, <1>1 DEF Request, TypeOK
    <2>3. callback[s] = "none"
      BY <2>1 DEF PoolConsistent
    <2> QED BY <1>t, <1>t1, <2>1, <2>2, <2>3 DEF PoolConsistent, TypeOK
  <1>2. ASSUME NEW c \in Caller, NEW k \in Call, NEW s \in Slot, RequestDeclined(c, k, s)
        PROVE  PoolConsistent'
    <2>1. /\ \A r \in active : \A i \in 1 .. Len(idle') : idle'[i] # r
          /\ \A i, j \in 1 .. Len(idle') : idle'[i] = idle'[j] => i = j
      BY <1>2, DeclinedPool DEF RequestDeclined
    <2> QED BY <1>t1, <1>2, <2>1 DEF RequestDeclined, PoolConsistent
  <1>3. ASSUME NEW c \in Caller, GetFuture(c) PROVE PoolConsistent'
    BY <1>t1, <1>3, PoolFrame DEF GetFuture
  <1>4. ASSUME NEW s \in Slot, NEW r \in {"success", "error"}, Complete(s, r) PROVE PoolConsistent'
    <2>1. s \in active /\ callback[s] = "none" /\ state[s] \in {"SEND", "RECV"}
      BY <1>0, <1>4 DEF Complete, PoolConsistent
    <2>2. /\ UNCHANGED <<active, idle, state, callback>>
          /\ aio'[s] = r /\ \A x \in Slot \ {s} : aio'[x] = aio[x]
      BY <1>t, <1>4 DEF Complete, TypeOK
    <2> QED BY <1>t1, <2>1, <2>2, PoolMovesOn
  <1>5. ASSUME NEW s \in Slot, NEW next \in {"reading", "cleanup"}, Enter(s, next) PROVE PoolConsistent'
    <2>1. s \in active /\ state[s] \in {"SEND", "RECV"}
      BY <1>0, <1>5 DEF Enter, PoolConsistent
    <2>2. /\ UNCHANGED <<active, idle, state>>
          /\ aio'[s] = "none" /\ \A x \in Slot \ {s} : aio'[x] = aio[x]
          /\ callback'[s] = next /\ \A x \in Slot \ {s} : callback'[x] = callback[x]
      BY <1>t, <1>5 DEF Enter, TypeOK
    <2> QED BY <1>t1, <2>1, <2>2, PoolMovesOn
  <1>6. ASSUME NEW s \in Slot, EndSent(s) PROVE PoolConsistent'
    <2>1. s \in active /\ state[s] \in {"SEND", "RECV"} /\ aio[s] = "none"
      BY <1>0, <1>6 DEF EndSent, InHandler, PoolConsistent
    <2>2. /\ UNCHANGED <<active, idle, state, aio>>
          /\ callback'[s] = "sent" /\ \A x \in Slot \ {s} : callback'[x] = callback[x]
      BY <1>t, <1>6 DEF EndSent, TypeOK
    <2> QED BY <1>t1, <2>1, <2>2, PoolMovesOn
  <1>7. ASSUME NEW s \in Slot, FinishSent(s) PROVE PoolConsistent'
    <2>1. s \in active
      BY <1>0, <1>7 DEF FinishSent
    <2>2. /\ UNCHANGED <<active, idle>>
          /\ state'[s] = "RECV" /\ \A x \in Slot \ {s} : state'[x] = state[x]
          /\ aio'[s] = "pending" /\ \A x \in Slot \ {s} : aio'[x] = aio[x]
          /\ callback'[s] = "none" /\ \A x \in Slot \ {s} : callback'[x] = callback[x]
      BY <1>t, <1>7 DEF FinishSent, TypeOK
    <2> QED BY <1>t1, <2>1, <2>2, PoolMovesOn
  <1>8. ASSUME NEW s \in Slot, FinishCleanup(s) PROVE PoolConsistent'
    <2>1. s \in active /\ aio[s] = "none" /\ \A i \in 1 .. Len(idle) : idle[i] # s
      BY <1>0, <1>8 DEF FinishCleanup, PoolConsistent
    <2>2. /\ active' = active \ {s} /\ UNCHANGED aio
          /\ \A x \in Slot : /\ state'[x] = IF x = s THEN "IDLE" ELSE state[x]
                             /\ callback'[x] = IF x = s THEN "none" ELSE callback[x]
      BY <1>t, <1>8 DEF FinishCleanup, TypeOK
    <2>3. /\ \A i \in 1 .. Len(idle) : idle'[i] = idle[i]
          /\ idle'[Len(idle) + 1] = s
          /\ \A i \in 1 .. Len(idle') : i = Len(idle) + 1 \/ i \in 1 .. Len(idle)
      BY <1>t, <1>8, AppendProperties DEF FinishCleanup, TypeOK
    <2>4. \A i, j \in 1 .. Len(idle') : idle'[i] = idle'[j] => i = j
      BY <2>1, <2>3 DEF PoolConsistent
    <2>5. \A r \in active' : \A i \in 1 .. Len(idle') : idle'[i] # r
      BY <2>2, <2>3 DEF PoolConsistent
    <2> QED BY <1>t, <1>t1, <2>1, <2>2, <2>4, <2>5 DEF PoolConsistent, TypeOK
  <1>9. CASE DropBox \/ WaitAll \/ UNCHANGED vars
    BY <1>t1, <1>9, PoolFrame, Zenon DEF DropBox, WaitAll, vars
  <1>10. CASE CancelAll
    <2>1. /\ UNCHANGED <<state, active, idle, callback>>
          /\ \A s \in Slot : aio'[s] = aio[s] \/ (s \in active /\ aio[s] = "pending" /\ aio'[s] = "canceled")
      BY <1>10 DEF CancelAll
    <2> QED BY <1>t, <1>t1, <2>1 DEF PoolConsistent, TypeOK
  <1>11. ASSUME NEW s \in Slot,
                CallbackNoHandler(s) \/ CallbackSent(s) \/ CallbackRecv(s) \/ CallbackError(s)
         PROVE  PoolConsistent'
    BY <1>5, <1>11 DEF CallbackNoHandler, CallbackSent, CallbackRecv, CallbackError
  <1> QED
    BY <1>1, <1>2, <1>3, <1>4, <1>6, <1>7, <1>8, <1>9, <1>10, <1>11 DEF Next, Callback

-----------------------------------------------------------------------------
(***************************************************************************)
(* The promises.                                                           *)
(***************************************************************************)
(* Steps of callbacks and of the destructor: callers, ids and contexts     *)
(* stay, and each Action in the pool or promise in the box stays or goes.  *)
LEMMA PromisesSettle ==
  ASSUME Promises, TypeOK, UNCHANGED <<query, at, got>>,
         \/ UNCHANGED <<pending, promise>>
         \/ \E s \in Slot : Settle(s, "value") \/ Settle(s, "error")
         \/ \E b \in BOOLEAN : Break(b),
         active' \subseteq active,
         \A s \in active : s \in active' \/ pending'[s] = None
  PROVE  Promises'
  <1> USE NoneAssumption
  <1>0. \A k : Unmade(k)' <=> Unmade(k)
    BY DEF Unmade
  <1>1. \A s \in Slot : pending'[s] = pending[s] \/ pending'[s] = None
    BY DEF Settle, Break, TypeOK
  <1>2. FiledOnce'
    BY <1>1 DEF Promises, FiledOnce
  <1>3. FiledIsMade'
    BY <1>0, <1>1, Zenon DEF Promises, FiledIsMade
  <1>4. Visitors'
    BY Zenon DEF Promises, Visitors
  <1>5. AloneCarries'
    <2> SUFFICES ASSUME NEW c \in Caller, at[c] # None, at[c].alone, pending'[at[c].id] # None
                 PROVE  at[c].id \in active' /\ query[at[c].id] = at[c].call
      BY Zenon DEF AloneCarries
    <2>1. at[c].id \in Slot
      BY DEF TypeOK, Visit
    <2>2. pending[at[c].id] # None
      BY <1>1, <2>1
    <2> QED BY <2>2, Zenon DEF Promises, AloneCarries
  <1>6. PromisesFiled'
    <2>1. CASE UNCHANGED <<pending, promise>>
      <3>1. \A s \in Slot : pending'[s] # None => (s \in active' <=> s \in active)
        BY <2>1, Zenon
      <3>2. \A s \in active : pending[s] # None => s \in active'
        BY <2>1, Zenon
      <3>3. \A k \in Call : promise'[k] = "open" => \E s \in active' : pending'[s] = k
        BY <2>1, <3>2 DEF Promises, PromisesFiled
      <3>4. \A s \in Slot : pending'[s] # None =>
              IF s \in active'
              THEN promise'[pending'[s]] = "open" /\ (pending'[s] = query'[s] \/ got'[pending'[s]] = "declined")
              ELSE promise'[pending'[s]] = "left"
        BY <2>1, <3>1, Zenon DEF Promises, PromisesFiled
      <3> QED BY <3>3, <3>4, Zenon DEF PromisesFiled
    <2>2. ASSUME NEW s \in Slot, NEW how \in {"value", "error"}, Settle(s, how) PROVE PromisesFiled'
      <3>1. /\ \A r \in Slot : pending'[r] = IF r = s THEN None ELSE pending[r]
            /\ \A k \in Call : promise'[k] = IF k = pending[s] THEN how ELSE promise[k]
        BY <2>2 DEF Settle, TypeOK
      <3>2. \A r \in Slot : pending'[r] # None =>
              pending'[r] = pending[r] /\ pending[r] # pending[s] /\ (r \in active' <=> r \in active)
        BY <3>1 DEF Promises, FiledOnce
      <3>3. \A r \in Slot : pending'[r] # None => pending'[r] \in Call
        BY <3>2 DEF TypeOK
      <3>4. \A r \in Slot : pending'[r] # None => promise'[pending'[r]] = promise[pending[r]]
        BY <3>1, <3>2, <3>3
      <3>5. ASSUME NEW r \in Slot, pending'[r] # None
            PROVE  IF r \in active'
                   THEN promise'[pending'[r]] = "open" /\ (pending'[r] = query'[r] \/ got'[pending'[r]] = "declined")
                   ELSE promise'[pending'[r]] = "left"
        <4>1. IF r \in active
              THEN promise[pending[r]] = "open" /\ (pending[r] = query[r] \/ got[pending[r]] = "declined")
              ELSE promise[pending[r]] = "left"
          BY <3>2, <3>5, Zenon DEF Promises, PromisesFiled
        <4> QED BY <3>2, <3>4, <3>5, <4>1
      <3>6. ASSUME NEW k \in Call, promise'[k] = "open" PROVE \E r \in active' : pending'[r] = k
        <4>1. k # pending[s] /\ promise[k] = "open"
          BY <3>1, <3>6
        <4>2. PICK r \in active : pending[r] = k
          BY <4>1 DEF Promises, PromisesFiled
        <4>3. r \in Slot /\ r # s /\ pending'[r] = k
          BY <3>1, <4>1, <4>2 DEF TypeOK
        <4> QED BY <4>2, <4>3
      <3> QED BY <3>5, <3>6, Zenon DEF PromisesFiled
    <2>3. ASSUME NEW b \in BOOLEAN, Break(b) PROVE PromisesFiled'
      <3>1. CASE ~b
        BY <2>1, <2>3, <3>1 DEF Break
      <3>2. CASE b
        BY <2>3, <3>2 DEF Break, PromisesFiled
      <3> QED BY <3>1, <3>2
    <2> QED BY <2>1, <2>2, <2>3
  <1> QED BY <1>2, <1>3, <1>4, <1>5, <1>6 DEF Promises

(* A call that has been made stays made when another one enters.           *)
LEMMA MadeStaysMade ==
  ASSUME TypeOK, NEW c \in Caller, at[c] = None, NEW k \in Call,
         \A d \in Caller \ {c} : at'[d] = Overtaken(d),
         \A j \in Call \ {k} : got'[j] = got[j]
  PROVE  \A j \in Call \ {k} : ~Unmade(j) => ~Unmade(j)'
  <1> SUFFICES ASSUME NEW j \in Call \ {k}, ~Unmade(j) PROVE ~Unmade(j)'
    OBVIOUS
  <1>1. CASE got[j] # "none"
    BY <1>1 DEF Unmade
  <1>2. ASSUME NEW d \in Caller, at[d] # None, at[d].call = j PROVE ~Unmade(j)'
    <2>1. at'[d] # None /\ at'[d].call = j
      BY <1>2, Overtaking
    <2> QED BY <2>1 DEF Unmade
  <1> QED BY <1>1, <1>2 DEF Unmade

(* A new request opens the promise under its id: its own, or one that a    *)
(* declined call left there.                                               *)
LEMMA RequestPromises ==
  ASSUME RequestInv, NEW c \in Caller, NEW k \in Call, NEW s \in Slot, Request(c, k, s)
  PROVE  Promises'
  <1> USE NoneAssumption, CallAssumption
  <1>t. TypeOK /\ PoolConsistent /\ Promises
    BY DEF RequestInv, PoolConsistent
  <1>f. PICK f \in Call : f = Filed(k, s)
    BY <1>t, FiledTypes
  <1> DEFINE visit == [call |-> k, id |-> s, alone |-> TRUE]
  <1>0. s \notin active
    BY <1>t, AllocateTakes DEF Request
  <1>1. /\ active' = active \cup {s} /\ UNCHANGED got
        /\ \A r \in Slot : pending'[r] = IF r = s THEN f ELSE pending[r]
        /\ \A r \in Slot : query'[r] = IF r = s THEN k ELSE query[r]
        /\ \A j \in Call : promise'[j] = IF j = f THEN "open" ELSE promise[j]
        /\ \A d \in Caller : at'[d] = IF d = c THEN visit ELSE Overtaken(d)
    BY <1>t, <1>f DEF Request, TypeOK
  <1>2. at[c] = None /\ Unmade(k) /\ k # None /\ got[k] = "none"
    BY DEF Request, Unmade
  <1>3. \A r \in Slot : pending[r] # k /\ query[r] # k
    BY <1>t, <1>2, Zenon DEF Promises, FiledIsMade
  <1>4. f # k => f = pending[s] /\ pending[s] # None /\ got[f] = "declined"
    BY <1>t, <1>f, <1>0, <1>2 DEF Promises, FiledIsMade, Filed
  <1>5. \A r \in Slot : r # s => pending[r] # f
    BY <1>t, <1>0, <1>3, <1>4, Zenon DEF Promises, FiledOnce
  <1>6. visit # None /\ visit.call = k /\ visit.id = s
    <2>1. visit \in Visit
      BY DEF Visit
    <2>2. visit # None
      BY <2>1, Zenon
    <2> QED BY <2>2
  <1>7. \A d \in Caller \ {c} : /\ at'[d] = None <=> at[d] = None
                                /\ at[d] # None => at'[d].call = at[d].call /\ at'[d].alone = FALSE
    BY <1>t, <1>1, Overtaking
  <1> HIDE DEF visit
  <1>8. PromisesFiled'
    <2>1. ASSUME NEW r \in Slot, pending'[r] # None
          PROVE  IF r \in active'
                 THEN promise'[pending'[r]] = "open" /\ (pending'[r] = query'[r] \/ got'[pending'[r]] = "declined")
                 ELSE promise'[pending'[r]] = "left"
      <3>1. CASE r = s
        BY <1>0, <1>1, <1>4, <3>1, Zenon
      <3>2. CASE r # s
        <4>1. pending'[r] = pending[r] /\ query'[r] = query[r] /\ (r \in active' <=> r \in active)
          BY <1>1, <3>2
        <4>2. pending[r] \in Call
          BY <1>t, <2>1, <4>1 DEF TypeOK
        <4>3. promise'[pending[r]] = promise[pending[r]]
          BY <1>1, <1>5, <3>2, <4>2
        <4> QED BY <1>t, <1>1, <2>1, <4>1, <4>3, Zenon DEF Promises, PromisesFiled
      <3> QED BY <3>1, <3>2
    <2>2. ASSUME NEW j \in Call, promise'[j] = "open" PROVE \E r \in active' : pending'[r] = j
      <3>1. CASE j = f
        BY <1>1, <3>1
      <3>2. CASE j # f
        <4>1. PICK r \in active : pending[r] = j
          BY <1>t, <1>1, <2>2, <3>2 DEF Promises, PromisesFiled
        <4>2. r \in Slot /\ r # s /\ r \in active'
          BY <1>t, <1>0, <1>1 DEF TypeOK
        <4> QED BY <1>1, <4>1, <4>2
      <3> QED BY <3>1, <3>2
    <2> QED BY <2>1, <2>2, Zenon DEF PromisesFiled
  <1>9. FiledOnce'
    BY <1>1, <1>5, <1>t DEF Promises, FiledOnce
  <1>10. FiledIsMade'
    <2>1. ~Unmade(k)'
      BY <1>1, <1>6 DEF Unmade
    <2>2. \A j \in Call \ {k} : ~Unmade(j) => ~Unmade(j)'
      BY <1>t, <1>1, <1>2, MadeStaysMade
    <2>3. ~Unmade(f)'
      BY <1>0, <1>1, <1>4, <2>1 DEF Unmade
    <2> SUFFICES ASSUME NEW r \in Slot
                 PROVE  /\ query'[r] # None => ~Unmade(query[r])'
                        /\ pending'[r] # None => ~Unmade(pending[r])'
                        /\ pending'[r] # None /\ r \notin active' => got'[pending'[r]] = "declined"
      BY DEF FiledIsMade
    <2>4. CASE r = s
      BY <1>1, <2>1, <2>3, <2>4, Zenon DEF Unmade
    <2>5. CASE r # s
      <3>1. pending'[r] = pending[r] /\ query'[r] = query[r] /\ (r \in active' <=> r \in active)
        BY <1>1, <2>5
      <3>2. query[r] \in Call \cup {None} /\ pending[r] \in Call \cup {None}
        BY <1>t DEF TypeOK
      <3>3. query[r] # None => ~Unmade(query[r]) /\ query[r] \in Call \ {k}
        BY <1>t, <1>3, <3>2 DEF Promises, FiledIsMade
      <3>4. pending[r] # None => ~Unmade(pending[r]) /\ pending[r] \in Call \ {k}
        BY <1>t, <1>3, <3>2 DEF Promises, FiledIsMade
      <3>5. pending[r] # None /\ r \notin active => got[pending[r]] = "declined"
        BY <1>t DEF Promises, FiledIsMade
      <3> DEFINE q == query[r]
                 p == pending[r]
      <3>6. (q # None => ~Unmade(q)') /\ (p # None => ~Unmade(p)')
        BY <2>2, <3>1, <3>3, <3>4 DEF Unmade
      <3> QED BY <1>1, <3>1, <3>5, <3>6
    <2> QED BY <2>4, <2>5
  <1>11. Visitors'
    <2> SUFFICES ASSUME NEW d \in Caller, at'[d] # None
                 PROVE  /\ got'[at'[d].call] = "none"
                        /\ \A e \in Caller : at'[e] # None /\ at'[e].call = at'[d].call => e = d
      BY DEF Visitors
    <2>1. \A e \in Caller : at'[e] # None => IF e = c THEN at'[e].call = k
                                             ELSE at[e] # None /\ at'[e].call = at[e].call
      BY <1>1, <1>6, <1>7
    <2>2. \A e \in Caller : at[e] # None => at[e].call # k
      BY <1>2 DEF Unmade
    <2> QED BY <1>t, <1>1, <1>2, <2>1, <2>2 DEF Promises, Visitors
  <1>12. AloneCarries'
    <2> SUFFICES ASSUME NEW d \in Caller, at'[d] # None, at'[d].alone
                 PROVE  at'[d].id \in active' /\ query'[at'[d].id] = at'[d].call
      BY DEF AloneCarries
    <2>1. d = c
      BY <1>7
    <2> QED BY <1>1, <1>6, <2>1
  <1> QED BY <1>8, <1>9, <1>10, <1>11, <1>12 DEF Promises

(* A declined request leaves a promise that no message goes with.          *)
LEMMA DeclinedPromises ==
  ASSUME RequestInv, NEW c \in Caller, NEW k \in Call, NEW s \in Slot, RequestDeclined(c, k, s)
  PROVE  Promises'
  <1> USE NoneAssumption, CallAssumption
  <1>t. TypeOK /\ PoolConsistent /\ Promises
    BY DEF RequestInv, PoolConsistent
  <1>f. PICK f \in Call : f = Filed(k, s)
    BY <1>t, FiledTypes
  <1>0. s \notin active
    BY <1>t, DeclinedPool DEF RequestDeclined
  <1>1. /\ UNCHANGED <<active, query>>
        /\ \A r \in Slot : pending'[r] = IF r = s THEN f ELSE pending[r]
        /\ \A j \in Call : promise'[j] = IF j = f THEN "left" ELSE promise[j]
        /\ \A j \in Call : got'[j] = IF j = k THEN "declined" ELSE got[j]
        /\ \A d \in Caller : at'[d] = Overtaken(d)
    BY <1>t, <1>f DEF RequestDeclined, TypeOK
  <1>2. at[c] = None /\ Unmade(k) /\ k # None /\ got[k] = "none"
    BY DEF RequestDeclined, Unmade
  <1>3. \A r \in Slot : pending[r] # k /\ query[r] # k
    BY <1>t, <1>2, Zenon DEF Promises, FiledIsMade
  <1>4. f # k => f = pending[s] /\ pending[s] # None /\ got[f] = "declined"
    BY <1>t, <1>f, <1>0, <1>2 DEF Promises, FiledIsMade, Filed
  <1>5. \A r \in Slot : r # s => pending[r] # f
    BY <1>t, <1>0, <1>3, <1>4, Zenon DEF Promises, FiledOnce
  <1>6. got'[f] = "declined"
    BY <1>0, <1>1, <1>4
  <1>7. \A d \in Caller : /\ at'[d] = None <=> at[d] = None
                          /\ at[d] # None => at'[d].call = at[d].call /\ at'[d].alone = FALSE
    BY <1>t, <1>1, Overtaking
  <1>8. PromisesFiled'
    <2>1. ASSUME NEW r \in Slot, pending'[r] # None
          PROVE  IF r \in active'
                 THEN promise'[pending'[r]] = "open" /\ (pending'[r] = query'[r] \/ got'[pending'[r]] = "declined")
                 ELSE promise'[pending'[r]] = "left"
      <3>1. CASE r = s
        BY <1>0, <1>1, <3>1, Zenon
      <3>2. CASE r # s
        <4>1. pending'[r] = pending[r] /\ pending[r] \in Call
          BY <1>t, <1>1, <2>1, <3>2 DEF TypeOK
        <4>2. promise'[pending[r]] = promise[pending[r]] /\ got'[pending[r]] = got[pending[r]]
          BY <1>1, <1>3, <1>5, <3>2, <4>1
        <4> QED BY <1>t, <1>1, <2>1, <4>1, <4>2, Zenon DEF Promises, PromisesFiled
      <3> QED BY <3>1, <3>2
    <2>2. ASSUME NEW j \in Call, promise'[j] = "open" PROVE \E r \in active' : pending'[r] = j
      <3>1. j # f /\ promise[j] = "open"
        BY <1>1, <2>2
      <3>2. PICK r \in active : pending[r] = j
        BY <1>t, <3>1 DEF Promises, PromisesFiled
      <3>3. r \in Slot /\ r # s /\ r \in active'
        BY <1>t, <1>0, <1>1 DEF TypeOK
      <3> QED BY <1>1, <3>2, <3>3
    <2> QED BY <2>1, <2>2, Zenon DEF PromisesFiled
  <1>9. FiledOnce'
    BY <1>1, <1>5, <1>t DEF Promises, FiledOnce
  <1>10. FiledIsMade'
    <2>1. ~Unmade(k)' /\ ~Unmade(f)'
      BY <1>0, <1>1, <1>6 DEF Unmade
    <2>2. \A j \in Call \ {k} : ~Unmade(j) => ~Unmade(j)'
      BY <1>t, <1>1, <1>2, MadeStaysMade
    <2> SUFFICES ASSUME NEW r \in Slot
                 PROVE  /\ query'[r] # None => ~Unmade(query[r])'
                        /\ pending'[r] # None => ~Unmade(pending[r])'
                        /\ pending'[r] # None /\ r \notin active' => got'[pending'[r]] = "declined"
      BY DEF FiledIsMade
    <2>3. query[r] \in Call \cup {None} /\ pending[r] \in Call \cup {None}
      BY <1>t DEF TypeOK
    <2>4. query[r] # None => ~Unmade(query[r]) /\ query[r] \in Call \ {k}
      BY <1>t, <1>3, <2>3 DEF Promises, FiledIsMade
    <2>5. pending[r] # None => ~Unmade(pending[r]) /\ pending[r] \in Call \ {k}
      BY <1>t, <1>3, <2>3 DEF Promises, FiledIsMade
    <2> DEFINE q == query[r]
               p == pending[r]
    <2>6. (q # None => ~Unmade(q)') /\ query'[r] = q
      BY <1>1, <2>2, <2>4 DEF Unmade
    <2>7. CASE r = s
      BY <1>1, <1>6, <2>1, <2>6, <2>7, Zenon DEF Unmade
    <2>8. CASE r # s
      <3>1. pending'[r] = pending[r]
        BY <1>1, <2>8
      <3>2. p # None => ~Unmade(p)'
        BY <2>2, <2>5, <3>1 DEF Unmade
      <3>3. pending[r] # None /\ r \notin active => got[pending[r]] = "declined"
        BY <1>t DEF Promises, FiledIsMade
      <3> QED BY <1>1, <2>5, <2>6, <3>1, <3>2, <3>3
    <2> QED BY <2>7, <2>8
  <1>11. Visitors'
    <2>1. \A d \in Caller : at[d] # None => at[d].call # k /\ at[d].call \in Call
      BY <1>t, <1>2 DEF Unmade, TypeOK, Visit
    <2> QED BY <1>t, <1>1, <1>7, <2>1 DEF Promises, Visitors
  <1>12. AloneCarries'
    BY <1>7, Zenon DEF AloneCarries
  <1> QED BY <1>8, <1>9, <1>10, <1>11, <1>12 DEF Promises

(* getFuture settles what a call returns and touches no promise.           *)
LEMMA GetFuturePromises ==
  ASSUME RequestInv, NEW c \in Caller, GetFuture(c)
  PROVE  Promises'
  <1> USE NoneAssumption, CallAssumption
  <1>t. TypeOK /\ Promises /\ at[c] # None /\ at[c].call \in Call /\ at[c].id \in Slot
    BY DEF RequestInv, PoolConsistent, TypeOK, Visit, GetFuture
  <1> DEFINE k == at[c].call
  <1>1. /\ UNCHANGED <<active, query, promise, pending>>
        /\ \A d \in Caller : at'[d] = IF d = c THEN None ELSE at[d]
        /\ \A j \in Call : j # k => got'[j] = got[j]
    BY <1>t DEF GetFuture, TypeOK, poolVars
  <1>2. got'[k] # "none" /\ got[k] = "none"
    <2>1. got'[k] = "threw" \/ (got'[k] = pending[at[c].id] /\ pending[at[c].id] # None)
      BY <1>t DEF GetFuture, TypeOK
    <2>2. got'[k] # "none"
      BY <1>t, <2>1 DEF TypeOK
    <2> QED BY <1>t, <2>2 DEF Promises, Visitors
  <1> HIDE DEF k
  <1>3. \A j \in Call : got[j] = "declined" => got'[j] = "declined"
    BY <1>1, <1>2
  <1>4. \A j \in Call : ~Unmade(j) => ~Unmade(j)'
    BY <1>t, <1>1, <1>2 DEF Unmade, k
  <1>5. \A r \in Slot : (pending[r] # None => pending[r] \in Call) /\ (query[r] # None => query[r] \in Call)
    BY <1>t DEF TypeOK
  <1>6. PromisesFiled'
    BY <1>t, <1>1, <1>3, <1>5 DEF Promises, PromisesFiled
  <1>7. FiledOnce'
    BY <1>t, <1>1 DEF Promises, FiledOnce
  <1>8. FiledIsMade'
    <2> SUFFICES ASSUME NEW r \in Slot
                 PROVE  /\ query'[r] # None => ~Unmade(query[r])'
                        /\ pending'[r] # None => ~Unmade(pending[r])'
                        /\ pending'[r] # None /\ r \notin active' => got'[pending'[r]] = "declined"
      BY DEF FiledIsMade
    <2> DEFINE q == query[r]
               p == pending[r]
    <2>1. (q # None => ~Unmade(q)') /\ (p # None => ~Unmade(p)')
      BY <1>t, <1>1, <1>4, <1>5 DEF Promises, FiledIsMade, Unmade
    <2>2. p # None /\ r \notin active => got'[p] = "declined"
      BY <1>t, <1>3, <1>5 DEF Promises, FiledIsMade
    <2> QED BY <1>1, <2>1, <2>2
  <1>9. Visitors'
    <2>1. \A d \in Caller : at'[d] # None => d # c /\ at'[d] = at[d] /\ at[d].call # k /\ at[d].call \in Call
      BY <1>t, <1>1 DEF Promises, Visitors, TypeOK, Visit, k
    <2>2. \A d \in Caller : at[d] # None => got[at[d].call] = "none"
      BY <1>t DEF Promises, Visitors
    <2>3. \A d, e \in Caller : at[d] # None /\ at[e] # None /\ at[e].call = at[d].call => e = d
      BY <1>t DEF Promises, Visitors
    <2> QED BY <1>1, <2>1, <2>2, <2>3 DEF Visitors
  <1>10. AloneCarries'
    BY <1>t, <1>1, Zenon DEF Promises, AloneCarries
  <1> QED BY <1>6, <1>7, <1>8, <1>9, <1>10 DEF Promises

(* Every step keeps the promises in order.                                 *)
LEMMA PromisesStep == RequestInv /\ [Next]_vars => Promises'
  <1> SUFFICES ASSUME RequestInv, [Next]_vars PROVE Promises'
    OBVIOUS
  <1>t. TypeOK /\ Promises
    BY DEF RequestInv, PoolConsistent
  <1> USE DEF poolVars, boxVars, userVars
  <1>1. CASE \E c \in Caller, k \in Call, s \in Slot : Request(c, k, s) \/ RequestDeclined(c, k, s)
    BY <1>1, RequestPromises, DeclinedPromises
  <1>2. CASE \E c \in Caller : GetFuture(c)
    BY <1>2, GetFuturePromises
  <1>3. CASE \/ \E s \in Slot, r \in {"success", "error"} : Complete(s, r)
             \/ \E s \in Slot : CallbackNoHandler(s) \/ CallbackSent(s) \/ FinishSent(s)
             \/ CancelAll \/ WaitAll \/ UNCHANGED vars
    <2>1. UNCHANGED <<active, query, newQueryID, at, got, pending, promise>>
      BY <1>3 DEF Complete, CallbackNoHandler, CallbackSent, Enter, FinishSent, CancelAll, WaitAll, vars
    <2> QED BY <1>t, <2>1, PromisesSettle
  <1>4. ASSUME NEW s \in Slot, CallbackRecv(s) \/ CallbackError(s) PROVE Promises'
    <2>1. UNCHANGED <<active, query, newQueryID, at, got>> /\ (Settle(s, "value") \/ Settle(s, "error"))
      BY <1>4, Zenon DEF CallbackRecv, CallbackError, Enter
    <2> QED BY <1>t, <2>1, PromisesSettle
  <1>5. CASE (\E s \in Slot : EndSent(s)) \/ DropBox
    <2>1. UNCHANGED <<active, query, newQueryID, at, got>> /\ \E b \in BOOLEAN : Break(b)
      BY <1>5, Zenon DEF EndSent, DropBox
    <2> QED BY <1>t, <2>1, PromisesSettle
  <1>6. ASSUME NEW s \in Slot, FinishCleanup(s) PROVE Promises'
    <2>1. /\ UNCHANGED <<query, newQueryID, at, got, pending, promise>>
          /\ active' = active \ {s} /\ callback[s] = "cleanup"
      BY <1>6 DEF FinishCleanup
    <2>2. pending[s] = None
      BY <2>1 DEF RequestInv, CleanedUp
    <2> QED BY <1>t, <2>1, <2>2, PromisesSettle
  <1> QED BY <1>1, <1>2, <1>3, <1>4, <1>5, <1>6 DEF Next, Callback

(* No Action in cleanup, and no Action at all once the box is gone, has a  *)
(* promise left.                                                           *)
LEMMA CleanedStep == RequestInv /\ [Next]_vars => CleanedUp'
  <1> SUFFICES ASSUME RequestInv, [Next]_vars PROVE CleanedUp'
    OBVIOUS
  <1>t. TypeOK /\ PoolConsistent /\ CleanedUp
    BY DEF RequestInv, PoolConsistent
  <1> USE NoneAssumption, CallAssumption DEF poolVars, boxVars, userVars
  <1>a. ASSUME life = "alive", UNCHANGED <<life, callback>>, NEW s \in Slot, s \notin active,
               \A r \in Slot \ {s} : pending'[r] = pending[r]
        PROVE  CleanedUp'
    <2>1. callback'[s] # "cleanup" /\ HandlerAlive'
      BY <1>t, <1>a DEF PoolConsistent, HandlerAlive
    <2> QED BY <1>t, <1>a, <2>1 DEF CleanedUp
  <1>1. ASSUME NEW c \in Caller, NEW k \in Call, NEW s \in Slot, Request(c, k, s) PROVE CleanedUp'
    <2>1. s \notin active
      BY <1>t, <1>1, AllocateTakes DEF Request
    <2>2. life = "alive" /\ UNCHANGED <<life, callback>> /\ \A r \in Slot \ {s} : pending'[r] = pending[r]
      BY <1>t, <1>1 DEF Request, TypeOK
    <2> QED BY <1>a, <2>1, <2>2
  <1>2. ASSUME NEW c \in Caller, NEW k \in Call, NEW s \in Slot, RequestDeclined(c, k, s) PROVE CleanedUp'
    <2>1. s \notin active
      BY <1>t, <1>2, DeclinedPool DEF RequestDeclined
    <2>2. life = "alive" /\ UNCHANGED <<life, callback>> /\ \A r \in Slot \ {s} : pending'[r] = pending[r]
      BY <1>t, <1>2 DEF RequestDeclined, TypeOK
    <2> QED BY <1>a, <2>1, <2>2
  <1>b. ASSUME \A s \in Slot : pending'[s] # None => pending'[s] = pending[s],
               \A s \in Slot : callback'[s] = "cleanup" => callback[s] = "cleanup" \/ pending'[s] = None,
               HandlerAlive' \/ ~HandlerAlive \/ \A s \in Slot : pending'[s] = None
        PROVE  CleanedUp'
    BY <1>t, <1>b DEF CleanedUp
  <1>3. ASSUME NEW c \in Caller, GetFuture(c) PROVE CleanedUp'
    <2>1. /\ \A s \in Slot : pending'[s] # None => pending'[s] = pending[s]
          /\ UNCHANGED <<callback, life>>
      BY <1>t, <1>3 DEF GetFuture, TypeOK
    <2> QED BY <1>b, <2>1 DEF HandlerAlive, InHandler
  <1>4. CASE \/ \E s \in Slot, r \in {"success", "error"} : Complete(s, r)
             \/ CancelAll \/ WaitAll \/ UNCHANGED vars
    <2>1. UNCHANGED <<pending, callback>> /\ (life = "alive" <=> life' = "alive")
      BY <1>4 DEF Complete, CancelAll, WaitAll, vars
    <2> QED BY <1>b, <2>1 DEF HandlerAlive, InHandler
  <1>5. ASSUME NEW s \in Slot, CallbackNoHandler(s) PROVE CleanedUp'
    <2>1. UNCHANGED pending /\ \A r \in Slot \ {s} : callback'[r] = callback[r]
      BY <1>t, <1>5 DEF CallbackNoHandler, Enter, TypeOK
    <2>2. ~HandlerAlive /\ pending[s] = None
      BY <1>t, <1>5 DEF CallbackNoHandler, CleanedUp
    <2> QED BY <1>b, <2>1, <2>2
  <1>6. ASSUME NEW s \in Slot, CallbackSent(s) PROVE CleanedUp'
    <2>1. /\ UNCHANGED <<pending, life>> /\ \A r \in Slot \ {s} : callback'[r] = callback[r]
          /\ callback'[s] = "reading"
      BY <1>t, <1>6 DEF CallbackSent, Enter, TypeOK
    <2>2. HandlerAlive'
      BY <2>1 DEF HandlerAlive, InHandler
    <2> QED BY <1>b, <2>1, <2>2
  <1>7. ASSUME NEW s \in Slot, CallbackRecv(s) \/ CallbackError(s) PROVE CleanedUp'
    <2>1. /\ UNCHANGED life /\ callback[s] = "none"
          /\ \A r \in Slot \ {s} : callback'[r] = callback[r]
          /\ \A r \in Slot : pending'[r] = IF r = s THEN None ELSE pending[r]
      BY <1>t, <1>7 DEF CallbackRecv, CallbackError, Enter, Settle, TypeOK
    <2>2. HandlerAlive' \/ ~HandlerAlive
      BY <2>1 DEF HandlerAlive, InHandler
    <2> QED BY <1>b, <2>1, <2>2
  <1>8. ASSUME NEW s \in Slot, EndSent(s) PROVE CleanedUp'
    <2>1. /\ UNCHANGED life /\ InHandler(s)
          /\ \A r \in Slot : callback'[r] = IF r = s THEN "sent" ELSE callback[r]
      BY <1>t, <1>8 DEF EndSent, TypeOK
    <2>2. CASE life # "alive" /\ \A r \in Slot : InHandler(r) => r = s
      <3>1. \A r \in Slot : pending'[r] = None
        BY <1>8, <2>2 DEF EndSent, Break
      <3>2. \A r \in Slot : callback'[r] = "cleanup" => callback[r] = "cleanup"
        BY <2>1
      <3> QED BY <3>1, Zenon DEF CleanedUp
    <2>3. CASE ~(life # "alive" /\ \A r \in Slot : InHandler(r) => r = s)
      <3>1. UNCHANGED pending
        BY <1>8, <2>3 DEF EndSent, Break
      <3>2. HandlerAlive'
        BY <2>1, <2>3 DEF HandlerAlive, InHandler
      <3> QED BY <1>b, <2>1, <3>1, <3>2
    <2> QED BY <2>2, <2>3
  <1>9. ASSUME NEW s \in Slot, FinishSent(s) \/ FinishCleanup(s) PROVE CleanedUp'
    <2>1. /\ UNCHANGED <<life, pending>> /\ ~InHandler(s)
          /\ \A r \in Slot : callback'[r] = IF r = s THEN "none" ELSE callback[r]
      BY <1>t, <1>9 DEF FinishSent, FinishCleanup, InHandler, TypeOK
    <2>2. HandlerAlive' \/ ~HandlerAlive
      BY <2>1 DEF HandlerAlive, InHandler
    <2> QED BY <1>b, <2>1, <2>2
  <1>10. CASE DropBox
    <2>1. UNCHANGED callback
      BY <1>10 DEF DropBox
    <2>2. CASE \A s \in Slot : ~InHandler(s)
      <3>1. \A r \in Slot : pending'[r] = None
        BY <1>10, <2>2 DEF DropBox, Break
      <3> QED BY <1>b, <2>1, <3>1
    <2>3. CASE \E s \in Slot : InHandler(s)
      <3>1. UNCHANGED pending
        BY <1>10, <2>3 DEF DropBox, Break
      <3>2. HandlerAlive'
        BY <2>1, <2>3 DEF HandlerAlive, InHandler
      <3> QED BY <1>b, <2>1, <3>1, <3>2
    <2> QED BY <2>2, <2>3
  <1> QED
    BY <1>1, <1>2, <1>3, <1>4, <1>5, <1>6, <1>7, <1>8, <1>9, <1>10, Zenon DEF Next, Callback

(* The invariant is inductive.                                             *)
LEMMA NextRequest == RequestInv /\ [Next]_vars => RequestInv'
  BY PoolStep, PromisesStep, CleanedStep DEF RequestInv

(* The invariant holds in every reachable state.                           *)
THEOREM RequestInvariant == Spec => []RequestInv
  BY InitRequest, NextRequest, PTL DEF Spec

(* No Action is in two places, whatever callers, callbacks and destructor  *)
(* do.                                                                     *)
THEOREM PoolIsConsistent == Spec => []PoolConsistent
  BY RequestInvariant, PTL DEF RequestInv

(* Query ids are recycled, and yet a response never reaches the promise of *)
(* another call, nor is an open promise forgotten.                         *)
THEOREM ResponsesMeetPromises == Spec => []ResponseMeetsItsPromise
  <1>1. RequestInv => ResponseMeetsItsPromise
    BY DEF RequestInv, Promises, PromisesFiled, ResponseMeetsItsPromise
  <1> QED BY <1>1, RequestInvariant, PTL

(* A caller whom no other call overtakes gets the future that the response *)
(* to its own message settles, whatever left-over promises are about and   *)
(* however ids are recycled.                                               *)
THEOREM CallerGetsOwnFuture == Spec => OwnFuture
  <1> DEFINE Own(c) ==
        at[c] # None /\ at'[c] = None /\ at[c].alone /\ got'[at[c].call] \in Call =>
          LET s == at[c].id
          IN  /\ s \in active /\ query[s] = at[c].call
              /\ pending[s] = got'[at[c].call] /\ promise[pending[s]] = "open"
  <1>1. ASSUME RequestInv, [Next]_vars PROVE [\A c \in Caller : Own(c)]_vars
    <2> SUFFICES ASSUME Next, NEW c \in Caller,
                        at[c] # None, at'[c] = None, at[c].alone, got'[at[c].call] \in Call
                 PROVE  LET s == at[c].id
                        IN  /\ s \in active /\ query[s] = at[c].call
                            /\ pending[s] = got'[at[c].call] /\ promise[pending[s]] = "open"
      BY <1>1
    <2>t. TypeOK /\ at[c].id \in Slot /\ at[c].call \in Call
      BY <1>1 DEF RequestInv, PoolConsistent, TypeOK, Visit
    <2>1. ~\E d \in Caller, k \in Call, s \in Slot : Request(d, k, s) \/ RequestDeclined(d, k, s)
      <3> SUFFICES ASSUME NEW d \in Caller, NEW k \in Call, NEW s \in Slot,
                          Request(d, k, s) \/ RequestDeclined(d, k, s)
                   PROVE  FALSE
        OBVIOUS
      <3>1. Overtaken(c) # None
        BY <2>t, Overtaking
      <3>2. at'[c] = Overtaken(c)
        BY DEF Request, RequestDeclined
      <3> QED BY <3>1, <3>2
    <2>2. ~\/ \E s \in Slot, r \in {"success", "error"} : Complete(s, r)
           \/ (\E s \in Slot : Callback(s)) \/ DropBox \/ CancelAll \/ WaitAll
      <3> SUFFICES ASSUME \/ \E s \in Slot, r \in {"success", "error"} : Complete(s, r)
                          \/ (\E s \in Slot : Callback(s)) \/ DropBox \/ CancelAll \/ WaitAll
                   PROVE  UNCHANGED at
        OBVIOUS
      <3> QED BY Zenon DEF Complete, Callback, CallbackNoHandler, CallbackSent, CallbackRecv, CallbackError,
           Enter, EndSent, FinishSent, FinishCleanup, DropBox, CancelAll, WaitAll, userVars
    <2>3. PICK d \in Caller : GetFuture(d)
      BY <2>1, <2>2, Zenon DEF Next
    <2>4. d = c
      BY <2>t, <2>3 DEF GetFuture, TypeOK
    <2>5. pending[at[c].id] # None /\ got'[at[c].call] = pending[at[c].id]
      BY <2>t, <2>3, <2>4, CallAssumption DEF GetFuture, TypeOK
    <2>6. at[c].id \in active /\ query[at[c].id] = at[c].call
      BY <1>1, <2>5, Zenon DEF RequestInv, Promises, AloneCarries
    <2>7. promise[pending[at[c].id]] = "open"
      BY <1>1, <2>t, <2>5, <2>6, Zenon DEF RequestInv, Promises, PromisesFiled
    <2> QED BY <2>5, <2>6, <2>7
  <1> QED BY <1>1, RequestInvariant, PTL DEF Spec, OwnFuture
=============================================================================
