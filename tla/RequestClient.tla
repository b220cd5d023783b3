----------------------------- MODULE RequestClient -----------------------------
(***************************************************************************)
(* Request and Request_Box: a client that keeps several requests in the    *)
(* air and hands out futures (src/src/telling/client_request.cpp).         *)
(*                                                                         *)
(* Each request borrows an Action, with its NNG context and AIO, from a    *)
(* pool kept in `active` and `idle` under Request::mtx.  The AIO's         *)
(* callback runs the handler without that mutex and takes it afterwards to *)
(* move the Action on.  The handler is Request_Box::Delegate, which maps a *)
(* QueryID, the id of the Action's context, to a promise.  The id comes    *)
(* back whenever the Action is reused.                                     *)
(***************************************************************************)
EXTENDS Naturals, Sequences

CONSTANTS
  Caller,    \* threads that call Request_Box::request
  Call,      \* calls they make; the set bounds how many
  Slot,      \* Action objects, and so query ids; bounds the pool
  Declines,  \* callers may pass an empty message, which counts as declined
  None

(* What a caller brings from Request::request to getFuture; and, a history, *)
(* whether no other call has entered request() since.                      *)
Visit == [call : Call, id : Slot, alone : BOOLEAN]

ASSUME NoneAssumption == None \notin Caller \cup Call \cup Slot \cup Visit
ASSUME DeclinesAssumption == Declines \in BOOLEAN
ASSUME CallAssumption == Call \cap {"none", "declined", "threw"} = {}

VARIABLES
  state,       \* Action::state
  active,      \* Request::active
  idle,        \* Request::idle
  aio,         \* the Action's AIO: "none", "pending", or its result
  query,       \* history: the call whose message the context carries
  callback,    \* where the Action's callback is
  pending,     \* Delegate::pending: query id -> the call that filed the promise
  newQueryID,  \* Delegate::newQueryID
  at,          \* the callers on their way to getFuture
  promise,     \* state of the promise that each call filed; "left" when the
               \* call was declined and no message goes with the promise
  got,         \* what each call returned: the promise whose future it has,
               \* or how it ended
  life,        \* progress of the destructor
  late,        \* history: Actions that began to receive after the cancel
  fault        \* undefined behaviour has corrupted `pending`

vars == <<state, active, idle, aio, query, callback, pending, newQueryID, at,
          promise, got, life, late, fault>>
poolVars == <<state, active, idle, aio, query>>
boxVars  == <<pending, newQueryID, promise>>
userVars == <<at, got>>

Pooled(s) == s \in active \/ \E i \in 1 .. Len(idle) : idle[i] = s
Unmade(k) == got[k] = "none" /\ \A d \in Caller : at[d] # None => at[d].call # k
Retrieved(p) == \E k \in Call : got[k] = p
InHandler(s) == callback[s] = "reading"

(***************************************************************************)
(* _handler.lock() succeeds while the box lives, and afterwards as long as *)
(* a callback that got the pointer still holds it.                         *)
(***************************************************************************)
HandlerAlive == life = "alive" \/ \E s \in Slot : InHandler(s)

Init ==
  /\ state = [s \in Slot |-> "IDLE"]
  /\ active = {}
  /\ idle = <<>>
  /\ aio = [s \in Slot |-> "none"]
  /\ query = [s \in Slot |-> None]
  /\ callback = [s \in Slot |-> "none"]
  /\ pending = [s \in Slot |-> None]
  /\ newQueryID = None
  /\ at = [c \in Caller |-> None]
  /\ promise = [k \in Call |-> "none"]
  /\ got = [k \in Call |-> "none"]
  /\ life = "alive"
  /\ late = {}
  /\ fault = FALSE

(***************************************************************************)
(* Delegate::async_sent searches `pending` without Delegate::mtx.  Whoever *)
(* changes the map meanwhile may corrupt it, or may be lucky.              *)
(***************************************************************************)
ChangesPending == fault' \in IF \E s \in Slot : InHandler(s) THEN BOOLEAN ELSE {FALSE}

-----------------------------------------------------------------------------
(***************************************************************************)
(* Request::request under Request::mtx, Delegate::async_prep included.     *)
(* The front of `idle` is reused; a new Action is made when it is empty.   *)
(* emplace keeps a promise that is filed under the id already.             *)
(***************************************************************************)
Allocate(s) ==
  \/ idle # <<>> /\ s = Head(idle) /\ idle' = Tail(idle)
  \/ idle = <<>> /\ ~Pooled(s) /\ UNCHANGED idle

Overtaken(d) == IF at[d] = None THEN None ELSE [at[d] EXCEPT !.alone = FALSE]

Filed(k, s) == IF pending[s] = None THEN k ELSE pending[s]

Request(c, k, s) ==
  /\ ~fault /\ life = "alive"
  /\ at[c] = None /\ Unmade(k)
  /\ Allocate(s)
  /\ pending' = [pending EXCEPT ![s] = Filed(k, s)]
  /\ promise' = [promise EXCEPT ![Filed(k, s)] = "open"]
  /\ newQueryID' = s
  /\ ChangesPending
  /\ state' = [state EXCEPT ![s] = "SEND"]
  /\ active' = active \cup {s}
  /\ aio' = [aio EXCEPT ![s] = "pending"]
  /\ query' = [query EXCEPT ![s] = k]
  /\ at' = [d \in Caller |->
              IF d = c THEN [call |-> k, id |-> s, alone |-> TRUE] ELSE Overtaken(d)]
  /\ UNCHANGED <<callback, got, life, late>>

(***************************************************************************)
(* An empty message: async_prep files a promise as always, and the Action  *)
(* goes back to the front of the pool.  The promise stays: the next call   *)
(* that takes the Action finds it in the place of its own.                 *)
(***************************************************************************)
RequestDeclined(c, k, s) ==
  /\ ~fault /\ life = "alive"
  /\ Declines
  /\ at[c] = None /\ Unmade(k)
  /\ \/ idle # <<>> /\ s = Head(idle) /\ UNCHANGED idle
     \/ idle = <<>> /\ ~Pooled(s) /\ idle' = <<s>>
  /\ pending' = [pending EXCEPT ![s] = Filed(k, s)]
  /\ promise' = [promise EXCEPT ![Filed(k, s)] = "left"]
  /\ newQueryID' = s
  /\ ChangesPending
  /\ at' = [d \in Caller |-> Overtaken(d)]
  /\ got' = [got EXCEPT ![k] = "declined"]
  /\ UNCHANGED <<state, active, aio, query, callback, life, late>>

(***************************************************************************)
(* Delegate::getFuture, which Request_Box::request calls next.  It hands   *)
(* out the future of whatever promise is filed under the query id, once.   *)
(***************************************************************************)
GetFuture_FirstPending(c) ==
  /\ ~fault
  /\ at[c] # None
  /\ LET filed == {pending[s] : s \in Slot} \ {None}
     IN  got' = [got EXCEPT ![at[c].call] = IF filed = {} THEN "threw" ELSE CHOOSE p \in filed : TRUE]
  /\ newQueryID' = None
  /\ at' = [at EXCEPT ![c] = None]
  /\ UNCHANGED <<poolVars, callback, pending, promise, life, late, fault>>

GetFuture(c) ==
  /\ ~fault
  /\ at[c] # None
  /\ LET s == at[c].id
         found == s = newQueryID /\ pending[s] # None
     IN  /\ got' = [got EXCEPT ![at[c].call] =
                      IF found /\ ~Retrieved(pending[s]) THEN pending[s] ELSE "threw"]
         /\ newQueryID' = IF found THEN None ELSE newQueryID
  /\ at' = [at EXCEPT ![c] = None]
  /\ UNCHANGED <<poolVars, callback, pending, promise, life, late, fault>>

-----------------------------------------------------------------------------
(* NNG finishes the operation of an Action: sent, answered, or failed.     *)
Complete(s, r) ==
  /\ ~fault
  /\ aio[s] = "pending"
  /\ aio' = [aio EXCEPT ![s] = r]
  /\ UNCHANGED <<state, active, idle, query, callback, boxVars, userVars, life, late, fault>>

(***************************************************************************)
(* Action::_callback, first half: the handler's turn.                      *)
(***************************************************************************)
Enter(s, next) ==
  /\ ~fault
  /\ callback[s] = "none" /\ aio[s] \notin {"none", "pending"}
  /\ callback' = [callback EXCEPT ![s] = next]
  /\ aio' = [aio EXCEPT ![s] = "none"]
  /\ UNCHANGED <<state, active, idle, query, userVars, life, late>>

CallbackNoHandler(s) ==
  /\ Enter(s, "cleanup")
  /\ ~HandlerAlive
  /\ UNCHANGED <<boxVars, fault>>

CallbackSent(s) ==
  /\ Enter(s, "reading")
  /\ HandlerAlive
  /\ aio[s] = "success" /\ state[s] = "SEND"
  /\ UNCHANGED <<boxVars, fault>>

(* async_recv or async_error settles the promise and forgets it.           *)
Settle_Kept(s, how) ==
  /\ promise' = IF pending[s] = None THEN promise ELSE [promise EXCEPT ![pending[s]] = how]
  /\ UNCHANGED pending
  /\ ChangesPending

Settle(s, how) ==
  /\ promise' = IF pending[s] = None THEN promise ELSE [promise EXCEPT ![pending[s]] = how]
  /\ pending' = [pending EXCEPT ![s] = None]
  /\ ChangesPending

CallbackRecv(s) ==
  /\ Enter(s, "cleanup")
  /\ HandlerAlive
  /\ aio[s] = "success" /\ state[s] = "RECV"
  /\ Settle(s, "value")
  /\ UNCHANGED newQueryID

CallbackError_GoesOn(s) ==
  /\ Enter(s, "sent")
  /\ HandlerAlive
  /\ aio[s] \in {"error", "canceled"}
  /\ UNCHANGED <<boxVars, fault>>

CallbackError(s) ==
  /\ Enter(s, "cleanup")
  /\ HandlerAlive
  /\ aio[s] \in {"error", "canceled"}
  /\ Settle(s, "error")
  /\ UNCHANGED newQueryID

(* async_sent returns, and the callback drops its pointer to the box.  If  *)
(* that was the last one, the promises still pending are broken.           *)
Break(ended) ==
  IF ended
  THEN /\ promise' = [k \in Call |-> IF promise[k] \in {"left", "open"} THEN "broken" ELSE promise[k]]
       /\ pending' = [s \in Slot |-> None]
  ELSE UNCHANGED <<promise, pending>>

EndSent(s) ==
  /\ ~fault
  /\ InHandler(s)
  /\ callback' = [callback EXCEPT ![s] = "sent"]
  /\ Break(life # "alive" /\ \A r \in Slot : InHandler(r) => r = s)
  /\ UNCHANGED <<poolVars, newQueryID, userVars, life, late, fault>>

(***************************************************************************)
(* Action::_callback, second half, under Request::mtx.                     *)
(***************************************************************************)
FinishSent(s) ==
  /\ ~fault
  /\ callback[s] = "sent"
  /\ state' = [state EXCEPT ![s] = "RECV"]
  /\ aio' = [aio EXCEPT ![s] = "pending"]
  /\ callback' = [callback EXCEPT ![s] = "none"]
  /\ late' = IF life = "waiting" THEN late \cup {s} ELSE late
  /\ UNCHANGED <<active, idle, query, boxVars, userVars, life, fault>>

FinishCleanup_StaysActive(s) ==
  /\ ~fault
  /\ callback[s] = "cleanup"
  /\ state' = [state EXCEPT ![s] = "IDLE"]
  /\ idle' = Append(idle, s)
  /\ callback' = [callback EXCEPT ![s] = "none"]
  /\ UNCHANGED <<active, aio, query, boxVars, userVars, life, late, fault>>

FinishCleanup(s) ==
  /\ ~fault
  /\ callback[s] = "cleanup"
  /\ state' = [state EXCEPT ![s] = "IDLE"]
  /\ active' = active \ {s}
  /\ idle' = Append(idle, s)
  /\ callback' = [callback EXCEPT ![s] = "none"]
  /\ UNCHANGED <<aio, query, boxVars, userVars, life, late, fault>>

-----------------------------------------------------------------------------
(***************************************************************************)
(* The destructor.  ~Request_Box lets go of the box; ~Request cancels the  *)
(* AIO of every active Action, which touches only an operation in progress *)
(* at that moment, and then waits until no Action is active.  Nobody calls *)
(* request on a client that is being destroyed.                            *)
(***************************************************************************)
DropBox ==
  /\ ~fault /\ life = "alive"
  /\ \A c \in Caller : at[c] = None
  /\ life' = "dropped"
  /\ Break(\A s \in Slot : ~InHandler(s))
  /\ UNCHANGED <<poolVars, callback, newQueryID, userVars, late, fault>>

CancelAll_OnlyReceives ==
  /\ ~fault /\ life = "dropped"
  /\ aio' = [s \in Slot |-> IF s \in active /\ state[s] = "RECV" /\ aio[s] = "pending"
                            THEN "canceled" ELSE aio[s]]
  /\ life' = "waiting"
  /\ UNCHANGED <<state, active, idle, query, callback, boxVars, userVars, late, fault>>

CancelAll ==
  /\ ~fault /\ life = "dropped"
  /\ aio' = [s \in Slot |-> IF s \in active /\ aio[s] = "pending" THEN "canceled" ELSE aio[s]]
  /\ life' = "waiting"
  /\ UNCHANGED <<state, active, idle, query, callback, boxVars, userVars, late, fault>>

WaitAll ==
  /\ ~fault /\ life = "waiting"
  /\ active = {}
  /\ life' = "destroyed"
  /\ UNCHANGED <<poolVars, callback, boxVars, userVars, late, fault>>

-----------------------------------------------------------------------------
Callback(s) ==
  \/ CallbackNoHandler(s) \/ CallbackSent(s) \/ CallbackRecv(s) \/ CallbackError(s)
  \/ EndSent(s) \/ FinishSent(s) \/ FinishCleanup(s)

Next ==
  \/ \E c \in Caller, k \in Call, s \in Slot : Request(c, k, s)
  \/ \E c \in Caller, k \in Call, s \in Slot : RequestDeclined(c, k, s)
  \/ \E c \in Caller : GetFuture(c)
  \/ \E s \in Slot, r \in {"success", "error"} : Complete(s, r)
  \/ \E s \in Slot : Callback(s)
  \/ DropBox
  \/ CancelAll
  \/ WaitAll

Spec == Init /\ [][Next]_vars

(***************************************************************************)
(* Fairness.  Callers, NNG's threads and the destructor keep running.      *)
(* Nothing is assumed of NNG's operations: no timeout is set, so that a    *)
(* message may wait for ever to be sent, and for its answer.               *)
(***************************************************************************)
Fairness ==
  /\ \A c \in Caller : WF_vars(GetFuture(c))
  /\ \A s \in Slot : WF_vars(Callback(s))
  /\ WF_vars(CancelAll) /\ WF_vars(WaitAll)

FairSpec == Spec /\ Fairness

-----------------------------------------------------------------------------
(***************************************************************************)
(* Correctness.                                                            *)
(***************************************************************************)

(* The types of the pool, of the box and of what callers see.              *)
TypeOK ==
  /\ state \in [Slot -> {"IDLE", "SEND", "RECV"}]
  /\ active \subseteq Slot
  /\ idle \in Seq(Slot)
  /\ aio \in [Slot -> {"none", "pending", "success", "error", "canceled"}]
  /\ query \in [Slot -> Call \cup {None}]
  /\ callback \in [Slot -> {"none", "reading", "sent", "cleanup"}]
  /\ pending \in [Slot -> Call \cup {None}]
  /\ newQueryID \in Slot \cup {None}
  /\ at \in [Caller -> Visit \cup {None}]
  /\ promise \in [Call -> {"none", "left", "open", "value", "error", "broken"}]
  /\ got \in [Call -> Call \cup {"none", "declined", "threw"}]
  /\ life \in {"alive", "dropped", "waiting", "destroyed"}
  /\ late \subseteq Slot
  /\ fault \in BOOLEAN

(* An Action is in one place: active with an operation or a callback under *)
(* way, once in the idle queue with neither, or not made yet.  So a reused *)
(* Action never has two operations on its AIO, and the counts of msgStats  *)
(* add up to the number of active Actions.  And the types are right.       *)
PoolConsistent ==
  /\ TypeOK
  /\ \A s \in active :
       /\ state[s] \in {"SEND", "RECV"}
       /\ aio[s] = "none" <=> callback[s] # "none"
       /\ \A i \in 1 .. Len(idle) : idle[i] # s
  /\ \A s \in Slot \ active : aio[s] = "none" /\ callback[s] = "none" /\ state[s] = "IDLE"
  /\ \A i, j \in 1 .. Len(idle) : idle[i] = idle[j] => i = j

(* A response is never delivered to another call's promise, although query *)
(* ids are recycled: the promise filed under the id of an active Action is *)
(* open, and was filed by the call whose message the context carries, or   *)
(* left there by a declined call and adopted by this one.  A promise that  *)
(* is open can still be kept: it is filed under the id of an active Action.*)
ResponseMeetsItsPromise ==
  ~fault =>
    /\ \A s \in Slot : pending[s] # None =>
         IF s \in active
         THEN promise[pending[s]] = "open" /\ (pending[s] = query[s] \/ got[pending[s]] = "declined")
         ELSE promise[pending[s]] = "left"
    /\ \A k \in Call : promise[k] = "open" => \E s \in active : pending[s] = k

(* A caller gets the future that the response to its own message settles:  *)
(* what getFuture hands it is the open promise filed under the id of an    *)
(* Action that carries this message, unless another call entered request() *)
(* in between.  getFuture cannot tell whose promise is filed under its id. *)
OwnFuture ==
  [][\A c \in Caller :
       at[c] # None /\ at'[c] = None /\ at[c].alone /\ got'[at[c].call] \in Call =>
         LET s == at[c].id
         IN  /\ s \in active /\ query[s] = at[c].call
             /\ pending[s] = got'[at[c].call] /\ promise[pending[s]] = "open"]_vars

(* Every promise with a message to go with it is settled, by a value, an   *)
(* error or broken, if no operation of NNG is pending for ever: the server *)
(* answers, or the connection fails.                                       *)
EveryPromiseSettled ==
  (\A s \in Slot : []<>(aio[s] # "pending")) =>
    \A k \in Call : promise[k] = "open" ~> (promise[k] # "open" \/ fault)

(* The destructor returns whatever the network does, because it cancels    *)
(* what is pending, unless an Action was between sending and receiving as  *)
(* it did so: that one receives after the cancel, and is waited for.       *)
DestructorReturns == life = "dropped" ~> (life = "destroyed" \/ fault \/ late # {})

(* The destructor returns in any case.                                     *)
DestructorAlwaysReturns == life = "dropped" ~> (life = "destroyed" \/ fault)

(* Request_Box::request returns a future for a request it has accepted.    *)
RequestReturnsFuture == \A k \in Call : got[k] # "threw"

(* The response to a message goes to the caller who sent the message.      *)
AskerGetsResponse ==
  \A s \in active : pending[s] # None /\ Retrieved(pending[s]) => got[query[s]] = pending[s]

(* async_sent never reads `pending` while another thread changes it.       *)
PendingNeverCorrupted == ~fault
=============================================================================
