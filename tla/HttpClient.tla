------------------------------ MODULE HttpClient ------------------------------
(***************************************************************************)
(* HttpClient and HttpClient_Box: requests to a web server, each over a    *)
(* connection of its own, with futures (src/src/telling/http_client.cpp).  *)
(*                                                                         *)
(* Like RequestClient, it takes an Action from a pool for every request.   *)
(* The Action connects, writes the request, and reads until the response   *)
(* is complete; one callback serves the three operations.  Query ids are   *)
(* counted and never reused, so a call is named by its id.                 *)
(***************************************************************************)
EXTENDS Naturals, Sequences, FiniteSets

CONSTANTS
  Caller,      \* threads that call HttpClient_Box::request
  MaxQueries,  \* bound: requests made
  Slot,        \* Action objects; bounds the pool
  Declines,    \* callers may pass an empty message, which counts as declined
  Hangs,       \* the peer may close the connection early
  None

ASSUME NoneAssumption == None \notin Caller \cup Slot
ASSUME BoundAssumption == MaxQueries \in Nat \ {0}
ASSUME ChoiceAssumption == Declines \in BOOLEAN /\ Hangs \in BOOLEAN

VARIABLES
  state,        \* Action::state
  active,       \* HttpClient::active
  idle,         \* HttpClient::idle
  aio,          \* "none", "pending", or the result of the operation
  conn,         \* Action::conn is a connection
  completion,   \* Action::res_completion
  query,        \* Action::queryID
  callback,     \* where the Action's callback is
  leaving,      \* Actions of which a callback returns, with its pointer to the box
  nextQueryID,  \* HttpClient::nextQueryID
  pending,      \* Delegate::pending: ids with a promise
  newQueryID,   \* Delegate::newQueryID; 0 at the start and when cleared
  at,           \* the id a caller brings to getFuture
  promise,      \* what became of each promise
  heard,        \* history: async_recv and async_error calls for each id
  received,     \* history: ids for which part of a response was read
  leaked,       \* history: ids whose connection was made and never taken
  late,         \* history: Actions that went on after they were canceled
  life,         \* progress of the destructor
  fault         \* undefined behaviour that has happened

vars == <<state, active, idle, aio, conn, completion, query, callback, leaving, nextQueryID,
          pending, newQueryID, at, promise, heard, received, leaked, late, life, fault>>
actionVars == <<state, active, idle, query, nextQueryID>>
boxVars == <<pending, newQueryID, promise>>

Id == 0 .. MaxQueries - 1

(* MsgCompletion: is the message complete, and is its end left implicit?   *)
Completion == [complete : BOOLEAN, implicit : BOOLEAN]
Unknown == [complete |-> FALSE, implicit |-> TRUE]

(* In async_sent, which searches `pending`.                                *)
InHandler(s) == callback[s] = "reading"

(***************************************************************************)
(* _callback locks _handler first of all and holds the pointer until it    *)
(* returns, after its second half has unlocked HttpClient::mtx.  So lock() *)
(* succeeds while the box lives, and as long as some callback holds it.    *)
(***************************************************************************)
Holds(s) == callback[s] \in {"reading", "next", "cleanup"} \/ s \in leaving
HandlerAlive == life = "alive" \/ \E s \in Slot : Holds(s)

Pooled(s) == s \in active \/ \E i \in 1 .. Len(idle) : idle[i] = s

Init ==
  /\ state = [s \in Slot |-> "IDLE"]
  /\ active = {} /\ idle = <<>>
  /\ aio = [s \in Slot |-> "none"]
  /\ conn = [s \in Slot |-> FALSE]
  /\ completion = [s \in Slot |-> Unknown]
  /\ query = [s \in Slot |-> 0]
  /\ callback = [s \in Slot |-> "none"] /\ leaving = {}
  /\ nextQueryID = 0
  /\ pending = {} /\ newQueryID = 0
  /\ at = [c \in Caller |-> None]
  /\ promise = [q \in Id |-> "none"]
  /\ heard = [q \in Id |-> <<>>]
  /\ received = {} /\ leaked = {} /\ late = {}
  /\ life = "alive"
  /\ fault = {}

(* async_sent reads `pending` without Delegate::mtx: see RequestClient.    *)
ChangesPending ==
  fault' \in IF \E s \in Slot : InHandler(s) THEN {fault, fault \cup {"race"}} ELSE {fault}

-----------------------------------------------------------------------------
(***************************************************************************)
(* HttpClient::request under HttpClient::mtx.  The Action keeps the        *)
(* res_completion of its last use.                                         *)
(***************************************************************************)
Allocate(s) ==
  \/ idle # <<>> /\ s = Head(idle) /\ idle' = Tail(idle)
  \/ idle = <<>> /\ ~Pooled(s) /\ UNCHANGED idle

Request(c, s) ==
  /\ fault = {} /\ life = "alive"
  /\ at[c] = None /\ nextQueryID < MaxQueries
  /\ Allocate(s)
  /\ query' = [query EXCEPT ![s] = nextQueryID]
  /\ nextQueryID' = nextQueryID + 1
  /\ pending' = pending \cup {nextQueryID}
  /\ promise' = [promise EXCEPT ![nextQueryID] = "open"]
  /\ newQueryID' = nextQueryID
  /\ ChangesPending
  /\ state' = [state EXCEPT ![s] = "CONNECT"]
  /\ active' = active \cup {s}
  /\ aio' = [aio EXCEPT ![s] = "pending"]
  /\ at' = [at EXCEPT ![c] = nextQueryID]
  /\ UNCHANGED <<conn, completion, callback, leaving, heard, received, leaked, late, life>>

(* An empty message: its id is spent and its promise stays behind.         *)
RequestDeclined(c, s) ==
  /\ fault = {} /\ life = "alive"
  /\ Declines
  /\ at[c] = None /\ nextQueryID < MaxQueries
  /\ \/ idle # <<>> /\ s = Head(idle) /\ UNCHANGED idle
     \/ idle = <<>> /\ ~Pooled(s) /\ idle' = <<s>>
  /\ query' = [query EXCEPT ![s] = nextQueryID]
  /\ nextQueryID' = nextQueryID + 1
  /\ pending' = pending \cup {nextQueryID}
  /\ promise' = [promise EXCEPT ![nextQueryID] = "declined"]
  /\ newQueryID' = nextQueryID
  /\ ChangesPending
  /\ UNCHANGED <<state, active, aio, conn, completion, callback, leaving, at, heard, received,
                 leaked, late, life>>

(* Delegate::getFuture returns the future, or throws (see RequestClient).  *)
GetFuture(c) ==
  /\ fault = {}
  /\ at[c] # None
  /\ newQueryID' = IF at[c] = newQueryID /\ at[c] \in pending THEN 0 ELSE newQueryID
  /\ at' = [at EXCEPT ![c] = None]
  /\ UNCHANGED <<actionVars, aio, conn, completion, callback, leaving, pending, promise, heard,
                 received, leaked, late, life, fault>>

-----------------------------------------------------------------------------
(***************************************************************************)
(* NNG ends an operation.  "hangup" stands for connaborted, connreset,     *)
(* connshut and closed, "error" for every other failure.                   *)
(***************************************************************************)
Complete(s, r) ==
  /\ fault = {}
  /\ aio[s] = "pending"
  /\ r = "hangup" => Hangs
  /\ aio' = [aio EXCEPT ![s] = r]
  /\ UNCHANGED <<actionVars, conn, completion, callback, leaving, boxVars, at, heard, received,
                 leaked, late, life, fault>>

(* Action::_callback begins: the result is taken.                          *)
Enter(s, next) ==
  /\ fault = {}
  /\ callback[s] = "none" /\ aio[s] \notin {"none", "pending"}
  /\ aio' = [aio EXCEPT ![s] = "none"]
  /\ callback' = [callback EXCEPT ![s] = next]
  /\ UNCHANGED <<actionVars, leaving, at, newQueryID, late, life>>

(* The promise of an id gets its outcome, once; `calls` is what the handler *)
(* hears.                                                                   *)
Tell(s, calls, outcome) ==
  /\ heard' = [heard EXCEPT ![query[s]] = @ \o calls]
  /\ promise' = IF query[s] \in pending THEN [promise EXCEPT ![query[s]] = outcome]
                                        ELSE promise
  /\ pending' = pending \ {query[s]}
  /\ ChangesPending

(* Lines 227-253: the response goes to the handler and the connection is   *)
(* closed.                                                                 *)
Disconnect_LeavesOpen(s) == UNCHANGED conn

Disconnect(s) == conn' = [conn EXCEPT ![s] = FALSE]

(* The handler is gone.  What the operation brought is not looked at: a    *)
(* connection just made stays in the AIO, where nobody closes it.          *)
CallbackNoHandler(s) ==
  /\ Enter(s, "orphan")
  /\ ~HandlerAlive
  /\ Disconnect(s)
  /\ leaked' = IF aio[s] = "success" /\ state[s] = "CONNECT" THEN leaked \cup {query[s]} ELSE leaked
  /\ UNCHANGED <<completion, pending, promise, heard, received, fault>>

(* Connected, but the Action still holds a complete res_completion from    *)
(* its last use: the request ends here, with the empty response.           *)
CallbackConnectStale(s) ==
  /\ Enter(s, "cleanup")
  /\ HandlerAlive
  /\ aio[s] = "success" /\ state[s] = "CONNECT" /\ completion[s].complete
  /\ Tell(s, <<"recv">>, "value")
  /\ Disconnect(s)
  /\ UNCHANGED <<completion, received, leaked>>

CallbackConnect(s) ==
  /\ Enter(s, "next")
  /\ HandlerAlive
  /\ aio[s] = "success" /\ state[s] = "CONNECT" /\ ~completion[s].complete
  /\ conn' = [conn EXCEPT ![s] = TRUE]
  /\ UNCHANGED <<completion, pending, promise, heard, received, leaked, fault>>

CallbackSent(s) ==
  /\ Enter(s, "reading")
  /\ HandlerAlive
  /\ aio[s] = "success" /\ state[s] = "SEND"
  /\ UNCHANGED <<conn, completion, pending, promise, heard, received, leaked, fault>>

(* Part of the response came.  Parsing it may fail, which changes nothing, *)
(* or tell more about the end of the message.                              *)
CallbackRecvSome(s) ==
  /\ Enter(s, "next")
  /\ HandlerAlive
  /\ aio[s] = "success" /\ state[s] = "RECV"
  /\ \E c \in Completion :
       /\ ~c.complete /\ (c.implicit => completion[s].implicit)
       /\ completion' = [completion EXCEPT ![s] = c]
  /\ received' = received \cup {query[s]}
  /\ UNCHANGED <<conn, pending, promise, heard, leaked, fault>>

(* The response is complete.                                               *)
CallbackRecvAll(s) ==
  /\ Enter(s, "cleanup")
  /\ HandlerAlive
  /\ aio[s] = "success" /\ state[s] = "RECV"
  /\ \E c \in Completion :
       /\ c.complete /\ (c.implicit => completion[s].implicit)
       /\ completion' = [completion EXCEPT ![s] = c]
  /\ received' = received \cup {query[s]}
  /\ Tell(s, <<"recv">>, "value")
  /\ Disconnect(s)
  /\ UNCHANGED leaked

(* The peer hung up on a message whose end is implicit: the callback goes  *)
(* on as if the operation had succeeded.                                   *)
CallbackHangup(s) ==
  /\ Enter(s, "next")
  /\ HandlerAlive
  /\ aio[s] = "hangup" /\ completion[s].implicit /\ ~completion[s].complete
  /\ UNCHANGED <<conn, completion, pending, promise, heard, received, leaked, fault>>

CallbackHangupComplete(s) ==
  /\ Enter(s, "cleanup")
  /\ HandlerAlive
  /\ aio[s] = "hangup" /\ completion[s].implicit /\ completion[s].complete
  /\ Tell(s, <<"recv">>, "value")
  /\ Disconnect(s)
  /\ UNCHANGED <<completion, received, leaked>>

CallbackError_GoesOn(s) ==
  /\ Enter(s, "next")
  /\ HandlerAlive
  /\ \/ aio[s] \in {"error", "canceled"}
     \/ aio[s] = "hangup" /\ ~completion[s].implicit
  /\ UNCHANGED <<conn, completion, pending, promise, heard, received, leaked, fault>>

(* Any other error ends the query.  res_completion is reset first, which   *)
(* makes the end implicit, so async_recv follows async_error.              *)
CallbackError(s) ==
  /\ Enter(s, "cleanup")
  /\ HandlerAlive
  /\ \/ aio[s] \in {"error", "canceled"}
     \/ aio[s] = "hangup" /\ ~completion[s].implicit
  /\ completion' = [completion EXCEPT ![s] = Unknown]
  /\ Tell(s, <<"error", "recv">>, "error")
  /\ Disconnect(s)
  /\ UNCHANGED <<received, leaked>>

(* async_sent returns.                                                     *)
EndSent(s) ==
  /\ fault = {}
  /\ InHandler(s)
  /\ callback' = [callback EXCEPT ![s] = "next"]
  /\ UNCHANGED <<actionVars, aio, conn, completion, leaving, boxVars, at, heard, received,
                 leaked, late, life, fault>>

-----------------------------------------------------------------------------
(***************************************************************************)
(* Action::_callback, second half, under HttpClient::mtx: the next         *)
(* operation on the connection, or back to the pool.                       *)
(***************************************************************************)
FinishNext(s) ==
  /\ fault = {}
  /\ callback[s] = "next"
  /\ callback' = [callback EXCEPT ![s] = "none"]
  /\ leaving' = leaving \cup {s}
  /\ aio' = [aio EXCEPT ![s] = "pending"]
  /\ state' = [state EXCEPT ![s] = IF @ = "CONNECT" THEN "SEND" ELSE "RECV"]
  /\ completion' = IF state[s] = "SEND" THEN [completion EXCEPT ![s] = Unknown]
                                        ELSE completion
  /\ late' = IF life = "waiting" THEN late \cup {s} ELSE late
  /\ fault' = IF conn[s] THEN fault ELSE fault \cup {"null"}
  /\ UNCHANGED <<active, idle, query, nextQueryID, conn, boxVars, at, heard, received, leaked, life>>

FinishCleanup(s) ==
  /\ fault = {}
  /\ callback[s] \in {"cleanup", "orphan"}
  /\ callback' = [callback EXCEPT ![s] = "none"]
  /\ leaving' = IF callback[s] = "cleanup" THEN leaving \cup {s} ELSE leaving
  /\ state' = [state EXCEPT ![s] = "IDLE"]
  /\ active' = active \ {s}
  /\ idle' = Append(idle, s)
  /\ UNCHANGED <<aio, query, nextQueryID, conn, completion, boxVars, at, heard,
                 received, leaked, late, life, fault>>

(* The callback returns.  A box that was dropped meanwhile breaks its      *)
(* promises with the last pointer to it.                                   *)
Break(ended) ==
  IF ended
  THEN /\ promise' = [q \in Id |-> IF q \in pending THEN "broken" ELSE promise[q]]
       /\ pending' = {}
  ELSE UNCHANGED <<promise, pending>>

Return(s) ==
  /\ fault = {}
  /\ s \in leaving
  /\ leaving' = leaving \ {s}
  /\ UNCHANGED <<actionVars, aio, conn, completion, callback, newQueryID, at, heard, received,
                 leaked, late, life, fault>>
  /\ Break(~HandlerAlive')

-----------------------------------------------------------------------------
(* ~HttpClient_Box, then ~HttpClient: see RequestClient.                   *)
DropBox ==
  /\ fault = {} /\ life = "alive"
  /\ \A c \in Caller : at[c] = None
  /\ life' = "dropped"
  /\ Break(~\E s \in Slot : Holds(s))
  /\ UNCHANGED <<actionVars, aio, conn, completion, callback, leaving, newQueryID, at, heard,
                 received, leaked, late, fault>>

CancelAll_OnlyReads ==
  /\ fault = {} /\ life = "dropped"
  /\ aio' = [s \in Slot |-> IF state[s] = "RECV" /\ aio[s] = "pending" THEN "canceled" ELSE aio[s]]
  /\ life' = "waiting"
  /\ UNCHANGED <<actionVars, conn, completion, callback, leaving, boxVars, at, heard, received,
                 leaked, late, fault>>

CancelAll ==
  /\ fault = {} /\ life = "dropped"
  /\ aio' = [s \in Slot |-> IF s \in active /\ aio[s] = "pending" THEN "canceled" ELSE aio[s]]
  /\ life' = "waiting"
  /\ UNCHANGED <<actionVars, conn, completion, callback, leaving, boxVars, at, heard, received,
                 leaked, late, fault>>

WaitAll ==
  /\ fault = {} /\ life = "waiting"
  /\ active = {}
  /\ life' = "destroyed"
  /\ UNCHANGED <<actionVars, aio, conn, completion, callback, leaving, boxVars, at, heard,
                 received, leaked, late, fault>>

-----------------------------------------------------------------------------
Callback(s) ==
  \/ CallbackNoHandler(s) \/ CallbackConnectStale(s) \/ CallbackConnect(s)
  \/ CallbackSent(s) \/ CallbackRecvSome(s) \/ CallbackRecvAll(s)
  \/ CallbackHangup(s) \/ CallbackHangupComplete(s) \/ CallbackError(s)
  \/ EndSent(s) \/ FinishNext(s) \/ FinishCleanup(s)

Outcome == {"success", "hangup", "error"}

Next ==
  \/ \E c \in Caller, s \in Slot : Request(c, s)
  \/ \E c \in Caller, s \in Slot : RequestDeclined(c, s)
  \/ \E c \in Caller : GetFuture(c)
  \/ \E s \in Slot, r \in Outcome : Complete(s, r)
  \/ \E s \in Slot : Callback(s)
  \/ \E s \in Slot : Return(s)
  \/ DropBox
  \/ CancelAll
  \/ WaitAll

Spec == Init /\ [][Next]_vars

(***************************************************************************)
(* Fairness.  Threads keep running.  Nothing makes the network end an      *)
(* operation: the code sets no timeout.                                    *)
(***************************************************************************)
Fairness ==
  /\ \A c \in Caller : WF_vars(GetFuture(c))
  /\ \A s \in Slot : WF_vars(Callback(s)) /\ WF_vars(Return(s))
  /\ WF_vars(CancelAll) /\ WF_vars(WaitAll)

FairSpec == Spec /\ Fairness

-----------------------------------------------------------------------------
(***************************************************************************)
(* Correctness.                                                            *)
(***************************************************************************)

(* The types of the pool, of the box and of what the handler heard.        *)
TypeOK ==
  /\ state \in [Slot -> {"IDLE", "CONNECT", "SEND", "RECV"}]
  /\ active \subseteq Slot /\ idle \in Seq(Slot)
  /\ aio \in [Slot -> {"none", "pending", "canceled"} \cup Outcome]
  /\ conn \in [Slot -> BOOLEAN]
  /\ completion \in [Slot -> Completion]
  /\ query \in [Slot -> Id]
  /\ callback \in [Slot -> {"none", "reading", "next", "cleanup", "orphan"}]
  /\ leaving \subseteq Slot /\ late \subseteq Slot
  /\ nextQueryID \in 0 .. MaxQueries
  /\ pending \subseteq Id /\ newQueryID \in Id
  /\ at \in [Caller -> Id \cup {None}]
  /\ promise \in [Id -> {"none", "open", "declined", "value", "error", "broken"}]
  /\ heard \in [Id -> Seq({"recv", "error"})]
  /\ received \subseteq Id /\ leaked \subseteq Id
  /\ life \in {"alive", "dropped", "waiting", "destroyed"}
  /\ fault \subseteq {"race", "null"}

(* An Action is active with an operation or a callback under way, or idle  *)
(* with neither and with no connection of its own, and in one place only,  *)
(* so a destructor that found none active deletes no Action in use.  And   *)
(* the types are right.  (A connection that the Action never took is not   *)
(* its own: NoConnectionLeaks.)                                            *)
PoolConsistent ==
  /\ TypeOK
  /\ \A s \in active :
       /\ state[s] # "IDLE"
       /\ aio[s] = "none" <=> callback[s] # "none"
       /\ \A i \in 1 .. Len(idle) : idle[i] # s
  /\ \A s \in Slot \ active :
       aio[s] = "none" /\ callback[s] = "none" /\ state[s] = "IDLE" /\ ~conn[s]
  /\ \A i, j \in 1 .. Len(idle) : idle[i] = idle[j] => i = j

(* A promise that was made can be kept: it is filed, and exactly one       *)
(* Action carries its id, so the response of one query never settles the   *)
(* promise of another.  Nobody sets a promise twice, although async_recv   *)
(* may follow async_error and the box may break what is left: a settled    *)
(* promise is not filed.                                                   *)
ResponseMeetsItsPromise ==
  fault = {} =>
    /\ \A q \in Id : promise[q] = "open" =>
         q \in pending /\ Cardinality({s \in active : query[s] = q}) = 1
    /\ \A q \in pending : promise[q] \in {"open", "declined"}

(* Actions and promises correspond while Actions are recycled: both of the *)
(* above.                                                                  *)
QueriesConsistent == PoolConsistent /\ ResponseMeetsItsPromise

(* What a request depends on: NNG ends every operation some time, and no   *)
(* server sends a response without end.                                    *)
OperationsEnd == \A s \in Slot : []<>(aio[s] # "pending")
ResponsesEnd == \A s \in Slot : <>[](state[s] = "RECV" => aio[s] # "success")

(* Then every request comes to an end, even when the server hangs up.      *)
EveryPromiseSettled ==
  OperationsEnd /\ ResponsesEnd =>
    \A q \in Id : promise[q] = "open" ~> (promise[q] # "open" \/ fault # {})

(* No connection is found hung up again and again.                         *)
HangupsEnd == <>[](\A s \in Slot : aio[s] # "hangup")

(* Unless an Action reads forever from a connection that was hung up,      *)
(* every request comes to an end, the box dropped or not: answered, failed *)
(* or broken.                                                              *)
SettledUnlessHungUp == HangupsEnd => EveryPromiseSettled

(* The destructor returns although no operation need ever end by itself:   *)
(* aio.cancel() ends them, whatever their stage.  It does not end one that *)
(* is begun afterwards, by a callback that was between two stages.         *)
DestructorReturns ==
  life = "dropped" ~> (life = "destroyed" \/ fault # {} \/ late # {})

(* The destructor returns, whatever the callbacks are doing meanwhile.     *)
DestructorAlwaysReturns == life = "dropped" ~> (life = "destroyed" \/ fault # {})

(* Every connection that is made is taken by its Action, which closes it.  *)
NoConnectionLeaks == leaked = {}

(* A response given to a caller was read from the server.                  *)
ResponseWasReceived == \A q \in Id : promise[q] = "value" => q \in received

(* The handler hears of a query's end once: async_recv or async_error.     *)
OneOutcome == \A q \in Id : Len(heard[q]) <= 1

(* The request is only written to a connection that was made.              *)
ConnectedBeforeSend == "null" \notin fault
=============================================================================
