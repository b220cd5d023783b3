------------------------------- MODULE RecvLoop -------------------------------
(***************************************************************************)
(* AsyncRecvLoop with an AsyncRecvQueue as its handler: the receiving half *)
(* of Pull_Box, Subscribe_Box and the server's routes                      *)
(* (src/include/telling/async_loop.h, async_queue.h, io_queue.h).          *)
(*                                                                         *)
(* One AIO receives over and over.  Its callback, on a thread of NNG,      *)
(* locks the weak pointer to the handler, calls it and receives again.     *)
(* The owner may start the loop, drop a handler, or destroy the loop.      *)
(***************************************************************************)
EXTENDS Naturals, Sequences

CONSTANTS
  Handler,   \* handlers given to recv_start, one after another
  Msg,       \* messages that arrive; the set bounds how many
  AioError,  \* errors that a receive may end with
  None

ASSUME NoneAssumption == None \notin Handler \cup Msg
ASSUME ErrorAssumption == AioError \subseteq {"timedout", "closed"}

VARIABLES
  handler,  \* AsyncRecvLoop::_handler, a weak pointer
  dropped,  \* handlers whose owner has released them
  aio,      \* "none", "pending", or the result of the receive
  msg,      \* message held by the AIO
  stopped,  \* the AIO was stopped, for good
  busy,     \* handler that the running callback holds
  stops,    \* calls of async_stop each handler has heard
  deq,      \* RecvQueueMtx::deq of each handler
  taken,    \* history: messages the user pulled from each handler
  arrived,  \* history: messages received while the handler was in place
  overlap,  \* history: a receive was started on an AIO in use
  life      \* progress of recv_stop and the destructor

vars == <<handler, dropped, aio, msg, stopped, busy, stops, deq, taken, arrived,
          overlap, life>>
queueVars == <<deq, taken>>

(* weak_ptr::lock succeeds while the owner or the callback has the handler. *)
Alive(h) == h # None /\ (h \notin dropped \/ busy = h)

Result == {"success", "canceled"} \cup AioError

Init ==
  /\ handler = None /\ dropped = {}
  /\ aio = "none" /\ msg = None /\ stopped = FALSE
  /\ busy = None
  /\ stops = [h \in Handler |-> 0]
  /\ deq = [h \in Handler |-> <<>>]
  /\ taken = [h \in Handler |-> <<>>]
  /\ arrived = [h \in Handler |-> <<>>]
  /\ overlap = FALSE
  /\ life = "alive"

(* ctx.recv on the AIO.  NNG refuses a stopped one, with or without another *)
(* callback, depending on its version.                                      *)
Receive == aio' \in IF stopped THEN {"none", "canceled"} ELSE {"pending"}

-----------------------------------------------------------------------------
(***************************************************************************)
(* recv_start.  It throws, without effect, while the last handler lives.   *)
(***************************************************************************)
RecvStart(h) ==
  /\ life = "alive"
  /\ ~Alive(handler)
  /\ h \notin dropped
  /\ handler' = h
  /\ overlap' = (overlap \/ aio # "none")
  /\ Receive
  /\ UNCHANGED <<dropped, msg, stopped, busy, stops, queueVars, arrived, life>>

(* NNG completes the receive: a message came, or it failed.                *)
Arrive(m) ==
  /\ aio = "pending"
  /\ \A h \in Handler : \A i \in 1 .. Len(arrived[h]) : arrived[h][i] # m
  /\ aio' = "success" /\ msg' = m
  /\ arrived' = IF Alive(handler) THEN [arrived EXCEPT ![handler] = Append(@, m)] ELSE arrived
  /\ UNCHANGED <<handler, dropped, stopped, busy, stops, queueVars, overlap, life>>

Fail(e) ==
  /\ aio = "pending"
  /\ aio' = e
  /\ UNCHANGED <<handler, dropped, msg, stopped, busy, stops, queueVars, arrived, overlap, life>>

-----------------------------------------------------------------------------
(***************************************************************************)
(* The callback.  Without a handler it frees the message and receiving     *)
(* ends; a timeout is reported and receiving goes on; any other error is   *)
(* reported, followed by async_stop.                                       *)
(***************************************************************************)
CallbackNoHandler ==
  /\ busy = None /\ aio \in Result
  /\ ~Alive(handler)
  /\ aio' = "none" /\ msg' = None
  /\ UNCHANGED <<handler, dropped, stopped, busy, stops, queueVars, arrived, overlap, life>>

CallbackRecv_Front ==
  /\ busy = None /\ aio = "success"
  /\ Alive(handler)
  /\ busy' = handler
  /\ deq' = [deq EXCEPT ![handler] = <<msg>> \o @]
  /\ aio' = "none" /\ msg' = None
  /\ UNCHANGED <<handler, dropped, stopped, stops, taken, arrived, overlap, life>>

CallbackRecv ==
  /\ busy = None /\ aio = "success"
  /\ Alive(handler)
  /\ busy' = handler
  /\ deq' = [deq EXCEPT ![handler] = Append(@, msg)]
  /\ aio' = "none" /\ msg' = None
  /\ UNCHANGED <<handler, dropped, stopped, stops, taken, arrived, overlap, life>>

CallbackTimeout ==
  /\ busy = None /\ aio = "timedout"
  /\ Alive(handler)
  /\ busy' = handler
  /\ aio' = "none"
  /\ UNCHANGED <<handler, dropped, msg, stopped, stops, queueVars, arrived, overlap, life>>

CallbackStop_Silent ==
  /\ busy = None /\ aio \in {"canceled", "closed"}
  /\ Alive(handler)
  /\ aio' = "none"
  /\ UNCHANGED <<handler, dropped, msg, stopped, busy, stops, queueVars, arrived, overlap, life>>

CallbackStop ==
  /\ busy = None /\ aio \in {"canceled", "closed"}
  /\ Alive(handler)
  /\ aio' = "none"
  /\ stops' = [stops EXCEPT ![handler] = @ + 1]
  /\ UNCHANGED <<handler, dropped, msg, stopped, busy, queueVars, arrived, overlap, life>>

(* The handler returned; the callback receives again and lets go of it.    *)
CallbackAgain ==
  /\ busy # None
  /\ busy' = None
  /\ overlap' = (overlap \/ aio # "none")
  /\ Receive
  /\ UNCHANGED <<handler, dropped, msg, stopped, stops, queueVars, arrived, life>>

-----------------------------------------------------------------------------
(* RecvQueueMtx::pull, by a user of the box.                               *)
Pull(h) ==
  /\ h \notin dropped
  /\ deq[h] # <<>>
  /\ taken' = [taken EXCEPT ![h] = Append(@, Head(deq[h]))]
  /\ deq' = [deq EXCEPT ![h] = Tail(@)]
  /\ UNCHANGED <<handler, dropped, aio, msg, stopped, busy, stops, arrived, overlap, life>>

(* The owner releases a handler.                                           *)
Drop(h) ==
  /\ h \notin dropped
  /\ dropped' = dropped \cup {h}
  /\ UNCHANGED <<handler, aio, msg, stopped, busy, stops, queueVars, arrived, overlap, life>>

(***************************************************************************)
(* recv_stop: aio.stop cancels a pending receive and waits for the         *)
(* callback, and async_stop follows.  A Route calls recv_stop in its       *)
(* destructor, and the destructor of the loop calls it again.              *)
(***************************************************************************)
StopAio_NoCancel ==
  /\ life \in {"alive", "stopped"}
  /\ stopped' = TRUE
  /\ life' = IF life = "alive" THEN "stopping" ELSE "destroying"
  /\ UNCHANGED <<handler, dropped, aio, msg, busy, stops, queueVars, arrived, overlap>>

StopAio ==
  /\ life \in {"alive", "stopped"}
  /\ stopped' = TRUE
  /\ aio' = IF aio = "pending" THEN "canceled" ELSE aio
  /\ life' = IF life = "alive" THEN "stopping" ELSE "destroying"
  /\ UNCHANGED <<handler, dropped, msg, busy, stops, queueVars, arrived, overlap>>

StopHandler ==
  /\ life \in {"stopping", "destroying"}
  /\ aio = "none" /\ busy = None
  /\ stops' = IF Alive(handler) THEN [stops EXCEPT ![handler] = @ + 1] ELSE stops
  /\ life' = IF life = "stopping" THEN "stopped" ELSE "destroyed"
  /\ UNCHANGED <<handler, dropped, aio, msg, stopped, busy, queueVars, arrived, overlap>>

-----------------------------------------------------------------------------
Callback ==
  \/ CallbackNoHandler \/ CallbackRecv \/ CallbackTimeout \/ CallbackStop
  \/ CallbackAgain

Next ==
  \/ \E h \in Handler : RecvStart(h)
  \/ \E m \in Msg : Arrive(m)
  \/ \E e \in AioError : Fail(e)
  \/ Callback
  \/ \E h \in Handler : Pull(h)
  \/ \E h \in Handler : Drop(h)
  \/ StopAio
  \/ StopHandler

Spec == Init /\ [][Next]_vars

(* NNG's threads run the callbacks, and the destructor runs to its end.    *)
Fairness == WF_vars(Callback) /\ WF_vars(StopHandler)

FairSpec == Spec /\ Fairness

-----------------------------------------------------------------------------
(***************************************************************************)
(* Correctness.                                                            *)
(***************************************************************************)

(* The types of the loop and of its handlers.                              *)
TypeOK ==
  /\ handler \in Handler \cup {None}
  /\ dropped \subseteq Handler
  /\ aio \in {"none", "pending"} \cup Result
  /\ msg \in Msg \cup {None}
  /\ stopped \in BOOLEAN
  /\ busy \in Handler \cup {None}
  /\ stops \in [Handler -> Nat]
  /\ deq \in [Handler -> Seq(Msg)]
  /\ taken \in [Handler -> Seq(Msg)]
  /\ arrived \in [Handler -> Seq(Msg)]
  /\ overlap \in BOOLEAN
  /\ life \in {"alive", "stopping", "stopped", "destroying", "destroyed"}

(* The inbox loses nothing and keeps the order: what arrived for a handler *)
(* that is still owned is what the user pulled, then the queue, then the   *)
(* message the callback is about to push.  And the types are right.        *)
InboxComplete ==
  /\ TypeOK
  /\ ~overlap => \A h \in Handler \ dropped :
       arrived[h] = taken[h] \o deq[h] \o
         (IF aio = "success" /\ handler = h THEN <<msg>> ELSE <<>>)

(* Receiving never ends behind the handler's back: while the handler       *)
(* lives, either a receive is under way or async_stop was called.          *)
DeafOnlyIfTold ==
  ~overlap /\ handler # None /\ handler \notin dropped =>
    aio # "none" \/ busy # None \/ stops[handler] > 0 \/ life # "alive"

(* A loop that is gone has no receive and no callback left.                *)
DestroyedIsQuiet ==
  life \in {"stopped", "destroyed"} /\ ~overlap => aio = "none" /\ busy = None

(* The loop is silent only when its handler knows, or has gone: both of    *)
(* the above.                                                              *)
SilentOnlyWhenDone == DeafOnlyIfTold /\ DestroyedIsQuiet

(* recv_stop returns.                                                      *)
StopReturns ==
  /\ life = "stopping" ~> life # "stopping"
  /\ life = "destroying" ~> life = "destroyed"

(* async_start and async_stop bracket the calls to a handler: the last one *)
(* is async_stop, and there is only one.                                   *)
StopIsLast == \A h \in Handler : stops[h] <= 1

(* recv_start refuses a loop that has been started: the AIO never has two  *)
(* receives.                                                               *)
NeverStartedTwice == ~overlap
=============================================================================
