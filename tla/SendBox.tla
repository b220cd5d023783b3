-------------------------------- MODULE SendBox --------------------------------
(***************************************************************************)
(* A communicator that sends through an outbox: Push_Box and Publish_Box,  *)
(* that is AsyncSendLoop (src/include/telling/async_loop.h) driving an     *)
(* AsyncSendQueue (async_queue.h) over a SendQueueMtx (io_queue.h).        *)
(*                                                                         *)
(* One AIO is shared by the callers of send_msg and by its own callback;   *)
(* the flag _busy decides whose turn it is.  produce and consume run under *)
(* the queue's mutex and are one step each; handing a message to the AIO   *)
(* comes later, outside the mutex, and is a step of its own.               *)
(***************************************************************************)
EXTENDS Naturals, Sequences

CONSTANTS
  Caller,    \* threads that call push or publish
  Msg,       \* messages; each is sent once, so the set bounds the traffic
  AioError,  \* results other than success that the transport may report
  None

ASSUME MsgAssumption == None \notin Msg
ASSUME ErrorAssumption == AioError \cap {"idle", "sending", "success"} = {}

VARIABLES
  deq,       \* SendQueueMtx::deq
  busy,      \* SendQueueMtx::_busy
  claim,     \* the message a caller is about to hand to the AIO, or None
  aio,       \* state of the AIO: "idle", "sending", or the result of the
             \* operation whose callback has not run yet
  msg,       \* the message in the AIO, or None
  callback,  \* "none", "handling" with the handler locked, or "next"
  next,      \* nextMsg of the callback
  handler,   \* the queue is alive (life_locked)
  accepted,  \* history: messages in the order produce took them
  wire,      \* history: messages the transport took
  reported   \* history: messages whose loss async_error reported

vars == <<deq, busy, claim, aio, msg, callback, next, handler, accepted, wire, reported>>
historyVars == <<accepted, wire, reported>>

Accepted(m) == \E i \in 1 .. Len(accepted) : accepted[i] = m
Sent(m)     == \E i \in 1 .. Len(wire) : wire[i] = m

Init ==
  /\ deq = <<>>
  /\ busy = FALSE
  /\ claim = [c \in Caller |-> None]
  /\ aio = "idle"
  /\ msg = None
  /\ callback = "none"
  /\ next = None
  /\ handler = TRUE
  /\ accepted = <<>> /\ wire = <<>> /\ reported = {}

-----------------------------------------------------------------------------
(***************************************************************************)
(* send_msg, up to the end of async_prep: SendQueueMtx::produce.  A free   *)
(* queue becomes busy and leaves the message with the caller.              *)
(***************************************************************************)
Produce_Unmarked(c, m) ==
  IF busy
  THEN deq' = Append(deq, m) /\ UNCHANGED <<busy, claim>>
  ELSE claim' = [claim EXCEPT ![c] = m] /\ UNCHANGED <<busy, deq>>

Produce_Front(c, m) ==
  IF busy
  THEN deq' = <<m>> \o deq /\ UNCHANGED <<busy, claim>>
  ELSE busy' = TRUE /\ claim' = [claim EXCEPT ![c] = m] /\ UNCHANGED deq

Produce(c, m) ==
  IF busy
  THEN deq' = Append(deq, m) /\ UNCHANGED <<busy, claim>>
  ELSE busy' = TRUE /\ claim' = [claim EXCEPT ![c] = m] /\ UNCHANGED deq

SendMsg(c, m) ==
  /\ handler
  /\ claim[c] = None
  /\ ~Accepted(m)
  /\ Produce(c, m)
  /\ accepted' = Append(accepted, m)
  /\ UNCHANGED <<aio, msg, callback, next, handler, wire, reported>>

(* The rest of send_msg: set_msg and ctx.send.                             *)
StartSend(c) ==
  /\ claim[c] # None
  /\ msg' = claim[c]
  /\ aio' = "sending"
  /\ claim' = [claim EXCEPT ![c] = None]
  /\ UNCHANGED <<deq, busy, callback, next, handler, historyVars>>

-----------------------------------------------------------------------------
(* The transport takes the message, or the operation fails.                *)
TransportSends ==
  /\ aio = "sending"
  /\ aio' = "success"
  /\ wire' = Append(wire, msg)
  /\ msg' = None
  /\ UNCHANGED <<deq, busy, claim, callback, next, handler, accepted, reported>>

TransportFails(e) ==
  /\ aio = "sending"
  /\ aio' = e
  /\ UNCHANGED <<deq, busy, claim, msg, callback, next, handler, historyVars>>

(***************************************************************************)
(* AsyncSend_Callback_Self.  The handler is locked first; without one the  *)
(* callback returns.                                                       *)
(***************************************************************************)
Finished == aio \in {"success"} \cup AioError

CallbackStart ==
  /\ Finished /\ callback = "none"
  /\ handler
  /\ callback' = "handling"
  /\ UNCHANGED <<deq, busy, claim, aio, msg, next, handler, historyVars>>

CallbackNoHandler ==
  /\ Finished /\ callback = "none"
  /\ ~handler
  /\ aio' = "idle" /\ msg' = None
  /\ UNCHANGED <<deq, busy, claim, callback, next, handler, historyVars>>

(* async_sent: SendQueueMtx::consume, and the message it yields, if any.   *)
Consume_StaysBusy ==
  IF deq = <<>>
  THEN UNCHANGED <<busy, deq, next>> /\ callback' = "none"
  ELSE /\ next' = Head(deq) /\ deq' = Tail(deq)
       /\ callback' = "next"
       /\ UNCHANGED busy

Consume ==
  IF deq = <<>>
  THEN busy' = FALSE /\ UNCHANGED <<deq, next>> /\ callback' = "none"
  ELSE /\ next' = Head(deq) /\ deq' = Tail(deq)
       /\ callback' = "next"
       /\ UNCHANGED busy

CallbackSent ==
  /\ callback = "handling" /\ aio = "success"
  /\ Consume
  /\ aio' = "idle"
  /\ UNCHANGED <<claim, msg, handler, historyVars>>

(* async_error, which AsyncSendQueue inherits and which does nothing: no   *)
(* message is prompted, so the loop ends here.                             *)
CallbackError ==
  /\ callback = "handling" /\ aio \in AioError
  /\ reported' = reported \cup {msg}
  /\ aio' = "idle" /\ msg' = None
  /\ callback' = "none"
  /\ UNCHANGED <<deq, busy, claim, next, handler, accepted, wire>>

(* set_msg and ctx.send for the next message.                              *)
CallbackSendNext ==
  /\ callback = "next"
  /\ msg' = next /\ aio' = "sending"
  /\ next' = None /\ callback' = "none"
  /\ UNCHANGED <<deq, busy, claim, handler, historyVars>>

-----------------------------------------------------------------------------
(***************************************************************************)
(* The destructor.  _queue goes first and waits until no callback holds    *)
(* it; what is queued is never looked at again.  Then ~AsyncSendLoop stops *)
(* the AIO.  Nobody is inside send_msg on a communicator being destroyed.  *)
(***************************************************************************)
DestroyQueue ==
  /\ handler
  /\ callback = "none"
  /\ \A c \in Caller : claim[c] = None
  /\ handler' = FALSE
  /\ UNCHANGED <<deq, busy, claim, aio, msg, callback, next, historyVars>>

StopAio ==
  /\ ~handler
  /\ aio = "sending"
  /\ aio' = "idle" /\ msg' = None
  /\ UNCHANGED <<deq, busy, claim, callback, next, handler, historyVars>>

-----------------------------------------------------------------------------
Callback == CallbackStart \/ CallbackNoHandler \/ CallbackSent \/ CallbackError \/ CallbackSendNext

Next ==
  \/ \E c \in Caller, m \in Msg : SendMsg(c, m)
  \/ \E c \in Caller : StartSend(c)
  \/ TransportSends
  \/ \E e \in AioError : TransportFails(e)
  \/ Callback
  \/ DestroyQueue
  \/ StopAio

Spec == Init /\ [][Next]_vars

(***************************************************************************)
(* Callers and NNG's threads keep running, and the transport finishes what *)
(* it has started.  Nothing makes a caller send or destroy.                *)
(***************************************************************************)
Fairness ==
  /\ \A c \in Caller : WF_vars(StartSend(c))
  /\ WF_vars(TransportSends \/ \E e \in AioError : TransportFails(e))
  /\ WF_vars(Callback)

FairSpec == Spec /\ Fairness

-----------------------------------------------------------------------------
(***************************************************************************)
(* Correctness.                                                            *)
(***************************************************************************)

(* The types of the queue, the AIO and the callback.                       *)
TypeOK ==
  /\ deq \in Seq(Msg)
  /\ busy \in BOOLEAN
  /\ claim \in [Caller -> Msg \cup {None}]
  /\ aio \in {"idle", "sending", "success"} \cup AioError
  /\ msg \in Msg \cup {None}
  /\ callback \in {"none", "handling", "next"}
  /\ next \in Msg \cup {None}
  /\ handler \in BOOLEAN
  /\ accepted \in Seq(Msg)
  /\ wire \in Seq(Msg)
  /\ reported \subseteq Msg

(* The AIO has one user at a time: whoever is about to hand it a message,  *)
(* a caller that found the queue free or the callback that took the next   *)
(* one, finds it idle and is the only one in that position.  The flag      *)
(* _busy is all that keeps callers and callback apart.                     *)
OneUserOfAio ==
  /\ \A c \in Caller : claim[c] # None =>
       /\ busy
       /\ aio = "idle" /\ callback = "none"
       /\ \A d \in Caller : claim[d] # None => d = c
  /\ callback = "next" => busy /\ aio = "idle"
  /\ aio # "idle" => busy

(* A queue that is not busy is empty: no message waits for a callback that *)
(* will never come, however a caller's produce and the callback's consume  *)
(* interleave.                                                             *)
FreeMeansEmpty == ~busy => deq = <<>>

(* What callers and callback rely on when they share the queue: both of    *)
(* the above, and the types.                                               *)
QueueShared == TypeOK /\ OneUserOfAio /\ FreeMeansEmpty

(* A message is on its way, outside the queue.                             *)
InFlight ==
  \/ \E c \in Caller : claim[c] # None
  \/ aio = "sending" \/ aio \in AioError
  \/ callback = "next"

(* How many of the accepted messages are neither queued nor in flight.     *)
Settled == Len(accepted) - Len(deq) - (IF InFlight THEN 1 ELSE 0)

Box == INSTANCE Outbox WITH settled <- Settled, open <- handler

(* Messages leave in the order in which they were accepted, none twice,    *)
(* none forgotten while the communicator lives: the outbox implements      *)
(* Outbox.                                                                 *)
FifoOutbox == Box!OSpec

(* Every message accepted is handed to the transport or reported lost,     *)
(* unless the communicator is destroyed.                                   *)
EveryMessageSettled ==
  \A m \in Msg : Accepted(m) ~> (Sent(m) \/ m \in reported \/ ~handler)

(* As long as no send fails, none waits for good.                          *)
SettledUnlessSendFails == [](aio \notin AioError) => EveryMessageSettled
=============================================================================
