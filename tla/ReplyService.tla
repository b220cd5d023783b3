------------------------------ MODULE ReplyService ------------------------------
(***************************************************************************)
(* Reply and Reply_Box: a service that answers requests                    *)
(* (src/src/telling/service_reply.cpp).                                    *)
(*                                                                         *)
(* Every query arrives on an NNG context of its own.  The receive callback *)
(* files the context under its id in `unresponded`, lets the handler have  *)
(* the query and receives again.  A reply reclaims the context and goes    *)
(* through an outbox that shares one AIO, as in SendBox: by the tag, from  *)
(* within the callback, or later by a thread that calls respondTo.         *)
(* For Reply_Box that thread is its user, taking queries from the inbox.   *)
(***************************************************************************)
EXTENDS Naturals, Sequences

CONSTANTS
  Query,      \* contexts of received queries; the set bounds how many
  Responder,  \* threads that answer queries the handler has put aside
  RecvThread, \* the thread of the receive callback, answering by the tag
  UsesTag,    \* the handler may answer by the tag (Reply_Box never does)
  LifeLocked, \* the handler's owner waits for callbacks that hold it
  AioError,   \* errors with which a send may end
  None

ASSUME NoneAssumption == None \notin Query /\ RecvThread \notin Responder
ASSUME FlagAssumption == UsesTag \in BOOLEAN /\ LifeLocked \in BOOLEAN
ASSUME ErrorAssumption == AioError \cap {"idle", "sending", "success"} = {}

Thread == Responder \cup {RecvThread}

VARIABLES
  recv,         \* receive callback: "armed", "entered", "handling", "stopped"
  ctx,          \* the context it works on (ctx_aio_recv after ctx.release)
  unresponded,  \* Reply::unresponded
  inbox,        \* queries put aside, in order (Reply_Box::Delegate::inbox)
  current,      \* the query each thread is answering (current_query)
  deq, busy,    \* the outbox: queue and flag
  claim,        \* context a thread is about to hand to aio_send
  aio,          \* aio_send: "idle", "sending" or a result
  ctx_aio_send, \* context of the last send
  sentcb,       \* send callback: "none" or "handling" with the handler locked
  received,     \* history: queries received
  ready,        \* Socket::isReady: the socket has a listener
  rejected,     \* history: queries whose reply was empty, or emptied by async_prep
  late,         \* history: contexts filed after ~Reply has closed those on file
  accepted,     \* history: replies in the order the outbox took them
  wire,         \* history: replies the transport took
  life,         \* progress of the destructor
  fault         \* the process has died

vars == <<recv, ctx, unresponded, inbox, current, deq, busy, claim, aio, ctx_aio_send,
          sentcb, received, ready, rejected, late, accepted, wire, life, fault>>
recvVars == <<recv, ctx, received, late>>
outVars  == <<deq, busy, claim, accepted>>
sendVars == <<aio, ctx_aio_send, sentcb, wire>>

(***************************************************************************)
(* _handler.lock(): the owner keeps the handler alive, and so does a       *)
(* callback that has locked it.                                            *)
(***************************************************************************)
Armed          == recv = "armed" /\ claim[RecvThread] = None
HeldByCallback == (~Armed /\ recv # "stopped") \/ sentcb = "handling"
HandlerAlive   == life = "alive" \/ HeldByCallback

Init ==
  /\ recv = "armed" /\ ctx = None
  /\ unresponded = {}
  /\ inbox = <<>>
  /\ current = [t \in Responder |-> None]
  /\ deq = <<>> /\ busy = FALSE
  /\ claim = [t \in Thread |-> None]
  /\ aio = "idle" /\ ctx_aio_send = None /\ sentcb = "none"
  /\ received = {} /\ rejected = {} /\ late = {} /\ ready = TRUE
  /\ accepted = <<>> /\ wire = <<>>
  /\ life = "alive" /\ fault = FALSE

-----------------------------------------------------------------------------
(***************************************************************************)
(* Reply::_aioReceived.  Without a handler it stops receiving.             *)
(***************************************************************************)
RecvNoHandler ==
  /\ ~fault /\ life # "destroyed"
  /\ Armed /\ ~HandlerAlive
  /\ recv' = "stopped"
  /\ UNCHANGED <<ctx, received, unresponded, inbox, current, outVars, sendVars, life, fault, late, ready, rejected>>

(* A failed receive is reported and ends the loop for good.                *)
RecvFails ==
  /\ ~fault /\ life # "destroyed"
  /\ Armed /\ HandlerAlive
  /\ recv' = "stopped"
  /\ UNCHANGED <<ctx, received, unresponded, inbox, current, outVars, sendVars, life, fault, late, ready, rejected>>

RecvEnter(q) ==
  /\ ~fault /\ life # "destroyed"
  /\ Armed /\ HandlerAlive
  /\ q \notin received
  /\ recv' = "entered" /\ ctx' = q
  /\ received' = received \cup {q}
  /\ UNCHANGED <<unresponded, inbox, current, outVars, sendVars, life, fault, late, ready, rejected>>

(* Under unresponded_mtx: file the context, release it from ctx_aio_recv.  *)
RecvFile ==
  /\ ~fault
  /\ recv = "entered"
  /\ recv' = "handling"
  /\ unresponded' = unresponded \cup {ctx}
  /\ late' = IF life = "closing" THEN late \cup {ctx} ELSE late
  /\ UNCHANGED <<ctx, received, inbox, current, outVars, sendVars, life, fault, ready, rejected>>

(* The handler puts the query aside; the callback receives again.          *)
RecvPutAside ==
  /\ ~fault
  /\ recv = "handling"
  /\ inbox' = Append(inbox, ctx)
  /\ recv' = "armed" /\ ctx' = None
  /\ UNCHANGED <<received, unresponded, current, outVars, sendVars, life, fault, late, ready, rejected>>

-----------------------------------------------------------------------------
(***************************************************************************)
(* The user listens, or disconnects the last listener.                     *)
(***************************************************************************)
Listen ==
  /\ ~fault /\ life = "alive"
  /\ ready' = ~ready
  /\ UNCHANGED <<recvVars, unresponded, inbox, current, outVars, sendVars, rejected, life, fault>>

(* outbox.produce: the caller is to send at once, or the reply is queued.  *)
Produce(t, q) ==
  /\ accepted' = Append(accepted, q)
  /\ IF busy
     THEN deq' = Append(deq, q) /\ UNCHANGED <<busy, claim>>
     ELSE busy' = TRUE /\ claim' = [claim EXCEPT ![t] = q] /\ UNCHANGED deq

(***************************************************************************)
(* Reply::respondTo, up to outbox.produce.  It throws when the socket has  *)
(* no listener.  Without a handler, or with an empty message, it returns   *)
(* and the context stays on file.  It throws on an unknown id.  Fault      *)
(* stands for the exception: in the receive callback nothing catches it.   *)
(***************************************************************************)
RespondTo_Unclaimed(t, q) ==
  Produce(t, q) /\ UNCHANGED <<unresponded, rejected, fault>>

RespondTo_Front(t, q) ==
  /\ unresponded' = unresponded \ {q}
  /\ accepted' = Append(accepted, q)
  /\ IF busy
     THEN deq' = <<q>> \o deq /\ UNCHANGED <<busy, claim>>
     ELSE busy' = TRUE /\ claim' = [claim EXCEPT ![t] = q] /\ UNCHANGED deq
  /\ UNCHANGED <<rejected, fault>>

RespondTo(t, q) ==
  IF ~ready THEN fault' = TRUE /\ UNCHANGED <<unresponded, outVars, rejected>>
  ELSE \/ rejected' = rejected \cup {q} /\ UNCHANGED <<unresponded, outVars, fault>>
       \/ /\ HandlerAlive
          /\ IF q \notin unresponded
             THEN fault' = TRUE /\ UNCHANGED <<unresponded, outVars>>
             ELSE /\ unresponded' = unresponded \ {q}
                  /\ Produce(t, q)
                  /\ UNCHANGED fault
          /\ UNCHANGED rejected

(* The handler answers by the tag, and the callback calls respondTo before *)
(* it receives again.                                                      *)
RecvRespond ==
  /\ ~fault
  /\ UsesTag
  /\ recv = "handling"
  /\ RespondTo(RecvThread, ctx)
  /\ recv' = "armed" /\ ctx' = None
  /\ UNCHANGED <<received, inbox, current, sendVars, life, late, ready>>

(***************************************************************************)
(* Reply_Box::receive and Reply_Box::respond.  Without a listener they     *)
(* throw first of all, to the thread that calls, and nothing changes; so   *)
(* does the one when a query is being answered, the other when none is.    *)
(***************************************************************************)
Take(t) ==
  /\ ~fault /\ life = "alive" /\ ready
  /\ current[t] = None /\ claim[t] = None
  /\ inbox # <<>>
  /\ current' = [current EXCEPT ![t] = Head(inbox)]
  /\ inbox' = Tail(inbox)
  /\ UNCHANGED <<recvVars, unresponded, outVars, sendVars, life, fault, ready, rejected>>

Respond(t) ==
  /\ ~fault /\ life = "alive" /\ ready
  /\ current[t] # None
  /\ RespondTo(t, current[t])
  /\ current' = [current EXCEPT ![t] = None]
  /\ UNCHANGED <<recvVars, inbox, sendVars, life, ready>>

(* The end of respondTo: hand the context and the message to aio_send.     *)
StartSend(t) ==
  /\ ~fault
  /\ claim[t] # None
  /\ ctx_aio_send' = claim[t] /\ aio' = "sending"
  /\ claim' = [claim EXCEPT ![t] = None]
  /\ UNCHANGED <<recvVars, unresponded, inbox, current, deq, busy, accepted, sentcb, wire, life, fault, ready, rejected>>

-----------------------------------------------------------------------------
(* The transport takes the reply, or the send fails.                       *)
TransportSends ==
  /\ ~fault
  /\ aio = "sending"
  /\ aio' = "success"
  /\ wire' = Append(wire, ctx_aio_send)
  /\ UNCHANGED <<recvVars, unresponded, inbox, current, outVars, ctx_aio_send, sentcb, life, fault, ready, rejected>>

TransportFails(e) ==
  /\ ~fault
  /\ aio = "sending"
  /\ aio' = e
  /\ UNCHANGED <<recvVars, unresponded, inbox, current, outVars, ctx_aio_send, sentcb, wire, life, fault, ready, rejected>>

(***************************************************************************)
(* Reply::_aioSent.  After an error it returns: nobody is told, and busy   *)
(* stays set.  After a success it calls the handler, which it has locked   *)
(* but not looked at: without one that is a call through a null pointer.   *)
(***************************************************************************)
SentFailed ==
  /\ ~fault
  /\ aio \in AioError
  /\ aio' = "idle"
  /\ UNCHANGED <<recvVars, unresponded, inbox, current, outVars, ctx_aio_send, sentcb, wire, life, fault, ready, rejected>>

SentNoHandler ==
  /\ ~fault
  /\ aio = "success" /\ sentcb = "none"
  /\ ~HandlerAlive
  /\ fault' = TRUE
  /\ UNCHANGED <<recvVars, unresponded, inbox, current, outVars, sendVars, life, ready, rejected>>

SentEnter ==
  /\ ~fault
  /\ aio = "success" /\ sentcb = "none"
  /\ HandlerAlive
  /\ sentcb' = "handling"
  /\ UNCHANGED <<recvVars, unresponded, inbox, current, outVars, aio, ctx_aio_send, wire, life, fault, ready, rejected>>

(* async_sent, then outbox.consume.                                        *)
SentConsume_StaysBusy ==
  /\ ~fault
  /\ sentcb = "handling"
  /\ IF deq = <<>>
     THEN aio' = "idle" /\ UNCHANGED <<deq, ctx_aio_send>>
     ELSE ctx_aio_send' = Head(deq) /\ deq' = Tail(deq) /\ aio' = "sending"
  /\ sentcb' = "none"
  /\ UNCHANGED <<recvVars, unresponded, inbox, current, busy, claim, accepted, wire, life, fault, ready, rejected>>

SentConsume ==
  /\ ~fault
  /\ sentcb = "handling"
  /\ IF deq = <<>>
     THEN busy' = FALSE /\ aio' = "idle" /\ UNCHANGED <<deq, ctx_aio_send>>
     ELSE /\ ctx_aio_send' = Head(deq) /\ deq' = Tail(deq) /\ aio' = "sending"
          /\ UNCHANGED busy
  /\ sentcb' = "none"
  /\ UNCHANGED <<recvVars, unresponded, inbox, current, claim, accepted, wire, life, fault, ready, rejected>>

-----------------------------------------------------------------------------
(***************************************************************************)
(* Destruction: first the handler, then ~Reply closes the contexts in      *)
(* `unresponded`, stops both AIO objects and, with its members, lets go of *)
(* the contexts in the outbox.  Nobody is inside respondTo meanwhile.      *)
(***************************************************************************)
DropHandler ==
  /\ ~fault /\ life = "alive"
  /\ \A t \in Responder : claim[t] = None
  /\ LifeLocked => ~HeldByCallback
  /\ life' = "dropped"
  /\ UNCHANGED <<recvVars, unresponded, inbox, current, outVars, sendVars, fault, ready, rejected>>

CloseUnresponded ==
  /\ ~fault /\ life = "dropped"
  /\ unresponded' = {}
  /\ life' = "closing"
  /\ UNCHANGED <<recvVars, inbox, current, outVars, sendVars, fault, ready, rejected>>

(* aio.stop() ends a send in progress and waits for the callbacks.         *)
StopSending ==
  /\ ~fault /\ life = "closing"
  /\ aio = "sending"
  /\ aio' = "idle"
  /\ UNCHANGED <<recvVars, unresponded, inbox, current, outVars, ctx_aio_send, sentcb, wire, life, fault, ready, rejected>>

Stop ==
  /\ ~fault /\ life = "closing"
  /\ aio = "idle" /\ sentcb = "none"
  /\ Armed \/ recv = "stopped"
  /\ recv' = "stopped" /\ ctx_aio_send' = None
  /\ life' = "destroyed"
  /\ UNCHANGED <<ctx, received, unresponded, inbox, current, outVars, aio, sentcb, wire, fault, late, ready, rejected>>

-----------------------------------------------------------------------------
Receiving == RecvNoHandler \/ RecvFile \/ RecvPutAside \/ RecvRespond
Sent      == SentFailed \/ SentNoHandler \/ SentEnter \/ SentConsume

Next ==
  \/ RecvFails \/ \E q \in Query : RecvEnter(q)
  \/ Receiving
  \/ \E t \in Responder : Take(t) \/ Respond(t)
  \/ \E t \in Thread : StartSend(t)
  \/ TransportSends \/ \E e \in AioError : TransportFails(e)
  \/ Sent
  \/ Listen
  \/ DropHandler \/ CloseUnresponded \/ StopSending \/ Stop

Spec == Init /\ [][Next]_vars

(***************************************************************************)
(* NNG's threads keep running, threads that answer queries go on doing so, *)
(* the transport finishes what it has started and the destructor proceeds. *)
(***************************************************************************)
Fairness ==
  /\ WF_vars(Receiving)
  /\ \A t \in Responder : WF_vars(Take(t) \/ Respond(t))
  /\ \A t \in Thread : WF_vars(StartSend(t))
  /\ WF_vars(TransportSends \/ \E e \in AioError : TransportFails(e))
  /\ WF_vars(Sent)
  /\ WF_vars(CloseUnresponded) /\ WF_vars(StopSending) /\ WF_vars(Stop)

FairSpec == Spec /\ Fairness

-----------------------------------------------------------------------------
(***************************************************************************)
(* Correctness.                                                            *)
(***************************************************************************)

(* The types of the variables of Reply and Reply_Box.                      *)
TypeOK ==
  /\ recv \in {"armed", "entered", "handling", "stopped"}
  /\ ctx \in IF recv \in {"entered", "handling"} THEN Query ELSE {None}
  /\ unresponded \subseteq Query
  /\ inbox \in Seq(Query)
  /\ current \in [Responder -> Query \cup {None}]
  /\ deq \in Seq(Query)
  /\ busy \in BOOLEAN
  /\ claim \in [Thread -> Query \cup {None}]
  /\ aio \in {"idle", "sending", "success"} \cup AioError
  /\ ctx_aio_send \in Query \cup {None}
  /\ sentcb \in {"none", "handling"}
  /\ received \subseteq Query /\ rejected \subseteq Query /\ late \subseteq Query
  /\ ready \in BOOLEAN
  /\ accepted \in Seq(Query)
  /\ wire \in Seq(Query)
  /\ life \in {"alive", "dropped", "closing", "destroyed"}
  /\ fault \in BOOLEAN

(* Where a context may be: filed, queued for sending, with a thread about  *)
(* to send it, or with the AIO.                                            *)
In(s, q) == \E i \in 1 .. Len(s) : s[i] = q
Outgoing(q) == In(deq, q) \/ \E t \in Thread : claim[t] = q

(* A context has one owner: it is filed in `unresponded` or on its way out *)
(* and never both, it is in one place of the outbox, and the AIO does not  *)
(* hold it as well.  Nothing closes or sends a context twice.  And the     *)
(* types are right.                                                        *)
OneOwner ==
  /\ TypeOK
  /\ \A q \in Query : Outgoing(q) => q \notin unresponded /\ q # ctx_aio_send
  /\ ctx_aio_send # None => ctx_aio_send \notin unresponded
  /\ \A i, j \in 1 .. Len(deq) : deq[i] = deq[j] => i = j
  /\ \A q \in Query, t \in Thread : claim[t] = q => ~In(deq, q)

(* The AIO has one user at a time, whichever thread answers.               *)
OneUserOfAio ==
  \A t \in Thread : claim[t] # None =>
    busy /\ aio = "idle" /\ \A u \in Thread : claim[u] # None => u = t

(* respondTo is never refused: a query put aside or being answered still   *)
(* has its context on file, so the thread that answers it, or NNG's own    *)
(* thread, is not killed by "no outstanding request with this queryID".    *)
AnswerIsExpected ==
  life = "alive" =>
    /\ \A i \in 1 .. Len(inbox) : inbox[i] \in unresponded
    /\ \A t \in Responder : current[t] # None => current[t] \in unresponded
    /\ recv = "handling" => ctx \in unresponded

(* When the communicator is gone, the only contexts still on file are      *)
(* those that the receive callback filed after ~Reply had closed the file; *)
(* and a life-locked handler leaves it no time for that.                   *)
ContextsClosed ==
  /\ life = "destroyed" => unresponded \subseteq late
  /\ LifeLocked => late = {}

(* A context is never used twice, by two threads or out of turn, and is    *)
(* closed in the end: all of the above.                                    *)
ContextsOwned == OneOwner /\ OneUserOfAio /\ AnswerIsExpected /\ ContextsClosed

(* A reply is on its way, outside the outbox; and how many replies are     *)
(* neither there nor queued.                                               *)
InFlight == (\E t \in Thread : claim[t] # None) \/ aio = "sending" \/ aio \in AioError
Settled  == Len(accepted) - Len(deq) - (IF InFlight THEN 1 ELSE 0)

Box == INSTANCE Outbox WITH Msg <- Query, settled <- Settled, open <- life # "destroyed"

(* Replies leave in the order in which they were given, none twice: the    *)
(* outbox of Reply implements Outbox.                                      *)
RepliesInOrder == Box!OSpec

(* Every query is answered in the end, when the socket goes on listening,  *)
(* the threads that answer queries put aside keep doing so and no send     *)
(* fails.  Two things may prevent it: the reply was empty or async_prep    *)
(* emptied it, and respondTo returned without a word; or an exception      *)
(* ended the process.                                                      *)
EveryQueryAnswered ==
  [](aio \notin AioError) /\ <>[]ready =>
    \A q \in Query : q \in received ~> (In(wire, q) \/ q \in rejected \/ life # "alive" \/ fault)

(* Every reply given is taken by the transport, or the handler hears of an *)
(* error, unless the communicator is destroyed.                            *)
EveryReplySettled ==
  \A q \in Query : In(accepted, q) ~> (In(wire, q) \/ life # "alive" \/ fault)

(* Destroying the communicator while a reply is on its way is safe.        *)
SurvivesDestruction == life # "alive" => ~fault

(* Answering by the tag is safe while the handler lives.                   *)
CallbackNeverThrows == life = "alive" => ~fault

(* A destroyed communicator has closed every context it received.          *)
NoContextLeft == life = "destroyed" => unresponded = {}
=============================================================================
