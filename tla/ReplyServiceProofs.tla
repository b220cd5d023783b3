-------------------------- MODULE ReplyServiceProofs --------------------------
(***************************************************************************)
(* Proofs that a context has one owner from the receive callback to the    *)
(* wire, and that replies leave in the order they were given, for any      *)
(* number of queries and of threads that answer them.                      *)
(***************************************************************************)
EXTENDS ReplyService, SequenceTheorems, TLAPS

(* Every id in use is the id of a query that was received.  So a context   *)
(* that has just arrived is nowhere else.                                  *)
IdsReceived ==
  /\ unresponded \subseteq received
  /\ \A q \in Query : Outgoing(q) \/ q = ctx_aio_send \/ q = ctx => q \in received
  /\ \A q \in Query : In(inbox, q) => q \in received
  /\ \A t \in Responder : current[t] # None => current[t] \in received

(* A query that waits for its answer waits in one place: with the receive  *)
(* callback, in the inbox, or with one thread.                             *)
WaitsOnce ==
  /\ \A i, j \in 1 .. Len(inbox) : inbox[i] = inbox[j] => i = j
  /\ \A t \in Responder : current[t] # None => ~In(inbox, current[t])
  /\ \A t, u \in Responder : current[t] # None /\ current[t] = current[u] => t = u
  /\ ctx # None => ~In(inbox, ctx) /\ \A t \in Responder : current[t] # ctx

(* A context that the callback has not filed yet has no other owner.       *)
NotFiledYet ==
  recv = "entered" => ctx \notin unresponded /\ ~Outgoing(ctx) /\ ctx # ctx_aio_send

(* The stages of the AIO: it is used only by whoever set busy, and what it *)
(* sends is a reply.                                                       *)
AioStages ==
  /\ aio # "idle" => busy
  /\ sentcb = "handling" => aio = "success"
  /\ ~busy => deq = <<>>
  /\ aio = "sending" \/ aio \in AioError => ctx_aio_send # None

(* The queue is the end of what was accepted, and the reply in flight      *)
(* comes just before it.                                                   *)
Position ==
  /\ Len(deq) + (IF InFlight THEN 1 ELSE 0) <= Len(accepted)
  /\ \A i \in 1 .. Len(deq) : deq[i] = accepted[Len(accepted) - Len(deq) + i]
  /\ \A t \in Thread : claim[t] # None => claim[t] = accepted[Len(accepted) - Len(deq)]
  /\ aio = "sending" \/ aio \in AioError => ctx_aio_send = accepted[Len(accepted) - Len(deq)]

(* A life-locked handler goes when no callback has it, and none gets it    *)
(* afterwards: what ~Reply closes stays closed.                            *)
DroppedIsQuiet ==
  LifeLocked => late = {} /\ (life # "alive" => ~HeldByCallback)

(* Once ~Reply has closed the contexts on file, only late ones are there.  *)
FiledLate == life \in {"closing", "destroyed"} => unresponded \subseteq late

(* What is left of a destroyed communicator receives nothing.              *)
StoppedForGood == life = "destroyed" => recv = "stopped"

Outgoings == OneOwner /\ OneUserOfAio /\ AioStages /\ NotFiledYet
ReplyInv ==
  /\ Outgoings /\ Position
  /\ IdsReceived /\ WaitsOnce /\ AnswerIsExpected
  /\ DroppedIsQuiet /\ FiledLate /\ StoppedForGood

-----------------------------------------------------------------------------
(***************************************************************************)
(* respondTo either changes nothing of the outbox or takes the context     *)
(* from `unresponded` to it.                                               *)
(***************************************************************************)
Produced(t, q) ==
  /\ q \in unresponded
  /\ unresponded' = unresponded \ {q}
  /\ accepted' = Append(accepted, q)
  /\ \/ busy /\ deq' = Append(deq, q) /\ UNCHANGED <<busy, claim>>
     \/ ~busy /\ busy' = TRUE /\ claim' = [claim EXCEPT ![t] = q] /\ UNCHANGED deq
  /\ UNCHANGED <<rejected, fault>>

(* It leaves the context where it is: it throws, or the reply was empty.   *)
Refused == UNCHANGED <<unresponded, outVars>> /\ fault' \in BOOLEAN /\ rejected' \subseteq Query

(* The two outcomes of respondTo.                                          *)
LEMMA RespondToCases ==
  ASSUME TypeOK, NEW t \in Thread, NEW q \in Query, RespondTo(t, q)
  PROVE  Produced(t, q) \/ Refused
  <1> USE DEF outVars
  <1>1. CASE \/ fault' = TRUE /\ UNCHANGED <<unresponded, outVars, rejected>>
             \/ rejected' = rejected \cup {q} /\ UNCHANGED <<unresponded, outVars, fault>>
    BY <1>1 DEF Refused, TypeOK
  <1>2. CASE /\ q \in unresponded /\ unresponded' = unresponded \ {q} /\ Produce(t, q)
             /\ UNCHANGED <<rejected, fault>>
    <2>1. CASE busy
      BY <1>2, <2>1 DEF Produce, Produced
    <2>2. CASE ~busy
      BY <1>2, <2>2, Zenon DEF Produce, Produced
    <2> QED BY <2>1, <2>2
  <1> QED BY <1>1, <1>2, Zenon DEF RespondTo

(* What is produced has its type.                                          *)
LEMMA ProducedTypes ==
  ASSUME TypeOK, NEW t \in Thread, NEW q \in Query,
         Produced(t, q) \/ Refused
  PROVE  /\ unresponded' \subseteq Query /\ accepted' \in Seq(Query) /\ deq' \in Seq(Query)
         /\ busy' \in BOOLEAN /\ claim' \in [Thread -> Query \cup {None}] /\ fault' \in BOOLEAN
         /\ rejected' \subseteq Query
  <1>1. Append(accepted, q) \in Seq(Query) /\ Append(deq, q) \in Seq(Query)
    BY AppendProperties DEF TypeOK
  <1> QED BY <1>1, Zenon DEF Produced, Refused, TypeOK, outVars

(* The types are kept.                                                     *)
LEMMA TypeStep == TypeOK /\ AioStages /\ [Next]_vars => TypeOK'
  <1> SUFFICES ASSUME TypeOK, AioStages, [Next]_vars PROVE TypeOK'
    OBVIOUS
  <1> USE NoneAssumption DEF TypeOK, recvVars, outVars, sendVars
  <1>1. CASE RecvNoHandler \/ RecvFails
    BY <1>1 DEF RecvNoHandler, RecvFails, Armed
  <1>2. ASSUME NEW q \in Query, RecvEnter(q) PROVE TypeOK'
    BY <1>2 DEF RecvEnter
  <1>3. CASE RecvFile
    BY <1>3 DEF RecvFile
  <1>4. CASE RecvPutAside
    <2>1. inbox' \in Seq(Query)
      BY <1>4, AppendProperties DEF RecvPutAside
    <2> QED BY <1>4, <2>1 DEF RecvPutAside
  <1>5. CASE RecvRespond
    <2>1. ctx \in Query /\ RecvThread \in Thread /\ RespondTo(RecvThread, ctx)
      BY <1>5 DEF RecvRespond, Thread
    <2>2. /\ unresponded' \subseteq Query /\ accepted' \in Seq(Query) /\ deq' \in Seq(Query)
          /\ busy' \in BOOLEAN /\ claim' \in [Thread -> Query \cup {None}] /\ fault' \in BOOLEAN
          /\ rejected' \subseteq Query
      BY <2>1, RespondToCases, ProducedTypes
    <2> QED BY <1>5, <2>2 DEF RecvRespond
  <1>6. ASSUME NEW t \in Responder, Take(t) PROVE TypeOK'
    <2>1. Head(inbox) \in Query /\ Tail(inbox) \in Seq(Query)
      BY <1>6, HeadTailProperties DEF Take
    <2> QED BY <1>6, <2>1 DEF Take
  <1>7. ASSUME NEW t \in Responder, Respond(t) PROVE TypeOK'
    <2>1. current[t] \in Query /\ t \in Thread /\ RespondTo(t, current[t])
      BY <1>7 DEF Respond, Thread
    <2>2. /\ unresponded' \subseteq Query /\ accepted' \in Seq(Query) /\ deq' \in Seq(Query)
          /\ busy' \in BOOLEAN /\ claim' \in [Thread -> Query \cup {None}] /\ fault' \in BOOLEAN
          /\ rejected' \subseteq Query
      BY <2>1, RespondToCases, ProducedTypes
    <2> QED BY <1>7, <2>2 DEF Respond
  <1>8. ASSUME NEW t \in Thread, StartSend(t) PROVE TypeOK'
    BY <1>8 DEF StartSend
  <1>9. CASE TransportSends
    <2>1. ctx_aio_send \in Query
      BY <1>9 DEF TransportSends, AioStages
    <2>2. wire' \in Seq(Query)
      BY <1>9, <2>1, AppendProperties DEF TransportSends
    <2> QED BY <1>9, <2>2 DEF TransportSends
  <1>10. ASSUME NEW e \in AioError, TransportFails(e) PROVE TypeOK'
    BY <1>10 DEF TransportFails
  <1>11. CASE SentFailed \/ SentNoHandler \/ SentEnter
    BY <1>11, Zenon DEF SentFailed, SentNoHandler, SentEnter
  <1>12. CASE SentConsume
    <2>1. deq # <<>> => Head(deq) \in Query /\ Tail(deq) \in Seq(Query)
      BY HeadTailProperties
    <2> QED BY <1>12, <2>1, Zenon DEF SentConsume
  <1>13. CASE DropHandler \/ CloseUnresponded \/ StopSending \/ Listen
    BY <1>13, Zenon DEF DropHandler, CloseUnresponded, StopSending, Listen
  <1>14. CASE Stop
    BY <1>14 DEF Stop, Armed
  <1>15. CASE UNCHANGED vars
    BY <1>15 DEF vars
  <1> QED
    BY <1>1, <1>2, <1>3, <1>4, <1>5, <1>6, <1>7, <1>8, <1>9, <1>10, <1>11, <1>12, <1>13,
       <1>14, <1>15, Zenon DEF Next, Receiving, Sent

-----------------------------------------------------------------------------
(* What is in a queue after push_back.                                     *)
LEMMA InPushBack ==
  ASSUME NEW s \in Seq(Query), NEW e \in Query
  PROVE  /\ \A x : In(Append(s, e), x) <=> In(s, x) \/ x = e
         /\ ~In(s, e) /\ (\A i, j \in 1 .. Len(s) : s[i] = s[j] => i = j)
              => \A i, j \in 1 .. Len(Append(s, e)) : Append(s, e)[i] = Append(s, e)[j] => i = j
  <1> DEFINE a == Append(s, e)
  <1>1. /\ Len(a) = Len(s) + 1 /\ Len(s) \in Nat
        /\ \A i \in 1 .. Len(s) : a[i] = s[i]
        /\ a[Len(s) + 1] = e
        /\ \A i \in 1 .. Len(a) : i = Len(s) + 1 \/ i \in 1 .. Len(s)
    BY AppendProperties
  <1>2. \A i \in 1 .. Len(s) : i \in 1 .. Len(a)
    BY <1>1
  <1>3. Len(s) + 1 \in 1 .. Len(a)
    BY <1>1
  <1> HIDE DEF a
  <1>4. \A x : In(a, x) <=> In(s, x) \/ x = e
    BY <1>1, <1>2, <1>3 DEF In
  <1>5. ~In(s, e) /\ (\A i, j \in 1 .. Len(s) : s[i] = s[j] => i = j)
          => \A i, j \in 1 .. Len(a) : a[i] = a[j] => i = j
    BY <1>1 DEF In
  <1> QED BY <1>4, <1>5 DEF a

(* What is in a queue before pop_front.                                    *)
LEMMA InPopFront ==
  ASSUME NEW s \in Seq(Query), s # <<>>
  PROVE  /\ \A x : In(s, x) <=> In(Tail(s), x) \/ x = Head(s)
         /\ (\A i, j \in 1 .. Len(s) : s[i] = s[j] => i = j) =>
              /\ ~In(Tail(s), Head(s))
              /\ \A i, j \in 1 .. Len(Tail(s)) : Tail(s)[i] = Tail(s)[j] => i = j
  <1> DEFINE b == Tail(s)
  <1>1. /\ Head(s) = s[1] /\ 1 \in 1 .. Len(s)
        /\ Len(s) \in Nat /\ Len(b) = Len(s) - 1
        /\ \A i \in 1 .. Len(b) : i + 1 \in 1 .. Len(s) /\ b[i] = s[i + 1]
    BY HeadTailProperties
  <1>2. \A i \in 1 .. Len(s) : i = 1 \/ (i - 1 \in 1 .. Len(b) /\ (i - 1) + 1 = i)
    BY <1>1
  <1> HIDE DEF b
  <1>3. ASSUME NEW x PROVE In(s, x) <=> In(b, x) \/ x = Head(s)
    <2>1. ASSUME NEW i \in 1 .. Len(s), s[i] = x PROVE In(b, x) \/ x = Head(s)
      <3>1. CASE i = 1
        BY <1>1, <2>1, <3>1
      <3>2. CASE i - 1 \in 1 .. Len(b) /\ (i - 1) + 1 = i
        <4>1. b[i - 1] = s[i]
          BY <1>1, <3>2
        <4> QED BY <2>1, <3>2, <4>1 DEF In
      <3> QED BY <1>2, <3>1, <3>2
    <2>2. In(b, x) \/ x = Head(s) => In(s, x)
      BY <1>1 DEF In
    <2> QED BY <2>1, <2>2 DEF In
  <1>4. ASSUME \A i, j \in 1 .. Len(s) : s[i] = s[j] => i = j
        PROVE  ~In(b, Head(s)) /\ \A i, j \in 1 .. Len(b) : b[i] = b[j] => i = j
    <2>1. \A i \in 1 .. Len(b) : i + 1 # 1
      BY <1>1
    <2>2. ~In(b, Head(s))
      BY <1>1, <1>4, <2>1 DEF In
    <2>3. \A i, j \in 1 .. Len(b) : i + 1 = j + 1 => i = j
      BY <1>1
    <2> QED BY <1>1, <1>4, <2>2, <2>3
  <1> QED BY <1>3, <1>4 DEF b

-----------------------------------------------------------------------------
(* A communicator starts with nothing received and nothing to send.        *)
LEMMA InitReply == Init => ReplyInv
  <1> SUFFICES ASSUME Init PROVE ReplyInv
    OBVIOUS
  <1> USE NoneAssumption, ErrorAssumption
  <1>1. busy \in BOOLEAN /\ fault \in BOOLEAN /\ ready \in BOOLEAN
    BY Zenon DEF Init
  <1>2. TypeOK
    BY <1>1 DEF Init, TypeOK
  <1>3. /\ Len(deq) = 0 /\ Len(inbox) = 0 /\ Len(accepted) = 0
        /\ \A t \in Thread : claim[t] = None
        /\ \A t \in Responder : current[t] = None
    BY DEF Init
  <1>4. \A q : ~In(deq, q) /\ ~In(inbox, q)
    BY <1>3 DEF In
  <1>5. \A q \in Query : ~Outgoing(q)
    BY <1>3, <1>4 DEF Outgoing
  <1>6. OneOwner /\ OneUserOfAio /\ AioStages /\ NotFiledYet
    BY <1>2, <1>3, <1>4, <1>5 DEF Init, OneOwner, OneUserOfAio, AioStages, NotFiledYet
  <1>7. ~InFlight
    BY <1>3 DEF Init, InFlight
  <1>8. Position
    BY <1>3, <1>7 DEF Init, Position
  <1>9. IdsReceived /\ WaitsOnce /\ AnswerIsExpected /\ DroppedIsQuiet /\ FiledLate /\ StoppedForGood
    BY <1>3, <1>4, <1>5
    DEF Init, IdsReceived, WaitsOnce, AnswerIsExpected, DroppedIsQuiet, FiledLate, StoppedForGood
  <1> QED BY <1>6, <1>8, <1>9 DEF ReplyInv, Outgoings

(***************************************************************************)
(* The outbox.  Steps that leave it alone, with the contexts on file.      *)
(***************************************************************************)
LEMMA OutboxFrame ==
  ASSUME Outgoings, Position, TypeOK',
         UNCHANGED <<unresponded, outVars, aio, ctx_aio_send, sentcb>>,
         recv' = "entered" => recv = "entered" /\ ctx' = ctx
  PROVE  Outgoings' /\ Position'
  <1>1. /\ UNCHANGED <<unresponded, deq, busy, claim, accepted, aio, ctx_aio_send, sentcb>>
        /\ \A q : Outgoing(q)' <=> Outgoing(q)
    BY DEF outVars, Outgoing, In
  <1>2. OneOwner'
    BY <1>1 DEF Outgoings, OneOwner, In
  <1>3. OneUserOfAio' /\ AioStages' /\ NotFiledYet'
    BY <1>1 DEF Outgoings, OneUserOfAio, AioStages, NotFiledYet
  <1>4. Position'
    BY <1>1 DEF Position, InFlight
  <1> QED BY <1>2, <1>3, <1>4 DEF Outgoings

(* respondTo moves a context from the file to the outbox: to the end of    *)
(* the queue, or to the thread, which then is the only user of the AIO.    *)
LEMMA ProducedOutbox ==
  ASSUME Outgoings, Position, TypeOK',
         NEW t \in Thread, NEW q \in Query, Produced(t, q),
         UNCHANGED <<aio, ctx_aio_send, sentcb>>,
         recv' = "entered" => recv = "entered" /\ ctx' = ctx
  PROVE  /\ Outgoings' /\ Position'
         /\ \A x : Outgoing(x)' => Outgoing(x) \/ x = q \/ x = None
  <1> USE NoneAssumption, ErrorAssumption
  <1>t. TypeOK /\ deq \in Seq(Query) /\ accepted \in Seq(Query)
    BY DEF Outgoings, OneOwner, TypeOK
  <1>0. /\ Len(accepted') = Len(accepted) + 1
        /\ Len(accepted) \in Nat /\ Len(deq) \in Nat
        /\ \A i \in 1 .. Len(accepted) : accepted'[i] = accepted[i]
        /\ accepted'[Len(accepted) + 1] = q
    BY <1>t, AppendProperties DEF Produced
  <1>1. /\ ~In(deq, q) /\ q # ctx_aio_send /\ q # None
        /\ \A u \in Thread : claim[u] # q
    BY DEF Produced, Outgoings, OneOwner, Outgoing
  <1>2. CASE busy
    <2>0. deq' = Append(deq, q) /\ UNCHANGED <<busy, claim>> /\ unresponded' = unresponded \ {q}
      BY <1>2 DEF Produced
    <2>1. /\ \A x : In(deq', x) <=> In(deq, x) \/ x = q
          /\ \A i, j \in 1 .. Len(deq') : deq'[i] = deq'[j] => i = j
      BY <1>t, <1>1, <2>0, InPushBack DEF Outgoings, OneOwner
    <2>2. \A x : Outgoing(x)' <=> Outgoing(x) \/ x = q
      BY <2>0, <2>1 DEF Outgoing, In
    <2>3. OneOwner'
      <3>1. \A x \in Query : Outgoing(x)' => x \notin unresponded' /\ x # ctx_aio_send'
        BY <1>1, <2>0, <2>2 DEF Outgoings, OneOwner
      <3>2. ctx_aio_send' # None => ctx_aio_send' \notin unresponded'
        BY <2>0 DEF Outgoings, OneOwner
      <3>3. \A x \in Query, u \in Thread : claim'[u] = x => ~In(deq', x)
        BY <1>1, <2>0, <2>1 DEF Outgoings, OneOwner
      <3> QED BY <2>1, <3>1, <3>2, <3>3 DEF OneOwner, In
    <2>4. OneUserOfAio' /\ AioStages'
      BY <1>2, <2>0 DEF Outgoings, OneUserOfAio, AioStages
    <2>5. NotFiledYet'
      BY <2>0, <2>2 DEF Outgoings, NotFiledYet, Produced
    <2>6. /\ Len(deq') = Len(deq) + 1
          /\ \A i \in 1 .. Len(deq) : deq'[i] = deq[i]
          /\ deq'[Len(deq) + 1] = q
          /\ \A i \in 1 .. Len(deq') : i = Len(deq) + 1 \/ i \in 1 .. Len(deq)
      BY <1>t, <2>0, AppendProperties
    <2>7. Len(accepted') - Len(deq') = Len(accepted) - Len(deq)
      BY <1>0, <2>6
    <2>8. InFlight' <=> InFlight
      BY <2>0 DEF InFlight
    <2>9. InFlight => accepted'[Len(accepted) - Len(deq)] = accepted[Len(accepted) - Len(deq)]
      BY <1>0 DEF Position
    <2>10. ASSUME NEW i \in 1 .. Len(deq')
           PROVE  deq'[i] = accepted'[Len(accepted') - Len(deq') + i]
      <3>1. CASE i = Len(deq) + 1
        BY <1>0, <2>6, <2>7, <3>1
      <3>2. CASE i \in 1 .. Len(deq)
        <4>1. Len(accepted) - Len(deq) + i \in 1 .. Len(accepted)
          BY <1>0, <3>2 DEF Position
        <4> QED BY <1>0, <2>6, <2>7, <3>2, <4>1, Zenon DEF Position
      <3> QED BY <2>6, <3>1, <3>2
    <2>11. Position'
      BY <1>0, <2>0, <2>6, <2>7, <2>8, <2>9, <2>10 DEF Position, InFlight
    <2> QED BY <2>2, <2>3, <2>4, <2>5, <2>11 DEF Outgoings
  <1>3. CASE ~busy
    <2>0. /\ UNCHANGED deq /\ busy' = TRUE /\ claim' = [claim EXCEPT ![t] = q]
          /\ deq = <<>> /\ Len(deq) = 0 /\ unresponded' = unresponded \ {q}
      BY <1>3 DEF Produced, Outgoings, AioStages
    <2>1. aio = "idle" /\ \A u \in Thread : claim[u] = None
      BY <1>3 DEF Outgoings, OneUserOfAio, AioStages
    <2>2. \A u \in Thread : claim'[u] = IF u = t THEN q ELSE None
      BY <1>t, <2>0, <2>1 DEF TypeOK
    <2>3. \A x : ~In(deq', x) /\ ~In(deq, x)
      BY <2>0 DEF In
    <2>4. \A x : Outgoing(x)' => x = q \/ x = None
      BY <2>2, <2>3 DEF Outgoing, In
    <2>5. OneOwner'
      <3>1. \A x \in Query : Outgoing(x)' => x \notin unresponded' /\ x # ctx_aio_send'
        BY <1>1, <2>0, <2>4
      <3>2. ctx_aio_send' # None => ctx_aio_send' \notin unresponded'
        BY <2>0 DEF Outgoings, OneOwner
      <3> QED BY <2>0, <2>3, <3>1, <3>2 DEF OneOwner, In
    <2>6. OneUserOfAio' /\ AioStages'
      BY <2>0, <2>1, <2>2 DEF Outgoings, OneUserOfAio, AioStages
    <2>7. NotFiledYet'
      BY <2>0, <2>4, <1>t, Zenon DEF Outgoings, NotFiledYet, Produced, TypeOK
    <2>8. Position'
      BY <1>0, <2>0, <2>1, <2>2 DEF Position, InFlight
    <2> QED BY <2>4, <2>5, <2>6, <2>7, <2>8 DEF Outgoings
  <1> QED BY <1>2, <1>3

(* A context that has just arrived is nowhere in the outbox; the callback  *)
(* files it.                                                               *)
LEMMA ReceiveOutbox ==
  ASSUME ReplyInv, TypeOK', (\E q \in Query : RecvEnter(q)) \/ RecvFile
  PROVE  Outgoings' /\ Position'
  <1>0. UNCHANGED <<deq, busy, claim, accepted, aio, ctx_aio_send, sentcb>>
    BY DEF RecvEnter, RecvFile, outVars, sendVars
  <1>1. \A x : Outgoing(x)' <=> Outgoing(x)
    BY <1>0 DEF Outgoing, In
  <1>2. OneUserOfAio' /\ AioStages' /\ Position'
    BY <1>0 DEF ReplyInv, Outgoings, OneUserOfAio, AioStages, Position, InFlight
  <1>3. OneOwner' /\ NotFiledYet'
    <2>1. ASSUME NEW q \in Query, RecvEnter(q) PROVE OneOwner' /\ NotFiledYet'
      <3>1. ctx' = q /\ q \notin received /\ UNCHANGED unresponded
        BY <2>1 DEF RecvEnter
      <3>2. NotFiledYet'
        BY <1>0, <1>1, <3>1 DEF ReplyInv, IdsReceived, NotFiledYet
      <3>3. OneOwner'
        BY <1>0, <1>1, <3>1 DEF ReplyInv, Outgoings, OneOwner, In
      <3> QED BY <3>2, <3>3
    <2>2. CASE RecvFile
      <3>1. recv = "entered" /\ recv' = "handling" /\ unresponded' = unresponded \cup {ctx}
        BY <2>2 DEF RecvFile
      <3>2. NotFiledYet'
        BY <3>1 DEF NotFiledYet
      <3>3. OneOwner'
        BY <1>0, <1>1, <3>1 DEF ReplyInv, Outgoings, OneOwner, NotFiledYet, In
      <3> QED BY <3>2, <3>3
    <2> QED BY <2>1, <2>2
  <1> QED BY <1>2, <1>3 DEF Outgoings

(* Steps that move the reply in flight along, or settle it.                *)
LEMMA MovesAlong ==
  ASSUME Outgoings, Position, UNCHANGED <<deq, accepted>>,
         InFlight' => InFlight,
         \A t \in Thread : claim'[t] # None => claim'[t] = claim[t],
         aio' = "sending" \/ aio' \in AioError =>
           ctx_aio_send' = accepted[Len(accepted) - Len(deq)]
  PROVE  Position'
  <1>1. Len(deq) \in Nat /\ Len(accepted) \in Nat
    BY DEF Outgoings, OneOwner, TypeOK
  <1>2. Len(deq') + (IF InFlight' THEN 1 ELSE 0) <= Len(accepted')
    BY <1>1 DEF Position
  <1> QED BY <1>2 DEF Position

(* The thread that has the AIO hands its context over.                     *)
LEMMA StartSendOutbox ==
  ASSUME Outgoings, Position, TypeOK', NEW t \in Thread, StartSend(t)
  PROVE  /\ Outgoings' /\ Position'
         /\ \A x : Outgoing(x)' \/ x = ctx_aio_send' => Outgoing(x) \/ x = None
  <1>0. /\ UNCHANGED <<recv, ctx, unresponded, deq, busy, accepted, sentcb>>
        /\ claim[t] # None /\ ctx_aio_send' = claim[t] /\ aio' = "sending"
        /\ claim' = [claim EXCEPT ![t] = None]
    BY DEF StartSend, recvVars
  <1>t. TypeOK /\ claim[t] \in Query
    BY <1>0 DEF Outgoings, OneOwner, TypeOK
  <1>1. /\ \A u \in Thread : claim'[u] = None
        /\ busy /\ aio = "idle"
    BY <1>0, <1>t DEF Outgoings, OneUserOfAio, TypeOK
  <1>2. \A x : Outgoing(x)' => In(deq, x) \/ x = None
    BY <1>0, <1>1, Zenon DEF Outgoing, In
  <1>3. Outgoing(claim[t]) /\ ~In(deq, claim[t])
    BY <1>t DEF Outgoing, Outgoings, OneOwner
  <1>4. OneOwner'
    <2>1. \A x \in Query : Outgoing(x)' => Outgoing(x) /\ x # ctx_aio_send'
      BY <1>0, <1>2, <1>3, NoneAssumption DEF Outgoing
    <2>2. ctx_aio_send' \notin unresponded'
      BY <1>0, <1>t, <1>3 DEF Outgoings, OneOwner
    <2> QED BY <1>0, <1>1, <2>1, <2>2, NoneAssumption DEF Outgoings, OneOwner, In
  <1>5. OneUserOfAio' /\ AioStages'
    BY <1>0, <1>1, ErrorAssumption DEF Outgoings, OneUserOfAio, AioStages
  <1>6. NotFiledYet'
    BY <1>0, <1>2, <1>3, <1>t, NoneAssumption DEF Outgoings, NotFiledYet, Outgoing, TypeOK
  <1>7. Position'
    BY <1>0, <1>1, MovesAlong DEF Position, InFlight
  <1>8. \A x : Outgoing(x)' \/ x = ctx_aio_send' => Outgoing(x) \/ x = None
    BY <1>0, <1>2, <1>3 DEF Outgoing
  <1> QED BY <1>4, <1>5, <1>6, <1>7, <1>8 DEF Outgoings

(* The transport finishes a send, or the destructor ends it; the callback  *)
(* starts, or returns after an error.                                      *)
LEMMA AioOutbox ==
  ASSUME Outgoings, Position, TypeOK',
         \/ TransportSends \/ \E e \in AioError : TransportFails(e)
         \/ SentFailed \/ SentEnter \/ StopSending
  PROVE  Outgoings' /\ Position'
  <1> USE ErrorAssumption
  <1>0. /\ UNCHANGED <<recv, ctx, unresponded, deq, busy, claim, accepted, ctx_aio_send>>
        /\ \/ aio = "sending" /\ aio' \in {"idle", "success"} \cup AioError /\ UNCHANGED sentcb
           \/ aio \in AioError /\ aio' = "idle" /\ UNCHANGED sentcb
           \/ aio = "success" /\ aio' = aio /\ sentcb' = "handling"
    BY DEF TransportSends, TransportFails, SentFailed, SentEnter, StopSending, recvVars, outVars
  <1>1. \A x : Outgoing(x)' <=> Outgoing(x)
    BY <1>0 DEF Outgoing, In
  <1>2. OneOwner' /\ NotFiledYet'
    BY <1>0, <1>1, Zenon DEF Outgoings, OneOwner, NotFiledYet, In
  <1>3. OneUserOfAio' /\ AioStages'
    BY <1>0 DEF Outgoings, OneUserOfAio, AioStages
  <1>4. Position'
    BY <1>0, MovesAlong DEF Position, InFlight
  <1> QED BY <1>2, <1>3, <1>4 DEF Outgoings

(* consume: the head of the queue goes to the AIO, or the queue is empty   *)
(* and becomes free.                                                       *)
LEMMA ConsumeOutbox ==
  ASSUME Outgoings, Position, TypeOK', SentConsume
  PROVE  /\ Outgoings' /\ Position'
         /\ \A x : Outgoing(x)' \/ x = ctx_aio_send' => Outgoing(x) \/ x = ctx_aio_send
  <1> USE ErrorAssumption
  <1>0. /\ UNCHANGED <<recv, ctx, unresponded, claim, accepted>>
        /\ sentcb = "handling" /\ sentcb' = "none"
    BY DEF SentConsume, recvVars
  <1>1. aio = "success" /\ busy /\ ~InFlight /\ \A t \in Thread : claim[t] = None
    BY <1>0 DEF Outgoings, AioStages, OneUserOfAio, InFlight
  <1>t. /\ TypeOK /\ deq \in Seq(Query)
        /\ Len(deq) \in Nat /\ Len(accepted) \in Nat
    BY DEF Outgoings, OneOwner, TypeOK
  <1>2. CASE deq = <<>>
    <2>0. busy' = FALSE /\ aio' = "idle" /\ UNCHANGED <<deq, ctx_aio_send>>
      BY <1>2 DEF SentConsume
    <2>1. \A x : Outgoing(x)' <=> Outgoing(x)
      BY <1>0, <2>0 DEF Outgoing, In
    <2>2. OneOwner' /\ NotFiledYet'
      BY <1>0, <2>0, <2>1 DEF Outgoings, OneOwner, NotFiledYet, In
    <2>3. OneUserOfAio' /\ AioStages'
      BY <1>0, <1>1, <1>2, <2>0 DEF OneUserOfAio, AioStages
    <2>4. Position'
      BY <1>0, <1>1, <2>0, MovesAlong DEF InFlight
    <2> QED BY <2>0, <2>1, <2>2, <2>3, <2>4 DEF Outgoings
  <1>3. CASE deq # <<>>
    <2>0. ctx_aio_send' = Head(deq) /\ deq' = Tail(deq) /\ aio' = "sending" /\ UNCHANGED busy
      BY <1>3 DEF SentConsume
    <2>1. /\ ctx_aio_send' \in Query /\ ctx_aio_send' = deq[1]
          /\ 1 \in 1 .. Len(deq)
          /\ Len(deq') = Len(deq) - 1
          /\ \A i \in 1 .. Len(deq') : i + 1 \in 1 .. Len(deq) /\ deq'[i] = deq[i + 1]
      BY <1>t, <1>3, <2>0, HeadTailProperties
    <2>2. /\ \A x : In(deq, x) <=> In(deq', x) \/ x = ctx_aio_send'
          /\ ~In(deq', ctx_aio_send')
          /\ \A i, j \in 1 .. Len(deq') : deq'[i] = deq'[j] => i = j
      BY <1>t, <1>3, <2>0, InPopFront DEF Outgoings, OneOwner
    <2>3. /\ \A x : Outgoing(x)' => Outgoing(x)
          /\ \A x \in Query : Outgoing(x)' => In(deq', x)
          /\ Outgoing(ctx_aio_send')
      BY <1>0, <1>1, <2>2, NoneAssumption, Zenon DEF Outgoing, In
    <2>4. OneOwner'
      <3>1. \A x \in Query : Outgoing(x)' => x \notin unresponded' /\ x # ctx_aio_send'
        BY <1>0, <2>2, <2>3 DEF Outgoings, OneOwner
      <3>2. ctx_aio_send' \notin unresponded'
        BY <1>0, <2>1, <2>3 DEF Outgoings, OneOwner
      <3> QED BY <1>0, <1>1, <2>2, <3>1, <3>2, NoneAssumption DEF OneOwner, In
    <2>5. OneUserOfAio' /\ AioStages'
      BY <1>0, <1>1, <2>0, <2>1, NoneAssumption DEF OneUserOfAio, AioStages
    <2>6. NotFiledYet'
      BY <1>0, <2>3 DEF Outgoings, NotFiledYet
    <2>7. ctx_aio_send' = accepted[Len(accepted) - Len(deq')]
      BY <1>t, <2>1 DEF Position
    <2>8. \A i \in 1 .. Len(deq') : deq'[i] = accepted[Len(accepted) - Len(deq') + i]
      BY <1>t, <2>1 DEF Position
    <2>9. Len(deq') + 1 <= Len(accepted)
      BY <1>t, <2>1 DEF Position
    <2>10. Position'
      BY <1>0, <1>1, <1>t, <2>0, <2>1, <2>7, <2>8, <2>9, Zenon DEF Position, InFlight
    <2> QED BY <2>3, <2>4, <2>5, <2>6, <2>10 DEF Outgoings
  <1> QED BY <1>2, <1>3

(* The destructor closes the contexts on file and stops the AIOs.          *)
LEMMA DestroyOutbox ==
  ASSUME Outgoings, Position, TypeOK', CloseUnresponded \/ Stop
  PROVE  Outgoings' /\ Position'
  <1>0. /\ UNCHANGED <<deq, busy, claim, accepted, aio, sentcb>>
        /\ unresponded' \subseteq unresponded
        /\ \/ UNCHANGED <<recv, ctx, ctx_aio_send>>
           \/ aio = "idle" /\ ctx_aio_send' = None /\ recv' = "stopped"
    BY DEF CloseUnresponded, Stop, recvVars, outVars, sendVars
  <1>1. \A x : Outgoing(x)' <=> Outgoing(x)
    BY <1>0 DEF Outgoing, In
  <1>2. OneOwner' /\ NotFiledYet'
    BY <1>0, <1>1, NoneAssumption DEF Outgoings, OneOwner, NotFiledYet, In
  <1>3. OneUserOfAio' /\ AioStages' /\ Position'
    BY <1>0, ErrorAssumption DEF Outgoings, OneUserOfAio, AioStages, Position, InFlight
  <1> QED BY <1>2, <1>3 DEF Outgoings

-----------------------------------------------------------------------------
(***************************************************************************)
(* The queries that wait.  Steps that receive and answer none.             *)
(***************************************************************************)
Queries == IdsReceived /\ WaitsOnce /\ AnswerIsExpected

(* Sending and destroying leave the waiting queries as they are.           *)
LEMMA QueriesFrame ==
  ASSUME Queries, UNCHANGED <<ctx, received, inbox, current>>,
         unresponded' \subseteq unresponded,
         recv' = "handling" => recv = "handling",
         life' = "alive" => life = "alive" /\ UNCHANGED unresponded,
         \A q \in Query : Outgoing(q)' \/ q = ctx_aio_send' => Outgoing(q) \/ q = ctx_aio_send
  PROVE  Queries'
  <1>1. IdsReceived'
    BY DEF Queries, IdsReceived, In
  <1>2. WaitsOnce'
    BY DEF Queries, WaitsOnce, In
  <1>3. AnswerIsExpected'
    BY DEF Queries, AnswerIsExpected
  <1> QED BY <1>1, <1>2, <1>3 DEF Queries

(* The callback receives a query and files it.                             *)
LEMMA ReceiveQueries ==
  ASSUME ReplyInv, (\E q \in Query : RecvEnter(q)) \/ RecvFile
  PROVE  Queries'
  <1>t. TypeOK
    BY DEF ReplyInv, Outgoings, OneOwner
  <1>0. /\ UNCHANGED <<inbox, current, deq, claim, ctx_aio_send, life>>
        /\ received \subseteq received' /\ unresponded \subseteq unresponded'
        /\ \A x : Outgoing(x)' <=> Outgoing(x)
    BY DEF RecvEnter, RecvFile, outVars, sendVars, Outgoing, In
  <1>1. IdsReceived'
    <2>1. unresponded' \subseteq received' /\ \A q \in Query : q = ctx' => q \in received'
      BY <1>t, <1>0 DEF ReplyInv, IdsReceived, RecvEnter, RecvFile, TypeOK
    <2> QED BY <1>0, <2>1 DEF ReplyInv, IdsReceived, In
  <1>2. WaitsOnce'
    <2>1. ASSUME NEW q \in Query, RecvEnter(q)
          PROVE  ~In(inbox, ctx') /\ \A t \in Responder : current[t] # ctx'
      BY <1>t, <2>1, NoneAssumption DEF ReplyInv, IdsReceived, RecvEnter, TypeOK
    <2>2. CASE RecvFile
      BY <1>0, <2>2 DEF ReplyInv, WaitsOnce, RecvFile, In
    <2> QED BY <1>0, <2>1, <2>2 DEF ReplyInv, WaitsOnce, In
  <1>3. AnswerIsExpected'
    <2>1. recv' = "handling" => ctx' \in unresponded'
      BY DEF RecvEnter, RecvFile
    <2> QED BY <1>0, <2>1 DEF ReplyInv, AnswerIsExpected
  <1> QED BY <1>1, <1>2, <1>3 DEF Queries

(* The handler puts the query aside, at the end of the inbox.              *)
LEMMA PutAsideQueries ==
  ASSUME ReplyInv, RecvPutAside
  PROVE  Queries'
  <1>t. TypeOK /\ inbox \in Seq(Query) /\ ctx \in Query
    BY DEF ReplyInv, Outgoings, OneOwner, TypeOK, RecvPutAside
  <1>0. /\ UNCHANGED <<received, unresponded, current, ctx_aio_send, life>>
        /\ recv = "handling" /\ recv' = "armed" /\ ctx' = None
        /\ inbox' = Append(inbox, ctx)
        /\ \A x : Outgoing(x)' <=> Outgoing(x)
    BY DEF RecvPutAside, outVars, sendVars, Outgoing, In
  <1>1. ~In(inbox, ctx) /\ \A t \in Responder : current[t] # ctx
    BY <1>t, NoneAssumption DEF ReplyInv, WaitsOnce
  <1>2. /\ \A x : In(inbox', x) <=> In(inbox, x) \/ x = ctx
        /\ \A i, j \in 1 .. Len(inbox') : inbox'[i] = inbox'[j] => i = j
    BY <1>t, <1>0, <1>1, InPushBack DEF ReplyInv, WaitsOnce
  <1>3. IdsReceived'
    BY <1>t, <1>0, <1>2, NoneAssumption DEF ReplyInv, IdsReceived, In
  <1>4. WaitsOnce'
    BY <1>0, <1>1, <1>2 DEF ReplyInv, WaitsOnce, In
  <1>5. AnswerIsExpected'
    <2>1. \A i \in 1 .. Len(inbox') : inbox'[i] = ctx \/ \E j \in 1 .. Len(inbox) : inbox'[i] = inbox[j]
      BY <1>2, Zenon DEF In
    <2> QED BY <1>0, <2>1 DEF ReplyInv, AnswerIsExpected
  <1> QED BY <1>3, <1>4, <1>5 DEF Queries

(* A thread takes the first query of the inbox.                            *)
LEMMA TakeQueries ==
  ASSUME ReplyInv, NEW t \in Responder, Take(t)
  PROVE  Queries'
  <1>t. TypeOK /\ inbox \in Seq(Query) /\ current \in [Responder -> Query \cup {None}]
    BY DEF ReplyInv, Outgoings, OneOwner, TypeOK
  <1>0. /\ UNCHANGED <<recv, ctx, received, unresponded, ctx_aio_send, life>>
        /\ inbox # <<>> /\ inbox' = Tail(inbox)
        /\ current' = [current EXCEPT ![t] = Head(inbox)]
        /\ \A x : Outgoing(x)' <=> Outgoing(x)
    BY DEF Take, recvVars, outVars, sendVars, Outgoing, In
  <1>1. /\ Head(inbox) \in Query /\ In(inbox, Head(inbox))
        /\ \A x : In(inbox, x) <=> In(inbox', x) \/ x = Head(inbox)
        /\ ~In(inbox', Head(inbox))
        /\ \A i, j \in 1 .. Len(inbox') : inbox'[i] = inbox'[j] => i = j
    BY <1>t, <1>0, InPopFront, HeadTailProperties DEF ReplyInv, WaitsOnce
  <1>2. \A u \in Responder : current'[u] = IF u = t THEN Head(inbox) ELSE current[u]
    BY <1>t, <1>0
  <1>3. IdsReceived'
    BY <1>0, <1>1, <1>2 DEF ReplyInv, IdsReceived, In
  <1>4. WaitsOnce'
    BY <1>0, <1>1, <1>2, NoneAssumption DEF ReplyInv, WaitsOnce, In
  <1>5. AnswerIsExpected'
    <2>1. \A i \in 1 .. Len(inbox') : In(inbox, inbox'[i])
      BY <1>1, Zenon DEF In
    <2>2. life = "alive" => \A x : In(inbox, x) => x \in unresponded
      BY DEF ReplyInv, AnswerIsExpected, In
    <2> QED BY <1>0, <1>1, <1>2, <2>1, <2>2 DEF ReplyInv, AnswerIsExpected
  <1> QED BY <1>3, <1>4, <1>5 DEF Queries

(* A query is answered: the callback or the thread that had it has it no   *)
(* more, and the other queries still have their contexts on file.          *)
LEMMA AnswerQueries ==
  ASSUME ReplyInv, NEW q \in Query, UNCHANGED <<received, inbox, life, ctx_aio_send>>,
         unresponded' \in {unresponded, unresponded \ {q}},
         \A x : Outgoing(x)' => Outgoing(x) \/ x = q \/ x = None,
         \/ /\ recv = "handling" /\ ctx = q /\ recv' = "armed" /\ ctx' = None
            /\ UNCHANGED current
         \/ /\ UNCHANGED <<recv, ctx>>
            /\ \E t \in Responder : current[t] = q /\ current' = [current EXCEPT ![t] = None]
  PROVE  Queries'
  <1>t. TypeOK /\ current \in [Responder -> Query \cup {None}]
    BY DEF ReplyInv, Outgoings, OneOwner, TypeOK
  <1> USE NoneAssumption
  <1>1. q \in received /\ ~In(inbox, q)
    BY DEF ReplyInv, IdsReceived, WaitsOnce
  <1>2. /\ \A u \in Responder : current'[u] # None => current'[u] = current[u] /\ current[u] # q
        /\ ctx' # None => ctx' = ctx /\ ctx # q /\ recv' = recv
        /\ recv' = "handling" => ctx' # None
    <2>1. CASE recv = "handling" /\ ctx = q /\ recv' = "armed" /\ ctx' = None /\ UNCHANGED current
      BY <2>1 DEF ReplyInv, WaitsOnce
    <2>2. ASSUME NEW t \in Responder, current[t] = q, current' = [current EXCEPT ![t] = None],
                 UNCHANGED <<recv, ctx>>
          PROVE  /\ \A u \in Responder : current'[u] # None => current'[u] = current[u] /\ current[u] # q
                 /\ ctx' # None => ctx' = ctx /\ ctx # q /\ recv' = recv
                 /\ recv' = "handling" => ctx' # None
      <3>1. \A u \in Responder : current'[u] # None => current'[u] = current[u] /\ current[u] # q
        BY <1>t, <2>2 DEF ReplyInv, WaitsOnce
      <3>2. ctx' # None => ctx' = ctx /\ ctx # q /\ recv' = recv
        BY <2>2 DEF ReplyInv, WaitsOnce
      <3>3. recv' = "handling" => ctx' # None
        BY <1>t, <2>2 DEF TypeOK
      <3> QED BY <3>1, <3>2, <3>3
    <2> QED BY <2>1, <2>2
  <1>3. IdsReceived'
    BY <1>1, <1>2 DEF ReplyInv, IdsReceived, In
  <1>4. WaitsOnce'
    <2>1. WaitsOnce /\ inbox' = inbox /\ \A p : In(inbox, p)' <=> In(inbox, p)
      BY DEF ReplyInv, In
    <2>2. \A u \in Responder : current'[u] # None => ~In(inbox, current'[u])
      BY <1>2, <2>1 DEF WaitsOnce
    <2>3. \A u, v \in Responder : current'[u] # None /\ current'[u] = current'[v] => u = v
      BY <1>2, <2>1 DEF WaitsOnce
    <2>4. ctx' # None => ~In(inbox, ctx') /\ \A u \in Responder : current'[u] # ctx'
      BY <1>2, <2>1 DEF WaitsOnce
    <2> QED BY <2>1, <2>2, <2>3, <2>4 DEF WaitsOnce, In
  <1>5. AnswerIsExpected'
    BY <1>1, <1>2 DEF ReplyInv, AnswerIsExpected, In
  <1> QED BY <1>3, <1>4, <1>5 DEF Queries

(* An answer, given by the tag or later, keeps the outbox and the queries  *)
(* that wait in order.                                                     *)
LEMMA AnswerStep ==
  ASSUME ReplyInv, TypeOK', RecvRespond \/ \E t \in Responder : Respond(t)
  PROVE  Outgoings' /\ Position' /\ Queries'
  <1>t. TypeOK /\ Outgoings /\ Position
    BY DEF ReplyInv, Outgoings, OneOwner
  <1>1. ASSUME NEW t \in Thread, NEW q \in Query, RespondTo(t, q),
               UNCHANGED <<received, inbox, life, aio, ctx_aio_send, sentcb>>,
               \/ /\ recv = "handling" /\ ctx = q /\ recv' = "armed" /\ ctx' = None
                  /\ UNCHANGED current
               \/ /\ UNCHANGED <<recv, ctx>>
                  /\ \E u \in Responder : current[u] = q /\ current' = [current EXCEPT ![u] = None]
        PROVE  Outgoings' /\ Position' /\ Queries'
    <2>0. recv' = "entered" => recv = "entered" /\ ctx' = ctx
      BY <1>1
    <2>1. CASE Produced(t, q)
      <3>1. Outgoings' /\ Position' /\ \A x : Outgoing(x)' => Outgoing(x) \/ x = q \/ x = None
        BY <1>t, <1>1, <2>0, <2>1, ProducedOutbox
      <3>2. unresponded' \in {unresponded, unresponded \ {q}}
        BY <2>1 DEF Produced
      <3>3. Queries'
        BY <1>1, <3>1, <3>2, AnswerQueries
      <3> QED BY <3>1, <3>3
    <2>2. CASE Refused
      <3>0. UNCHANGED <<unresponded, outVars>>
        BY <2>2 DEF Refused
      <3>1. Outgoings' /\ Position'
        BY <1>t, <1>1, <2>0, <3>0, OutboxFrame
      <3>2. \A x : Outgoing(x)' => Outgoing(x) \/ x = q \/ x = None
        BY <3>0 DEF outVars, Outgoing, In
      <3>3. Queries'
        BY <1>1, <3>0, <3>2, AnswerQueries
      <3> QED BY <3>1, <3>3
    <2> QED BY <1>t, <1>1, <2>1, <2>2, RespondToCases
  <1>2. CASE RecvRespond
    <2>1. RecvThread \in Thread /\ ctx \in Query /\ RespondTo(RecvThread, ctx)
      BY <1>t, <1>2 DEF RecvRespond, Thread, TypeOK
    <2>2. /\ UNCHANGED <<received, inbox, life, aio, ctx_aio_send, sentcb, current>>
          /\ recv = "handling" /\ recv' = "armed" /\ ctx' = None
      BY <1>2 DEF RecvRespond, sendVars
    <2> QED BY <1>1, <2>1, <2>2
  <1>3. ASSUME NEW t \in Responder, Respond(t) PROVE Outgoings' /\ Position' /\ Queries'
    <2>1. t \in Thread /\ current[t] \in Query /\ RespondTo(t, current[t])
      BY <1>t, <1>3 DEF Respond, Thread, TypeOK
    <2>2. /\ UNCHANGED <<received, inbox, life, aio, ctx_aio_send, sentcb, recv, ctx>>
          /\ current' = [current EXCEPT ![t] = None]
      BY <1>3 DEF Respond, sendVars, recvVars
    <2> QED BY <1>1, <2>1, <2>2, Zenon
  <1> QED BY <1>2, <1>3

-----------------------------------------------------------------------------
(* A context is filed late only while ~Reply is closing.                   *)
LEMMA LateStep ==
  ASSUME [Next]_vars
  PROVE  late' = late \/ (RecvFile /\ life = "closing")
  <1>1. CASE RecvFile
    BY <1>1 DEF RecvFile
  <1>2. CASE ~RecvFile
    BY <1>2, Zenon DEF Next, Receiving, Sent, RecvNoHandler, RecvFails, RecvEnter, RecvPutAside,
       RecvRespond, Take, Respond, StartSend, TransportSends, TransportFails, SentFailed,
       SentNoHandler, SentEnter, SentConsume, Listen, DropHandler, CloseUnresponded, StopSending,
       Stop, recvVars, vars
  <1> QED BY <1>1, <1>2

(* Once a life-locked handler has been dropped, no callback is given it,   *)
(* and nothing is filed any more.                                          *)
LEMMA QuietStep ==
  ASSUME ReplyInv, TypeOK', [Next]_vars
  PROVE  DroppedIsQuiet'
  <1> SUFFICES ASSUME LifeLocked PROVE DroppedIsQuiet'
    BY DEF DroppedIsQuiet
  <1>t. TypeOK /\ late = {}
    BY DEF ReplyInv, Outgoings, OneOwner, DroppedIsQuiet
  <1>1. CASE life = "alive"
    <2>0. late' = {}
      BY <1>t, <1>1, LateStep
    <2>1. CASE life' = "alive"
      BY <2>0, <2>1 DEF DroppedIsQuiet
    <2>2. CASE DropHandler
      BY <2>0, <2>2 DEF DropHandler, DroppedIsQuiet, recvVars, outVars, sendVars, HeldByCallback, Armed
    <2>3. life' # life => DropHandler
      BY <1>1, Zenon DEF Next, Receiving, Sent, RecvNoHandler, RecvFails, RecvEnter, RecvFile, RecvPutAside,
         RecvRespond, Take, Respond, StartSend, TransportSends, TransportFails, SentFailed,
         SentNoHandler, SentEnter, SentConsume, Listen, CloseUnresponded, StopSending, Stop, vars
    <2> QED BY <1>1, <2>1, <2>2, <2>3
  <1>2. CASE life # "alive"
    <2>0. /\ ~HeldByCallback /\ ~HandlerAlive
          /\ sentcb = "none" /\ recv # "entered" /\ recv # "handling"
          /\ recv = "armed" => claim[RecvThread] = None
      BY <1>t, <1>2 DEF ReplyInv, DroppedIsQuiet, HeldByCallback, HandlerAlive, Armed, TypeOK
    <2>1. /\ sentcb' = "none" /\ recv' \in {recv, "stopped"}
          /\ \A t \in Thread : claim'[t] \in {claim[t], None}
      <3>1. CASE RecvNoHandler \/ CloseUnresponded \/ StopSending \/ Stop
        BY <1>t, <1>2, <2>0, <3>1
        DEF RecvNoHandler, CloseUnresponded, StopSending, Stop, recvVars, outVars, sendVars
      <3>2. ASSUME NEW t \in Thread, StartSend(t)
            PROVE  /\ \A u \in Thread : claim'[u] \in {claim[u], None}
                   /\ UNCHANGED <<recv, sentcb>>
        BY <1>t, <3>2 DEF StartSend, recvVars, TypeOK
      <3>3. CASE TransportSends \/ (\E e \in AioError : TransportFails(e)) \/ SentFailed \/ SentNoHandler
        BY <1>2, <2>0, <3>3
        DEF TransportSends, TransportFails, SentFailed, SentNoHandler, recvVars, outVars, sendVars
      <3>4. CASE UNCHANGED vars
        BY <1>2, <2>0, <3>4 DEF vars
      <3>5. /\ ~RecvFails /\ ~RecvFile /\ ~RecvPutAside /\ ~RecvRespond /\ ~SentEnter
            /\ ~SentConsume /\ ~DropHandler /\ ~Listen
            /\ \A q \in Query : ~RecvEnter(q)
            /\ \A t \in Responder : ~Take(t) /\ ~Respond(t)
        BY <1>2, <2>0, Zenon DEF RecvFails, RecvFile, RecvPutAside, RecvRespond, SentEnter,
           SentConsume, DropHandler, Listen, RecvEnter, Take, Respond
      <3> QED BY <1>2, <2>0, <3>1, <3>2, <3>3, <3>4, <3>5, Zenon DEF Next, Receiving, Sent
    <2>2. ~HeldByCallback'
      BY <2>0, <2>1 DEF HeldByCallback, Armed, Thread
    <2>3. late' = {}
      BY <1>t, <2>0, LateStep DEF RecvFile
    <2> QED BY <2>2, <2>3, Zenon DEF DroppedIsQuiet
  <1> QED BY <1>1, <1>2

(* After ~Reply has closed the contexts on file, whatever is filed is      *)
(* late.                                                                   *)
LEMMA FiledStep ==
  ASSUME ReplyInv, [Next]_vars
  PROVE  FiledLate'
  <1>t. TypeOK /\ FiledLate
    BY DEF ReplyInv, Outgoings, OneOwner
  <1>1. CASE CloseUnresponded
    BY <1>1 DEF CloseUnresponded, FiledLate
  <1>2. CASE RecvFile
    <2>1. life # "destroyed"
      BY <1>2 DEF RecvFile, ReplyInv, StoppedForGood
    <2> QED BY <1>t, <1>2, <2>1 DEF RecvFile, FiledLate, TypeOK
  <1>3. CASE RecvRespond \/ \E t \in Responder : Respond(t)
    <2>1. ASSUME NEW t \in Thread, NEW q \in Query, RespondTo(t, q) PROVE unresponded' \subseteq unresponded
      BY <1>t, <2>1, RespondToCases DEF Produced, Refused
    <2>2. RecvRespond => unresponded' \subseteq unresponded
      BY <1>t, <2>1 DEF RecvRespond, Thread, TypeOK
    <2>3. ASSUME NEW t \in Responder, Respond(t) PROVE unresponded' \subseteq unresponded
      BY <1>t, <2>1, <2>3 DEF Respond, Thread, TypeOK
    <2>4. unresponded' \subseteq unresponded /\ UNCHANGED <<life, late>>
      BY <1>3, <2>2, <2>3 DEF RecvRespond, Respond, recvVars
    <2> QED BY <1>t, <2>4, Zenon DEF FiledLate
  <1>4. CASE ~CloseUnresponded /\ ~RecvFile /\ ~RecvRespond /\ ~\E t \in Responder : Respond(t)
    <2>1. UNCHANGED <<unresponded, late>>
      BY <1>4, Zenon DEF Next, Receiving, Sent, RecvNoHandler, RecvFails, RecvEnter, RecvPutAside,
         Take, StartSend, TransportSends, TransportFails, SentFailed, SentNoHandler, SentEnter,
         SentConsume, Listen, DropHandler, StopSending, Stop, recvVars, vars
    <2>2. life' \in {"closing", "destroyed"} => life \in {"closing", "destroyed"}
      BY <1>4, Zenon DEF Next, Receiving, Sent, RecvNoHandler, RecvFails, RecvEnter, RecvPutAside,
         Take, StartSend, TransportSends, TransportFails, SentFailed, SentNoHandler, SentEnter,
         SentConsume, Listen, DropHandler, StopSending, Stop, vars
    <2> QED BY <1>t, <2>1, <2>2, Zenon DEF FiledLate
  <1> QED BY <1>1, <1>2, <1>3, <1>4

(* Stop ends the receive loop and nothing starts it again.                 *)
LEMMA StoppedStep ==
  ASSUME StoppedForGood, [Next]_vars
  PROVE  StoppedForGood'
  <1>1. CASE life = "destroyed"
    <2>1. recv = "stopped"
      BY <1>1 DEF StoppedForGood
    <2> QED BY <1>1, <2>1, Zenon DEF StoppedForGood, Next, Receiving, Sent, RecvNoHandler, RecvFails, RecvEnter,
         RecvFile, RecvPutAside, RecvRespond, Take, Respond, StartSend, TransportSends, TransportFails,
         SentFailed, SentNoHandler, SentEnter, SentConsume, Listen, DropHandler, CloseUnresponded, StopSending,
         Stop, Armed, recvVars, vars
  <1>2. CASE life # "destroyed" /\ life' = "destroyed"
    <2>1. Stop
      BY <1>2, Zenon DEF Next, Receiving, Sent, RecvNoHandler, RecvFails, RecvEnter,
         RecvFile, RecvPutAside, RecvRespond, Take, Respond, StartSend, TransportSends, TransportFails,
         SentFailed, SentNoHandler, SentEnter, SentConsume, Listen, DropHandler, CloseUnresponded, StopSending, vars
    <2> QED BY <2>1 DEF Stop, StoppedForGood
  <1> QED BY <1>1, <1>2 DEF StoppedForGood

(* The invariant is inductive: one case per kind of step.                  *)
LEMMA NextReply == ReplyInv /\ [Next]_vars => ReplyInv'
  <1> SUFFICES ASSUME ReplyInv, [Next]_vars PROVE ReplyInv'
    OBVIOUS
  <1>t. TypeOK /\ Outgoings /\ Position /\ Queries
    BY DEF ReplyInv, Outgoings, OneOwner, Queries
  <1>t1. TypeOK'
    BY <1>t, TypeStep DEF Outgoings
  <1>q. DroppedIsQuiet' /\ FiledLate' /\ StoppedForGood'
    BY <1>t1, QuietStep, FiledStep, StoppedStep DEF ReplyInv
  <1> DEFINE Goal == Outgoings' /\ Position' /\ Queries'
  <1> SUFFICES Goal
    BY <1>q DEF ReplyInv, Queries
  <1> HIDE DEF Goal
  <1>1. CASE RecvNoHandler \/ RecvFails \/ SentNoHandler \/ DropHandler \/ Listen
    <2>1. /\ UNCHANGED <<ctx, received, inbox, current, unresponded, outVars, aio, ctx_aio_send, sentcb>>
          /\ recv' \in {recv, "stopped"} /\ (life' = "alive" => life = "alive")
      BY <1>1 DEF RecvNoHandler, RecvFails, SentNoHandler, DropHandler, Listen, recvVars, sendVars
    <2>2. Outgoings' /\ Position'
      BY <1>t, <1>t1, <2>1, OutboxFrame
    <2>3. \A q \in Query : Outgoing(q)' \/ q = ctx_aio_send' => Outgoing(q) \/ q = ctx_aio_send
      BY <2>1 DEF outVars, Outgoing, In
    <2>4. Queries'
      BY <1>t, <2>1, <2>3, QueriesFrame
    <2> QED BY <2>2, <2>4 DEF Goal
  <1>2. CASE (\E q \in Query : RecvEnter(q)) \/ RecvFile
    BY <1>t1, <1>2, ReceiveOutbox, ReceiveQueries DEF Goal
  <1>3. CASE RecvPutAside
    <2>1. /\ UNCHANGED <<unresponded, outVars, aio, ctx_aio_send, sentcb>> /\ recv' = "armed"
      BY <1>3 DEF RecvPutAside, sendVars
    <2>2. Outgoings' /\ Position'
      BY <1>t, <1>t1, <2>1, OutboxFrame
    <2> QED BY <1>3, <2>2, PutAsideQueries DEF Goal
  <1>4. CASE RecvRespond \/ \E t \in Responder : Respond(t)
    BY <1>t1, <1>4, AnswerStep DEF Goal
  <1>5. ASSUME NEW t \in Responder, Take(t) PROVE Goal
    <2>1. /\ UNCHANGED <<unresponded, outVars, aio, ctx_aio_send, sentcb, recv, ctx>>
      BY <1>5 DEF Take, recvVars, sendVars
    <2>2. Outgoings' /\ Position'
      BY <1>t, <1>t1, <2>1, OutboxFrame
    <2> QED BY <1>5, <2>2, TakeQueries DEF Goal
  <1>6. ASSUME NEW t \in Thread, StartSend(t) PROVE Goal
    <2>1. UNCHANGED <<ctx, received, inbox, current, unresponded, recv, life>>
      BY <1>6 DEF StartSend, recvVars
    <2>2. /\ Outgoings' /\ Position'
          /\ \A x : Outgoing(x)' \/ x = ctx_aio_send' => Outgoing(x) \/ x = None
      BY <1>t, <1>t1, <1>6, StartSendOutbox
    <2>3. \A q \in Query : Outgoing(q)' \/ q = ctx_aio_send' => Outgoing(q) \/ q = ctx_aio_send
      BY <2>2, NoneAssumption
    <2>4. Queries'
      BY <1>t, <2>1, <2>3, QueriesFrame
    <2> QED BY <2>2, <2>4 DEF Goal
  <1>7. CASE \/ TransportSends \/ \E e \in AioError : TransportFails(e)
             \/ SentFailed \/ SentEnter \/ StopSending
    <2>1. UNCHANGED <<ctx, received, inbox, current, unresponded, recv, life, deq, claim, ctx_aio_send>>
      BY <1>7
      DEF TransportSends, TransportFails, SentFailed, SentEnter, StopSending, recvVars, outVars
    <2>2. \A q \in Query : Outgoing(q)' \/ q = ctx_aio_send' => Outgoing(q) \/ q = ctx_aio_send
      BY <2>1 DEF Outgoing, In
    <2>3. Queries'
      BY <1>t, <2>1, <2>2, QueriesFrame
    <2> QED BY <1>t, <1>t1, <1>7, <2>3, AioOutbox DEF Goal
  <1>8. CASE SentConsume
    <2>1. UNCHANGED <<ctx, received, inbox, current, unresponded, recv, life>>
      BY <1>8 DEF SentConsume, recvVars
    <2>2. /\ Outgoings' /\ Position'
          /\ \A q \in Query : Outgoing(q)' \/ q = ctx_aio_send' => Outgoing(q) \/ q = ctx_aio_send
      BY <1>t, <1>t1, <1>8, ConsumeOutbox
    <2>3. Queries'
      BY <1>t, <2>1, <2>2, QueriesFrame
    <2> QED BY <2>2, <2>3 DEF Goal
  <1>9. CASE CloseUnresponded \/ Stop
    <2>1. /\ UNCHANGED <<ctx, received, inbox, current, deq, claim>>
          /\ unresponded' \subseteq unresponded /\ recv' \in {recv, "stopped"} /\ life' # "alive"
          /\ ctx_aio_send' \in {ctx_aio_send, None}
      BY <1>9 DEF CloseUnresponded, Stop, recvVars, outVars, sendVars
    <2>2. \A q \in Query : Outgoing(q)' \/ q = ctx_aio_send' => Outgoing(q) \/ q = ctx_aio_send
      BY <2>1, NoneAssumption DEF Outgoing, In
    <2>3. Queries'
      BY <1>t, <2>1, <2>2, QueriesFrame
    <2> QED BY <1>t, <1>t1, <1>9, <2>3, DestroyOutbox DEF Goal
  <1>10. CASE UNCHANGED vars
    <2>1. UNCHANGED <<recv, ctx, received, inbox, current, unresponded, outVars, aio, ctx_aio_send, sentcb, life>>
      BY <1>10 DEF vars, outVars
    <2>2. Outgoings' /\ Position'
      BY <1>t, <1>t1, <2>1, OutboxFrame
    <2>3. \A q \in Query : Outgoing(q)' \/ q = ctx_aio_send' => Outgoing(q) \/ q = ctx_aio_send
      BY <2>1, Zenon DEF outVars, Outgoing, In
    <2>4. Queries'
      BY <1>t, <2>1, <2>3, QueriesFrame
    <2> QED BY <2>2, <2>4 DEF Goal
  <1> QED BY <1>1, <1>2, <1>3, <1>4, <1>5, <1>6, <1>7, <1>8, <1>9, <1>10 DEF Next, Receiving, Sent

(* The invariant holds in every reachable state.                           *)
THEOREM ReplyInvariant == Spec => []ReplyInv
  BY InitReply, NextReply, PTL DEF Spec

(* Whether or not the handler is life-locked, a context has one owner, the *)
(* AIO one user, and respondTo finds the context of every query that       *)
(* waits; and what a destroyed communicator leaves on file was filed after *)
(* ~Reply had closed the file, which a life-locked handler rules out.      *)
THEOREM ContextsAreOwned == Spec => []ContextsOwned
  <1>1. ReplyInv => ContextsOwned
    BY DEF ReplyInv, Outgoings, DroppedIsQuiet, FiledLate, ContextsOwned, ContextsClosed
  <1> QED BY <1>1, ReplyInvariant, PTL

-----------------------------------------------------------------------------
(* The count of settled replies is a number, and what is in flight is the  *)
(* next one.                                                               *)
LEMMA SettledIsNat ==
  ASSUME ReplyInv
  PROVE  /\ Settled \in Nat /\ Len(accepted) \in Nat /\ Len(deq) \in Nat
         /\ InFlight => Settled + 1 = Len(accepted) - Len(deq) /\ Settled < Len(accepted)
  <1>1. Len(accepted) \in Nat /\ Len(deq) \in Nat
    BY DEF ReplyInv, Outgoings, OneOwner, TypeOK
  <1> QED BY <1>1 DEF ReplyInv, Position, Settled

(* respondTo accepts one reply for sending, or none.                       *)
LEMMA AnswerRefines ==
  ASSUME ReplyInv, RecvRespond \/ \E t \in Responder : Respond(t)
  PROVE  (\E q \in Query : Box!Accept(q)) \/ UNCHANGED Box!ovars
  <1> USE NoneAssumption, ErrorAssumption
  <1>t. TypeOK
    BY DEF ReplyInv, Outgoings, OneOwner
  <1>0. Settled \in Nat /\ Len(accepted) \in Nat /\ Len(deq) \in Nat
    BY SettledIsNat
  <1>1. ASSUME NEW t \in Thread, NEW q \in Query, RespondTo(t, q),
               UNCHANGED <<life, aio, wire>>, life # "destroyed"
        PROVE  Box!Accept(q) \/ UNCHANGED Box!ovars
    <2>1. CASE Refused
      <3>1. (InFlight' <=> InFlight) /\ UNCHANGED <<deq, accepted, wire, life>>
        BY <1>1, <2>1 DEF Refused, outVars, InFlight
      <3> QED BY <3>1 DEF Settled, Box!ovars
    <2>2. CASE Produced(t, q)
      <3>1. Len(accepted') = Len(accepted) + 1
        BY <1>t, <2>2, AppendProperties, Zenon DEF Produced, TypeOK
      <3>2. CASE busy
        <4>1. deq' = Append(deq, q) /\ (InFlight' <=> InFlight)
          BY <1>1, <2>2, <3>2 DEF Produced, InFlight
        <4>2. Len(deq') = Len(deq) + 1
          BY <1>t, <4>1, AppendProperties DEF TypeOK
        <4>3. Settled' = Settled
          BY <1>0, <3>1, <4>1, <4>2 DEF Settled
        <4> QED BY <1>1, <2>2, <4>3 DEF Produced, Box!Accept
      <3>3. CASE ~busy
        <4>1. deq' = deq /\ claim'[t] # None
          BY <1>t, <2>2, <3>3 DEF Produced, TypeOK
        <4>2. InFlight' /\ ~InFlight
          BY <3>3, <4>1, Zenon DEF InFlight, ReplyInv, Outgoings, OneUserOfAio, AioStages
        <4>3. Settled' = Settled
          BY <1>0, <3>1, <4>1, <4>2 DEF Settled
        <4> QED BY <1>1, <2>2, <4>3 DEF Produced, Box!Accept
      <3> QED BY <3>2, <3>3
    <2> QED BY <1>t, <1>1, <2>1, <2>2, RespondToCases
  <1>2. CASE RecvRespond
    <2>1. RecvThread \in Thread /\ ctx \in Query /\ RespondTo(RecvThread, ctx)
      BY <1>t, <1>2 DEF RecvRespond, Thread, TypeOK
    <2>2. UNCHANGED <<life, aio, wire>> /\ life # "destroyed"
      BY <1>2 DEF RecvRespond, sendVars, ReplyInv, StoppedForGood
    <2> QED BY <1>1, <2>1, <2>2
  <1>3. ASSUME NEW t \in Responder, Respond(t)
        PROVE  (\E q \in Query : Box!Accept(q)) \/ UNCHANGED Box!ovars
    <2>1. t \in Thread /\ current[t] \in Query /\ RespondTo(t, current[t])
      BY <1>t, <1>3 DEF Respond, Thread, TypeOK
    <2>2. UNCHANGED <<life, aio, wire>> /\ life # "destroyed"
      BY <1>3 DEF Respond, sendVars
    <2> QED BY <1>1, <2>1, <2>2
  <1> QED BY <1>2, <1>3

(* Every step of the service is a step of Outbox or a stutter.             *)
LEMMA StepRefines ==
  ASSUME ReplyInv, [Next]_vars
  PROVE  [Box!ONext]_(Box!ovars)
  <1> USE ErrorAssumption DEF Box!ONext
  <1>0. /\ Settled \in Nat /\ Len(accepted) \in Nat /\ Len(deq) \in Nat
        /\ InFlight => Settled + 1 = Len(accepted) - Len(deq) /\ Settled < Len(accepted)
    BY SettledIsNat
  <1>a. ASSUME UNCHANGED <<deq, accepted, wire>>, InFlight' <=> InFlight,
               life' = "destroyed" <=> life = "destroyed"
        PROVE  UNCHANGED Box!ovars
    BY <1>a DEF Settled, Box!ovars
  <1>b. ASSUME UNCHANGED <<deq, accepted, wire, life>>, InFlight, ~InFlight'
        PROVE  Box!Lose
    <2>1. Settled' = Settled + 1
      BY <1>0, <1>b DEF Settled
    <2> QED BY <1>0, <1>b, <2>1 DEF Box!Lose
  <1>1. CASE \/ RecvNoHandler \/ RecvFails \/ (\E q \in Query : RecvEnter(q)) \/ RecvFile
             \/ RecvPutAside \/ (\E t \in Responder : Take(t))
             \/ SentNoHandler \/ SentEnter \/ DropHandler \/ CloseUnresponded \/ Listen
    <2>1. /\ UNCHANGED <<deq, accepted, wire, claim, aio>>
          /\ life' = "destroyed" <=> life = "destroyed"
      BY <1>1, Zenon DEF RecvNoHandler, RecvFails, RecvEnter, RecvFile, RecvPutAside, Take, SentNoHandler,
         SentEnter, DropHandler, CloseUnresponded, Listen, outVars, sendVars
    <2> QED BY <1>a, <2>1 DEF InFlight
  <1>2. CASE RecvRespond \/ \E t \in Responder : Respond(t)
    BY <1>2, AnswerRefines
  <1>3. ASSUME NEW t \in Thread, StartSend(t) PROVE UNCHANGED Box!ovars
    <2>1. InFlight /\ InFlight' /\ UNCHANGED <<deq, accepted, wire, life>>
      BY <1>3 DEF StartSend, InFlight
    <2> QED BY <1>a, <2>1
  <1>4. CASE TransportSends
    <2>1. /\ UNCHANGED <<deq, accepted, life>>
          /\ wire' = Append(wire, accepted[Settled + 1]) /\ InFlight
      BY <1>0, <1>4, Zenon DEF TransportSends, outVars, InFlight, ReplyInv, Position
    <2>2. ~InFlight'
      BY <1>4 DEF TransportSends, outVars, InFlight, ReplyInv, Outgoings, OneUserOfAio
    <2>3. Settled' = Settled + 1
      BY <1>0, <2>1, <2>2 DEF Settled
    <2> QED BY <1>0, <2>1, <2>3 DEF Box!Deliver
  <1>5. ASSUME NEW e \in AioError, TransportFails(e) PROVE UNCHANGED Box!ovars
    <2>1. InFlight /\ InFlight' /\ UNCHANGED <<deq, accepted, wire, life>>
      BY <1>5 DEF TransportFails, outVars, InFlight
    <2> QED BY <1>a, <2>1
  <1>6. CASE SentFailed \/ StopSending
    <2>1. UNCHANGED <<deq, accepted, wire, life, claim>> /\ InFlight /\ aio # "idle" /\ aio' = "idle"
      BY <1>6 DEF SentFailed, StopSending, outVars, InFlight
    <2>2. ~InFlight'
      BY <2>1 DEF InFlight, ReplyInv, Outgoings, OneUserOfAio
    <2> QED BY <1>b, <2>1, <2>2
  <1>7. CASE SentConsume
    <2>1. /\ UNCHANGED <<accepted, wire, life, claim>> /\ ~InFlight
          /\ \A t \in Thread : claim[t] = None
      BY <1>7 DEF SentConsume, InFlight, ReplyInv, Outgoings, OneUserOfAio, AioStages
    <2>2. CASE deq = <<>>
      <3>1. ~InFlight' /\ deq' = deq
        BY <1>7, <2>1, <2>2 DEF SentConsume, InFlight
      <3> QED BY <1>a, <2>1, <3>1
    <2>3. CASE deq # <<>>
      <3>1. InFlight' /\ deq' = Tail(deq)
        BY <1>7, <2>3 DEF SentConsume, InFlight
      <3>2. Len(deq') = Len(deq) - 1
        BY <2>3, <3>1, HeadTailProperties DEF ReplyInv, Outgoings, OneOwner, TypeOK
      <3>3. Settled' = Len(accepted) - (Len(deq) - 1) - 1
        BY <2>1, <3>1, <3>2, Zenon DEF Settled
      <3>4. Settled = Len(accepted) - Len(deq)
        BY <1>0, <2>1 DEF Settled
      <3>5. Settled' = Settled
        BY <1>0, <3>3, <3>4
      <3> QED BY <2>1, <3>5 DEF Box!ovars
    <2> QED BY <2>2, <2>3
  <1>8. CASE Stop
    <2>1. /\ UNCHANGED <<deq, accepted, wire, claim, aio>>
          /\ life # "destroyed" /\ life' = "destroyed"
      BY <1>8 DEF Stop, outVars
    <2>2. InFlight' <=> InFlight
      BY <2>1 DEF InFlight
    <2>3. (life' # "destroyed") = FALSE /\ life # "destroyed"
      BY <2>1
    <2> QED BY <2>1, <2>2, <2>3 DEF Settled, Box!Close
  <1>9. CASE UNCHANGED vars
    BY <1>a, <1>9 DEF vars, InFlight
  <1> QED BY <1>1, <1>2, <1>3, <1>4, <1>5, <1>6, <1>7, <1>8, <1>9 DEF Next, Receiving, Sent

(* Replies leave in the order in which they were given, none twice, with   *)
(* or without life locking: Reply implements Outbox.                       *)
THEOREM ReplyOutboxImplemented == Spec => RepliesInOrder
  <1>1. Init => Box!OInit
    <2> SUFFICES ASSUME Init PROVE Box!OInit
      OBVIOUS
    <2>1. ~InFlight
      BY ErrorAssumption DEF Init, InFlight
    <2>2. Len(accepted) = 0 /\ Len(deq) = 0
      BY DEF Init
    <2>3. (IF InFlight THEN 1 ELSE 0) = 0
      BY <2>1
    <2>4. 0 - 0 - 0 = 0
      OBVIOUS
    <2>5. Settled = 0
      BY <2>2, <2>3, <2>4, Zenon DEF Settled
    <2>6. (life # "destroyed") = TRUE
      BY DEF Init
    <2> QED BY <2>5, <2>6 DEF Init, Box!OInit
  <1>2. ReplyInv /\ [Next]_vars => [Box!ONext]_(Box!ovars)
    BY StepRefines
  <1> QED BY <1>1, <1>2, ReplyInvariant, PTL DEF Spec, RepliesInOrder, Box!OSpec
=============================================================================
