----------------------------- MODULE SendBoxProofs -----------------------------
(***************************************************************************)
(* Proofs that the flag _busy keeps the users of the AIO apart and that an *)
(* outbox keeps its order, for any number of callers and messages and for  *)
(* whatever errors the transport reports.                                  *)
(***************************************************************************)
EXTENDS SendBox, SequenceTheorems, TLAPS

(***************************************************************************)
(* The inductive invariant.  Position ties the queue to the history: deq   *)
(* is the end of accepted, and the message in flight comes just before it. *)
(***************************************************************************)
Position ==
  /\ Len(deq) + (IF InFlight THEN 1 ELSE 0) <= Len(accepted)
  /\ \A i \in 1 .. Len(deq) : deq[i] = accepted[Len(accepted) - Len(deq) + i]
  /\ \A c \in Caller : claim[c] # None => claim[c] = accepted[Len(accepted) - Len(deq)]
  /\ aio = "sending" \/ aio \in AioError => msg = accepted[Len(accepted) - Len(deq)]
  /\ callback = "next" => next = accepted[Len(accepted) - Len(deq)]

(* A callback that runs the handler has a result to report.                *)
CallbackHasResult ==
  /\ callback = "handling" => Finished
  /\ callback = "next" => next # None

(* A message is in the AIO exactly while it is on its way there.           *)
AioHasMessage == aio = "sending" \/ aio \in AioError => msg # None

SendInv ==
  /\ TypeOK
  /\ OneUserOfAio
  /\ FreeMeansEmpty
  /\ CallbackHasResult
  /\ AioHasMessage
  /\ Position

(* The outbox starts empty.                                                *)
LEMMA InitSend == Init => SendInv
  <1> SUFFICES ASSUME Init PROVE SendInv
    OBVIOUS
  <1>1. busy \in BOOLEAN /\ handler \in BOOLEAN
    BY Zenon DEF Init
  <1>2. TypeOK
    BY <1>1 DEF Init, TypeOK
  <1>3. OneUserOfAio /\ FreeMeansEmpty /\ CallbackHasResult /\ AioHasMessage
    BY ErrorAssumption DEF Init, OneUserOfAio, FreeMeansEmpty, CallbackHasResult, AioHasMessage
  <1>4. Position
    BY ErrorAssumption DEF Init, Position, InFlight
  <1> QED BY <1>2, <1>3, <1>4 DEF SendInv

(***************************************************************************)
(* produce: the message goes to the end of the queue, or stays with the    *)
(* caller, which is then the only user of the AIO.                         *)
(***************************************************************************)
LEMMA SendMsgPreserves ==
  ASSUME SendInv, NEW c \in Caller, NEW m \in Msg, SendMsg(c, m)
  PROVE  SendInv'
  <1> USE DEF SendInv
  <1>0. /\ accepted' \in Seq(Msg) /\ Len(accepted') = Len(accepted) + 1
        /\ Len(accepted) \in Nat /\ Len(deq) \in Nat
        /\ \A i \in 1 .. Len(accepted) : accepted'[i] = accepted[i]
        /\ accepted'[Len(accepted) + 1] = m
    BY AppendProperties DEF SendMsg, TypeOK
  <1>1. CASE busy
    <2>a. /\ deq' = Append(deq, m)
          /\ UNCHANGED <<busy, claim, aio, msg, callback, next, handler, wire, reported>>
      BY <1>1 DEF SendMsg, Produce
    <2>0. /\ deq' \in Seq(Msg) /\ Len(deq') = Len(deq) + 1
          /\ \A i \in 1 .. Len(deq) : deq'[i] = deq[i]
          /\ deq'[Len(deq) + 1] = m
          /\ \A i \in 1 .. Len(deq') : i = Len(deq) + 1 \/ i \in 1 .. Len(deq)
          /\ UNCHANGED <<busy, claim, aio, msg, callback, next, handler, wire, reported>>
      BY <2>a, AppendProperties DEF TypeOK
    <2>1. TypeOK'
      BY <1>0, <2>0 DEF TypeOK
    <2>2. OneUserOfAio' /\ FreeMeansEmpty' /\ CallbackHasResult' /\ AioHasMessage'
      BY <1>1, <2>0 DEF OneUserOfAio, FreeMeansEmpty, CallbackHasResult, Finished, AioHasMessage
    <2>3. InFlight' <=> InFlight
      BY <2>0 DEF InFlight
    <2>4. Len(accepted') - Len(deq') = Len(accepted) - Len(deq)
      BY <1>0, <2>0
    <2>5. InFlight => accepted'[Len(accepted) - Len(deq)] = accepted[Len(accepted) - Len(deq)]
      BY <1>0 DEF Position
    <2>6. \A i \in 1 .. Len(deq') : deq'[i] = accepted'[Len(accepted') - Len(deq') + i]
      <3> SUFFICES ASSUME NEW i \in 1 .. Len(deq')
                   PROVE  deq'[i] = accepted'[Len(accepted') - Len(deq') + i]
        OBVIOUS
      <3>1. CASE i = Len(deq) + 1
        BY <1>0, <2>0, <2>4, <3>1
      <3>2. CASE i \in 1 .. Len(deq)
        <4>1. Len(accepted) - Len(deq) + i \in 1 .. Len(accepted)
          BY <1>0, <3>2 DEF Position
        <4> QED BY <1>0, <2>0, <2>4, <3>2, <4>1, Zenon DEF Position
      <3> QED BY <2>0, <3>1, <3>2
    <2>7. Position'
      BY <1>0, <2>0, <2>3, <2>4, <2>5, <2>6 DEF Position, InFlight
    <2> QED BY <2>1, <2>2, <2>7
  <1>2. CASE ~busy
    <2>0. /\ UNCHANGED <<deq, aio, msg, callback, next, handler, wire, reported>>
          /\ busy' = TRUE /\ claim' = [claim EXCEPT ![c] = m] /\ claim[c] = None
          /\ deq = <<>> /\ Len(deq) = 0
      BY <1>2 DEF SendMsg, Produce, FreeMeansEmpty
    <2>1. TypeOK'
      BY <1>0, <2>0 DEF TypeOK
    <2>2. aio = "idle" /\ callback # "next" /\ callback # "handling" /\ \A d \in Caller : claim[d] = None
      BY <1>2, ErrorAssumption DEF OneUserOfAio, CallbackHasResult, Finished
    <2>3. \A d \in Caller : claim'[d] = IF d = c THEN m ELSE None
      BY <2>0, <2>2 DEF TypeOK
    <2>4. OneUserOfAio' /\ FreeMeansEmpty' /\ CallbackHasResult' /\ AioHasMessage'
      BY <2>0, <2>1, <2>2, <2>3, ErrorAssumption
      DEF OneUserOfAio, FreeMeansEmpty, CallbackHasResult, Finished, TypeOK, AioHasMessage
    <2>5. Position'
      BY <1>0, <2>0, <2>2, <2>3, ErrorAssumption DEF Position, InFlight
    <2> QED BY <2>1, <2>4, <2>5
  <1> QED BY <1>1, <1>2

(***************************************************************************)
(* Steps that move the message in flight along, or settle it, and leave    *)
(* the queue and the history of accepted messages alone.                   *)
(***************************************************************************)
LEMMA MovesAlong ==
  ASSUME SendInv, TypeOK', UNCHANGED <<deq, accepted>>,
         InFlight' => InFlight,
         \A c \in Caller : claim'[c] # None => claim'[c] = claim[c],
         aio' = "sending" \/ aio' \in AioError =>
           msg' = accepted[Len(accepted) - Len(deq)],
         callback' = "next" => callback = "next" /\ next' = next
  PROVE  Position'
  <1>1. Len(deq) \in Nat /\ Len(accepted) \in Nat
    BY DEF SendInv, TypeOK
  <1>2. Len(deq') + (IF InFlight' THEN 1 ELSE 0) <= Len(accepted')
    BY <1>1 DEF SendInv, Position
  <1> QED BY <1>2 DEF SendInv, Position

(* The caller that claimed the AIO hands its message over.                 *)
LEMMA StartSendPreserves ==
  ASSUME SendInv, NEW c \in Caller, StartSend(c)
  PROVE  SendInv'
  <1> USE DEF SendInv
  <1>0. /\ UNCHANGED <<deq, busy, callback, next, handler, accepted, wire, reported>>
        /\ claim[c] # None /\ msg' = claim[c] /\ aio' = "sending"
        /\ claim' = [claim EXCEPT ![c] = None]
    BY DEF StartSend, historyVars
  <1>1. TypeOK'
    BY <1>0 DEF TypeOK
  <1>2. /\ \A d \in Caller : claim'[d] = None
        /\ busy /\ callback = "none"
    BY <1>0 DEF OneUserOfAio, TypeOK
  <1>3. OneUserOfAio' /\ FreeMeansEmpty' /\ CallbackHasResult' /\ AioHasMessage'
    BY <1>0, <1>2 DEF OneUserOfAio, FreeMeansEmpty, CallbackHasResult, Finished, AioHasMessage
  <1>4. Position'
    BY <1>0, <1>1, <1>2, MovesAlong DEF Position, InFlight
  <1> QED BY <1>1, <1>3, <1>4

(* The transport finishes an operation.                                    *)
LEMMA TransportPreserves ==
  ASSUME SendInv, TransportSends \/ \E e \in AioError : TransportFails(e)
  PROVE  SendInv'
  <1> USE DEF SendInv
  <1>0. /\ UNCHANGED <<deq, busy, claim, callback, next, handler, accepted, reported>>
        /\ aio = "sending"
        /\ \/ aio' = "success" /\ msg' = None /\ wire' = Append(wire, msg)
           \/ aio' \in AioError /\ msg' = msg /\ wire' = wire
    BY DEF TransportSends, TransportFails, historyVars
  <1>1. wire' \in Seq(Msg)
    <2>1. msg \in Msg
      BY <1>0 DEF AioHasMessage, TypeOK
    <2>2. wire \in Seq(Msg) /\ Append(wire, msg) \in Seq(Msg)
      BY <2>1, AppendProperties DEF TypeOK
    <2> QED BY <1>0, <2>2
  <1>2. TypeOK'
    BY <1>0, <1>1 DEF TypeOK
  <1>3. OneUserOfAio' /\ FreeMeansEmpty' /\ CallbackHasResult' /\ AioHasMessage'
    BY <1>0, ErrorAssumption
    DEF OneUserOfAio, FreeMeansEmpty, CallbackHasResult, Finished, AioHasMessage
  <1>4. Position'
    BY <1>0, <1>2, ErrorAssumption, MovesAlong DEF Position, InFlight
  <1> QED BY <1>2, <1>3, <1>4

(* The callback starts, or ends without having taken a message.            *)
LEMMA CallbackEdgePreserves ==
  ASSUME SendInv, CallbackStart \/ CallbackNoHandler \/ CallbackError
  PROVE  SendInv'
  <1> USE DEF SendInv
  <1>0. /\ UNCHANGED <<deq, busy, claim, next, handler, accepted, wire>>
        /\ Finished
        /\ \/ /\ callback' = "handling" /\ UNCHANGED <<aio, msg, reported>>
           \/ /\ callback' = "none" /\ aio' = "idle" /\ msg' = None
              /\ \/ reported' = reported
                 \/ reported' = reported \cup {msg} /\ aio \in AioError
    <2>1. CASE CallbackStart
      BY <2>1 DEF CallbackStart, historyVars
    <2>2. CASE CallbackNoHandler
      BY <2>2 DEF CallbackNoHandler, historyVars
    <2>3. CASE CallbackError
      BY <2>3 DEF CallbackError, Finished
    <2> QED BY <2>1, <2>2, <2>3
  <1>1. reported' \subseteq Msg
    BY <1>0 DEF AioHasMessage, TypeOK
  <1>2. TypeOK'
    BY <1>0, <1>1 DEF TypeOK
  <1>3. aio # "idle" /\ aio # "sending"
    BY <1>0, ErrorAssumption DEF Finished
  <1>4. OneUserOfAio' /\ FreeMeansEmpty' /\ CallbackHasResult' /\ AioHasMessage'
    BY <1>0, <1>3, ErrorAssumption
    DEF OneUserOfAio, FreeMeansEmpty, CallbackHasResult, Finished, AioHasMessage
  <1>5. Position'
    BY <1>0, <1>2, <1>3, ErrorAssumption, MovesAlong DEF Position, InFlight
  <1> QED BY <1>2, <1>4, <1>5

(* consume: the head of the queue becomes the message in flight, or the    *)
(* queue is empty and becomes free.                                        *)
LEMMA CallbackSentPreserves ==
  ASSUME SendInv, CallbackSent
  PROVE  SendInv'
  <1> USE DEF SendInv
  <1>0. /\ UNCHANGED <<claim, msg, handler, accepted, wire, reported>>
        /\ aio = "success" /\ aio' = "idle" /\ callback = "handling"
    BY DEF CallbackSent, historyVars
  <1>1. busy /\ \A c \in Caller : claim[c] = None
    BY <1>0 DEF OneUserOfAio
  <1>2. Len(deq) \in Nat /\ Len(accepted) \in Nat /\ ~InFlight
    BY <1>0, <1>1, ErrorAssumption DEF InFlight, TypeOK
  <1>3. CASE deq = <<>>
    <2>0. busy' = FALSE /\ UNCHANGED <<deq, next>> /\ callback' = "none"
      BY <1>3 DEF CallbackSent, Consume
    <2>1. TypeOK'
      BY <1>0, <2>0, Zenon DEF TypeOK
    <2>2. OneUserOfAio' /\ FreeMeansEmpty' /\ CallbackHasResult' /\ AioHasMessage'
      BY <1>0, <1>1, <1>3, <2>0, ErrorAssumption
      DEF OneUserOfAio, FreeMeansEmpty, CallbackHasResult, AioHasMessage
    <2>3. Position'
      BY <1>0, <1>1, <2>0, <2>1, ErrorAssumption, MovesAlong DEF InFlight
    <2> QED BY <2>1, <2>2, <2>3
  <1>4. CASE deq # <<>>
    <2>0. /\ next' = Head(deq) /\ deq' = Tail(deq) /\ callback' = "next" /\ busy' = busy
      BY <1>4 DEF CallbackSent, Consume
    <2>1. /\ next' \in Msg /\ next' = deq[1] /\ deq' \in Seq(Msg)
          /\ 1 \in 1 .. Len(deq)
          /\ Len(deq') = Len(deq) - 1
          /\ \A i \in 1 .. Len(deq') : i + 1 \in 1 .. Len(deq) /\ deq'[i] = deq[i + 1]
      BY <1>4, <2>0, HeadTailProperties DEF TypeOK
    <2>2. TypeOK'
      BY <1>0, <2>0, <2>1 DEF TypeOK
    <2>3. OneUserOfAio' /\ FreeMeansEmpty' /\ CallbackHasResult' /\ AioHasMessage'
      BY <1>0, <1>1, <2>0, <2>1, ErrorAssumption, MsgAssumption
      DEF OneUserOfAio, FreeMeansEmpty, CallbackHasResult, AioHasMessage
    <2>4. next' = accepted[Len(accepted) - Len(deq')]
      BY <1>2, <2>1 DEF Position
    <2>5. \A i \in 1 .. Len(deq') : deq'[i] = accepted[Len(accepted) - Len(deq') + i]
      BY <1>2, <2>1 DEF Position
    <2>6. Len(deq') + 1 <= Len(accepted)
      BY <1>2, <2>1 DEF Position
    <2>7. Position'
      BY <1>0, <1>1, <1>2, <2>0, <2>1, <2>4, <2>5, <2>6, ErrorAssumption DEF Position, InFlight
    <2> QED BY <2>2, <2>3, <2>7
  <1> QED BY <1>3, <1>4

(* The callback hands the next message to the AIO.                         *)
LEMMA CallbackSendNextPreserves ==
  ASSUME SendInv, CallbackSendNext
  PROVE  SendInv'
  <1> USE DEF SendInv
  <1>0. /\ UNCHANGED <<deq, busy, claim, handler, accepted, wire, reported>>
        /\ callback = "next" /\ msg' = next /\ aio' = "sending"
        /\ next' = None /\ callback' = "none"
    BY DEF CallbackSendNext, historyVars
  <1>1. TypeOK'
    BY <1>0 DEF TypeOK
  <1>2. busy /\ \A c \in Caller : claim[c] = None
    BY <1>0 DEF OneUserOfAio
  <1>3. OneUserOfAio' /\ FreeMeansEmpty' /\ CallbackHasResult' /\ AioHasMessage'
    BY <1>0, <1>2 DEF OneUserOfAio, FreeMeansEmpty, CallbackHasResult, AioHasMessage
  <1>4. Position'
    BY <1>0, <1>1, <1>2, MovesAlong DEF Position, InFlight
  <1> QED BY <1>1, <1>3, <1>4

(* The destructor retires the queue and stops the AIO.                     *)
LEMMA DestroyPreserves ==
  ASSUME SendInv, DestroyQueue \/ StopAio
  PROVE  SendInv'
  <1> USE DEF SendInv
  <1>0. /\ UNCHANGED <<deq, busy, claim, callback, next, accepted, wire, reported>>
        /\ handler' \in BOOLEAN
        /\ \/ UNCHANGED <<aio, msg>>
           \/ aio = "sending" /\ aio' = "idle" /\ msg' = None
    BY Zenon DEF DestroyQueue, StopAio, historyVars, TypeOK
  <1>1. TypeOK'
    BY <1>0 DEF TypeOK
  <1>2. OneUserOfAio' /\ FreeMeansEmpty' /\ CallbackHasResult' /\ AioHasMessage'
    BY <1>0, ErrorAssumption
    DEF OneUserOfAio, FreeMeansEmpty, CallbackHasResult, Finished, AioHasMessage
  <1>3. Position'
    BY <1>0, <1>1, ErrorAssumption, MovesAlong DEF Position, InFlight
  <1> QED BY <1>1, <1>2, <1>3

(* The invariant is inductive: one case per kind of step.                  *)
LEMMA NextSend == SendInv /\ [Next]_vars => SendInv'
  <1> SUFFICES ASSUME SendInv, [Next]_vars PROVE SendInv'
    OBVIOUS
  <1>1. CASE \E c \in Caller, m \in Msg : SendMsg(c, m)
    BY <1>1, SendMsgPreserves
  <1>2. CASE \E c \in Caller : StartSend(c)
    BY <1>2, StartSendPreserves
  <1>3. CASE TransportSends \/ \E e \in AioError : TransportFails(e)
    BY <1>3, TransportPreserves
  <1>4. CASE Callback
    BY <1>4, CallbackEdgePreserves, CallbackSentPreserves, CallbackSendNextPreserves DEF Callback
  <1>5. CASE DestroyQueue \/ StopAio
    BY <1>5, DestroyPreserves
  <1>6. CASE UNCHANGED vars
    BY <1>6 DEF vars, SendInv, TypeOK, OneUserOfAio, FreeMeansEmpty, CallbackHasResult, Finished,
           AioHasMessage, Position, InFlight
  <1> QED BY <1>1, <1>2, <1>3, <1>4, <1>5, <1>6 DEF Next

(* The invariant holds in every reachable state.                           *)
THEOREM SendCorrect == Spec => []SendInv
  BY InitSend, NextSend, PTL DEF Spec

(* The variables keep their types.                                         *)
THEOREM SendTypeCorrect == Spec => []TypeOK
  BY SendCorrect, PTL DEF SendInv

(* Callers and callback never use the AIO at the same time.                *)
THEOREM AioIsExclusive == Spec => []OneUserOfAio
  BY SendCorrect, PTL DEF SendInv

(* No message is left in a queue that is not busy.                         *)
THEOREM NoMessageStranded == Spec => []FreeMeansEmpty
  BY SendCorrect, PTL DEF SendInv

(* Callers and callback share the queue safely.                            *)
THEOREM QueueIsShared == Spec => []QueueShared
  BY SendCorrect, PTL DEF SendInv, QueueShared

-----------------------------------------------------------------------------
(***************************************************************************)
(* The refinement.  A step that keeps the queue and the history keeps the  *)
(* count of settled messages, unless it takes a message out of flight.     *)
(***************************************************************************)
LEMMA SettledIsNat ==
  ASSUME SendInv
  PROVE  /\ Settled \in Nat /\ Len(accepted) \in Nat /\ Len(deq) \in Nat
         /\ InFlight => Settled + 1 = Len(accepted) - Len(deq) /\ Settled < Len(accepted)
  <1>1. Len(accepted) \in Nat /\ Len(deq) \in Nat
    BY DEF SendInv, TypeOK
  <1> QED BY <1>1 DEF SendInv, Position, Settled

(* Every step of the implementation is a step of Outbox or a stutter.      *)
LEMMA StepRefines ==
  ASSUME SendInv, SendInv', [Next]_vars
  PROVE  [Box!ONext]_(Box!ovars)
  <1> USE DEF Box!ONext, Box!ovars
  <1>0. /\ Settled \in Nat /\ Len(accepted) \in Nat /\ Len(deq) \in Nat
        /\ InFlight => Settled + 1 = Len(accepted) - Len(deq) /\ Settled < Len(accepted)
    BY SettledIsNat
  <1>1. ASSUME NEW c \in Caller, NEW m \in Msg, SendMsg(c, m)
        PROVE  Box!Accept(m)
    <2>1. Len(accepted') = Len(accepted) + 1
      BY <1>1, AppendProperties DEF SendMsg, SendInv, TypeOK
    <2>2. Settled' = Settled
      <3>1. CASE busy
        <4>1. Len(deq') = Len(deq) + 1
          <5>1. deq' = Append(deq, m)
            BY <1>1, <3>1 DEF SendMsg, Produce
          <5> QED BY <5>1, AppendProperties DEF SendInv, TypeOK
        <4>2. InFlight' <=> InFlight
          BY <1>1, <3>1 DEF SendMsg, Produce, InFlight
        <4> QED BY <1>0, <2>1, <4>1, <4>2 DEF Settled
      <3>2. CASE ~busy
        <4>1. deq' = deq /\ claim'[c] # None
          BY <1>1, <3>2, MsgAssumption DEF SendMsg, Produce, SendInv, TypeOK
        <4>2. InFlight' /\ ~InFlight
          BY <3>2, <4>1, ErrorAssumption DEF InFlight, SendInv, OneUserOfAio
        <4> QED BY <1>0, <2>1, <4>1, <4>2 DEF Settled
      <3> QED BY <3>1, <3>2
    <2> QED BY <1>1, <2>2 DEF SendMsg, Box!Accept
  <1>2. ASSUME NEW c \in Caller, StartSend(c)
        PROVE  UNCHANGED Box!ovars
    <2>1. InFlight /\ InFlight' /\ UNCHANGED <<deq, accepted, wire, handler>>
      BY <1>2 DEF StartSend, InFlight, historyVars
    <2> QED BY <2>1 DEF Settled
  <1>3. CASE TransportSends
    <2>1. /\ UNCHANGED <<deq, accepted, handler>>
          /\ wire' = Append(wire, accepted[Settled + 1]) /\ InFlight
      BY <1>0, <1>3 DEF TransportSends, InFlight, SendInv, Position
    <2>2. ~InFlight'
      BY <1>3, ErrorAssumption DEF TransportSends, InFlight, SendInv, OneUserOfAio
    <2>3. Settled' = Settled + 1
      BY <1>0, <2>1, <2>2 DEF Settled
    <2> QED BY <1>0, <2>1, <2>3 DEF Box!Deliver
  <1>4. ASSUME NEW e \in AioError, TransportFails(e)
        PROVE  UNCHANGED Box!ovars
    <2>1. InFlight /\ InFlight' /\ UNCHANGED <<deq, accepted, wire, handler>>
      BY <1>4 DEF TransportFails, InFlight, historyVars
    <2> QED BY <2>1 DEF Settled
  <1>5. CASE CallbackStart
    <2>1. (InFlight' <=> InFlight) /\ UNCHANGED <<deq, accepted, wire, handler>>
      BY <1>5 DEF CallbackStart, InFlight, historyVars
    <2> QED BY <2>1 DEF Settled
  <1>6. ASSUME UNCHANGED <<deq, accepted, wire, handler>>, InFlight, ~InFlight'
        PROVE  Box!Lose
    <2>1. Settled' = Settled + 1
      BY <1>0, <1>6 DEF Settled
    <2> QED BY <1>0, <1>6, <2>1 DEF Box!Lose
  <1>7. CASE CallbackNoHandler \/ CallbackError \/ StopAio
    <2>1. UNCHANGED <<deq, accepted, wire, handler>> /\ aio # "idle"
      BY <1>7, ErrorAssumption
      DEF CallbackNoHandler, CallbackError, StopAio, Finished, historyVars
    <2>2. ~InFlight'
      BY <1>7, <2>1, ErrorAssumption, Zenon
      DEF CallbackNoHandler, CallbackError, StopAio, InFlight, SendInv, OneUserOfAio
    <2>3. CASE ~InFlight
      BY <2>1, <2>2, <2>3 DEF Settled
    <2> QED BY <1>6, <2>1, <2>2, <2>3
  <1>8. CASE CallbackSent
    <2>1. ~InFlight /\ UNCHANGED <<accepted, wire, handler>>
      BY <1>8, ErrorAssumption DEF CallbackSent, InFlight, SendInv, OneUserOfAio, historyVars
    <2>2. CASE deq = <<>>
      <3>1. ~InFlight' /\ deq' = deq
        BY <1>8, <2>2, ErrorAssumption
        DEF CallbackSent, Consume, InFlight, SendInv, OneUserOfAio
      <3> QED BY <2>1, <3>1 DEF Settled
    <2>3. CASE deq # <<>>
      <3>1. InFlight' /\ deq' = Tail(deq)
        BY <1>8, <2>3 DEF CallbackSent, Consume, InFlight
      <3>2. Len(deq') = Len(deq) - 1
        BY <2>3, <3>1, HeadTailProperties DEF SendInv, TypeOK
      <3>3. Settled' = Settled
        <4>1. Settled' = Len(accepted) - (Len(deq) - 1) - 1
          BY <2>1, <3>1, <3>2, Zenon DEF Settled
        <4>2. Settled = Len(accepted) - Len(deq)
          BY <1>0, <2>1 DEF Settled
        <4> QED BY <1>0, <4>1, <4>2
      <3> QED BY <2>1, <3>3
    <2> QED BY <2>2, <2>3
  <1>9. CASE CallbackSendNext
    <2>1. InFlight /\ InFlight' /\ UNCHANGED <<deq, accepted, wire, handler>>
      BY <1>9 DEF CallbackSendNext, InFlight, historyVars
    <2> QED BY <2>1 DEF Settled
  <1>10. CASE DestroyQueue
    <2>1. (InFlight' <=> InFlight) /\ UNCHANGED <<deq, accepted, wire>> /\ handler /\ handler' = FALSE
      BY <1>10 DEF DestroyQueue, InFlight, historyVars
    <2> QED BY <2>1, Zenon DEF Settled, Box!Close
  <1>11. CASE UNCHANGED vars
    BY <1>11 DEF vars, Settled, InFlight
  <1> QED BY <1>1, <1>2, <1>3, <1>4, <1>5, <1>7, <1>8, <1>9, <1>10, <1>11 DEF Next, Callback

(* An outbox delivers its messages in the order it accepted them: SendBox  *)
(* implements Outbox.                                                      *)
THEOREM OutboxImplemented == Spec => FifoOutbox
  <1>1. Init => Box!OInit
    <2> SUFFICES ASSUME Init PROVE Box!OInit
      OBVIOUS
    <2>1. ~InFlight
      BY ErrorAssumption DEF Init, InFlight
    <2>2. Settled = 0
      <3>1. Len(accepted) = 0 /\ Len(deq) = 0
        BY DEF Init
      <3>2. (IF InFlight THEN 1 ELSE 0) = 0
        BY <2>1
      <3>3. 0 - 0 - 0 = 0
        OBVIOUS
      <3> QED BY <3>1, <3>2, <3>3, Zenon DEF Settled
    <2>3. handler = TRUE
      BY DEF Init
    <2> QED BY <2>2, <2>3 DEF Init, Box!OInit
  <1>2. SendInv /\ SendInv' /\ [Next]_vars => [Box!ONext]_(Box!ovars)
    BY StepRefines
  <1> QED BY <1>1, <1>2, SendCorrect, PTL DEF Spec, FifoOutbox, Box!OSpec
=============================================================================
