--------------------------- MODULE ConnectorsProofs ---------------------------
(***************************************************************************)
(* Proofs that a bundle is connected to an address with all communicators  *)
(* or with none, for any numbers of communicators, addresses, threads and  *)
(* connections.                                                            *)
(***************************************************************************)
EXTENDS Connectors, TLAPS

(* Of two calls about one address neither is marked as alone.              *)
AloneIsAlone ==
  \A t, u \in Thread :
    /\ t # u /\ call[t] # None /\ call[u] # None
    /\ Touches(call[t]) \cap Touches(call[u]) # {}
    => ~call[t].alone

(* How far a lone call has come: the communicators it has called are all   *)
(* connected, or all disconnected.                                         *)
LoneProgress ==
  \A t \in Thread : call[t] # None /\ call[t].alone =>
    \A c \in Comm \ call[t].todo, a \in Touches(call[t]) :
      connectors[c][a] # None <=> call[t].op \in Connecting

(* A call about one address has one.                                       *)
Addressed == \A t \in Thread : call[t] # None /\ call[t].op \notin Everywhere =>
                                 call[t].base \in Addr

BundleInv == AllOrNothing /\ AloneIsAlone /\ LoneProgress /\ Addressed

(* A socket that is closed, or being closed, has no connector: so close    *)
(* need not clear the connectors of a socket that it finds closed.         *)
ClosedIsEmpty ==
  \A c \in Comm : ~open[c] \/ ~MtxFree(c) => \A a \in Addr : connectors[c][a] = None
-----------------------------------------------------------------------------
USE NoneAssumption

(* The unsigned count of connections stays within its range when a         *)
(* callback adds or removes one: it wraps.                                 *)
LEMMA CountStays ==
  ASSUME NEW n \in 0 .. MaxCount
  PROVE  Increment(n) \in 0 .. MaxCount /\ Decrement(n) \in 0 .. MaxCount
BY CountAssumption DEF Increment, Decrement

(* Initially nothing is connected and nobody calls.                        *)
LEMMA BundleInit == Init => BundleInv
<1> SUFFICES ASSUME Init PROVE BundleInv
  OBVIOUS
<1>1. TypeOK
  BY CountAssumption DEF Init, TypeOK
<1>2. AllOrNothing
  BY <1>1 DEF Init, AllOrNothing
<1> QED
  BY <1>2 DEF Init, BundleInv, AloneIsAlone, LoneProgress, Addressed

(* A call that has visited a communicator is still a call.                 *)
LEMMA CalledType ==
  ASSUME call \in [Thread -> Calls \cup {None}], NEW t \in Thread, NEW c \in Comm,
         call[t] # None, Called(t, c)
  PROVE  call' \in [Thread -> Calls \cup {None}]
<1>1. call[t] \in Calls
  OBVIOUS
<1>2. [call[t] EXCEPT !.todo = @ \ {c}] \in Calls
  BY <1>1 DEF Calls
<1>3. call' = [call EXCEPT ![t] = [call[t] EXCEPT !.todo = @ \ {c}]]
  BY DEF Called
<1> QED
  BY <1>2, <1>3, Zenon

(* Every step keeps the types.                                             *)
LEMMA TypeStep == TypeOK /\ Addressed /\ [Next]_vars => TypeOK'
<1> SUFFICES ASSUME TypeOK, Addressed, [Next]_vars PROVE TypeOK'
  OBVIOUS
<1> USE DEF TypeOK, Calls, Connections, Connecting, Everywhere, Operation
<1>1. ASSUME NEW t \in Thread, NEW op \in Operation \ {"rollback"}, NEW a \in Addr \cup {None},
             Call(t, op, a)
      PROVE  TypeOK'
  <2> DEFINE r == [op |-> op, base |-> a, todo |-> Comm, closing |-> None, alone |-> TRUE]
             others == {u \in Thread : call[u] # None /\ Touches(call[u]) \cap Touches(r) # {}}
  <2>1. [r EXCEPT !.alone = others = {}] \in Calls
    <3> DEFINE b == others = {}
    <3>1. b \in BOOLEAN
      OBVIOUS
    <3> HIDE DEF b
    <3> QED
      BY <3>1, Zenon
  <2>2. ASSUME NEW u \in others
        PROVE  [call[u] EXCEPT !.alone = FALSE] \in Calls
    <3>1. call[u] \in Calls
      OBVIOUS
    <3> QED
      BY <3>1
  <2> HIDE DEF Calls
  <2>3. call' \in [Thread -> Calls \cup {None}]
    BY <1>1, <2>1, <2>2, Zenon DEF Call
  <2> QED
    BY <1>1, <2>3, Zenon DEF Call
<1>2. ASSUME NEW t \in Thread, NEW c \in Comm, Connect(t, c) PROVE TypeOK'
  <2>1. call[t].base \in Addr /\ call[t].op \in Connecting
    BY <1>2 DEF Connect, At, Addressed
  <2>2. connectors' \in [Comm -> [Addr -> Connecting \cup {None}]]
    BY <1>2, <2>1 DEF Connect
  <2>3. call' \in [Thread -> Calls \cup {None}]
    BY <1>2, CalledType, Zenon DEF Connect, At
  <2> QED
    BY <1>2, <2>2, <2>3 DEF Connect
<1>3. ASSUME NEW t \in Thread, NEW c \in Comm, ConnectFails(t, c) PROVE TypeOK'
  <2>0. call[t] \in Calls
    BY <1>3 DEF ConnectFails, At
  <2>1. [call[t] EXCEPT !.op = "rollback", !.todo = Comm] \in Calls
    BY <2>0, Zenon
  <2>2. call' \in [Thread -> Calls \cup {None}]
    BY <1>3, <2>1 DEF ConnectFails
  <2> QED
    BY <1>3, <2>2 DEF ConnectFails
<1>4. ASSUME NEW t \in Thread, NEW c \in Comm, Disconnect(t, c) PROVE TypeOK'
  <2>1. call' \in [Thread -> Calls \cup {None}]
    BY <1>4, CalledType, Zenon DEF Disconnect, At
  <2>2. connectors' \in [Comm -> [Addr -> Connecting \cup {None}]]
    BY <1>4 DEF Disconnect
  <2> QED
    BY <1>4, <2>1, <2>2, Zenon DEF Disconnect
<1>5. ASSUME NEW t \in Thread, NEW c \in Comm, DisconnectAll(t, c) PROVE TypeOK'
  <2>1. call' \in [Thread -> Calls \cup {None}]
    BY <1>5, CalledType, Zenon DEF DisconnectAll, At
  <2>2. connectors' \in [Comm -> [Addr -> Connecting \cup {None}]]
    BY <1>5 DEF DisconnectAll
  <2> QED
    BY <1>5, <2>1, <2>2, Zenon DEF DisconnectAll
<1>6. ASSUME NEW t \in Thread, NEW c \in Comm, Close(t, c) PROVE TypeOK'
  <2>1. [connectors EXCEPT ![c] = [a \in Addr |-> None]] \in [Comm -> [Addr -> Connecting \cup {None}]]
    OBVIOUS
  <2>2. connectors' \in [Comm -> [Addr -> Connecting \cup {None}]]
    BY <1>6, <2>1 DEF Close
  <2>0. call[t] \in Calls
    BY <1>6 DEF Close, At
  <2>3. [call[t] EXCEPT !.todo = @ \ {c}, !.closing = IF open[c] THEN c ELSE None] \in Calls
    BY <2>0, Zenon
  <2>4. call' \in [Thread -> Calls \cup {None}]
    BY <1>6, <2>3 DEF Close
  <2> QED
    BY <1>6, <2>2, <2>4, Zenon DEF Close
<1>7. ASSUME NEW t \in Thread, Closed(t) PROVE TypeOK'
  BY <1>7 DEF Closed
<1>8. ASSUME NEW t \in Thread, Return(t) PROVE TypeOK'
  BY <1>8 DEF Return, Touches, Addressed
<1>9. ASSUME NEW p \in Pipe, NEW c \in Comm, PipeAdded(p, c) \/ PipeRefused(p, c) PROVE TypeOK'
  <2>1. PICK stage \in {"adding", "leaving"} : Begin(p, c, stage)
    BY <1>9, Zenon DEF PipeAdded, PipeRefused
  <2>2. [comm |-> c, at |-> stage, read |-> count[c]] \in Connections
    BY DEF Connections
  <2>3. pipe' \in [Pipe -> Connections \cup {None}]
    BY <2>1, <2>2, Zenon DEF Begin
  <2> QED
    BY <2>1, <2>3, Zenon DEF Begin
<1>10. ASSUME NEW p \in Pipe, PipeRemoved(p) PROVE TypeOK'
  BY <1>10 DEF PipeRemoved, Begin
<1>11. ASSUME NEW p \in Pipe, EndCallback(p) PROVE TypeOK'
  <2>0. pipe[p] \in Connections /\ pipe[p].read \in 0 .. MaxCount /\ count[pipe[p].comm] \in 0 .. MaxCount
    BY <1>11 DEF EndCallback, InCallback
  <2>1. PICK n \in {pipe[p].read, count[pipe[p].comm]} :
          count' = [count EXCEPT ![pipe[p].comm] =
                      IF pipe[p].at = "adding" THEN Increment(n)
                      ELSE IF pipe[p].read > 0 THEN Decrement(n) ELSE @]
    BY <1>11, Zenon DEF EndCallback
  <2>2. Increment(n) \in 0 .. MaxCount /\ Decrement(n) \in 0 .. MaxCount
    <3>1. n \in 0 .. MaxCount
      BY <2>0, Zenon
    <3> QED
      BY <3>1, CountStays
  <2>3. count' \in [Comm -> 0 .. MaxCount]
    BY <2>1, <2>2
  <2> QED
    BY <1>11, <2>3 DEF EndCallback, InCallback
<1>12. CASE UNCHANGED vars
  BY <1>12 DEF vars
<1> QED
  BY <1>1, <1>2, <1>3, <1>4, <1>5, <1>6, <1>7, <1>8, <1>9, <1>10, <1>11, <1>12, Zenon DEF Next, Step

(* A bundle call: the invariant but for the types.                         *)
LEMMA CallStep ==
  ASSUME BundleInv, TypeOK', NEW t \in Thread, NEW op \in Operation \ {"rollback"},
         NEW a \in Addr \cup {None}, Call(t, op, a)
  PROVE  BundleInv'
<1> USE DEF BundleInv, AllOrNothing
<1> DEFINE r == [op |-> op, base |-> a, todo |-> Comm, closing |-> None, alone |-> TRUE]
           others == {u \in Thread : call[u] # None /\ Touches(call[u]) \cap Touches(r) # {}}
<1>1. /\ call[t] = None /\ t \notin others
      /\ call'[t] # None
      /\ Touches(call'[t]) = Touches(r)
      /\ call'[t].alone = (others = {})
      /\ call'[t].todo = Comm /\ call'[t].op = op /\ call'[t].base = a
  <2> DEFINE b == others = {}
             new == [op |-> op, base |-> a, todo |-> Comm, closing |-> None, alone |-> b]
  <2>1. b \in BOOLEAN /\ call[t] = None /\ t \notin others
    BY DEF Call
  <2>2. call'[t] = [r EXCEPT !.alone = b]
    BY DEF Call, TypeOK
  <2> HIDE DEF b
  <2>3. call'[t] = new
    BY <2>2
  <2>4. new \in Calls
    BY <2>1 DEF Calls
  <2> QED
    BY <2>1, <2>3, <2>4 DEF Touches, b
<1>2. \A u \in Thread \ {t} :
        /\ call'[u] = None <=> call[u] = None
        /\ call[u] # None =>
             /\ Touches(call'[u]) = Touches(call[u])
             /\ call'[u].todo = call[u].todo /\ call'[u].op = call[u].op
             /\ call'[u].base = call[u].base
             /\ call'[u].alone => call[u].alone /\ u \notin others
             /\ call[u].alone /\ u \notin others => call'[u].alone
  <2> TAKE u \in Thread \ {t}
  <2>1. CASE u \in others
    <3>1. call'[u] = [call[u] EXCEPT !.alone = FALSE] /\ call[u] # None
      BY <2>1, Zenon DEF Call, TypeOK
    <3>2. call[u] \in Calls
      BY <3>1 DEF TypeOK
    <3> QED
      BY <2>1, <3>1, <3>2, Zenon DEF Calls, Touches
  <2>2. CASE u \notin others
    BY <2>2, Zenon DEF Call, TypeOK
  <2> QED
    BY <2>1, <2>2, Zenon
<1>3. UNCHANGED <<connectors, torn>>
  BY DEF Call
<1> HIDE DEF r
<1>4. AloneIsAlone'
  <2> SUFFICES ASSUME NEW u \in Thread, NEW v \in Thread, u # v,
                      call'[u] # None, call'[v] # None,
                      Touches(call'[u]) \cap Touches(call'[v]) # {}
               PROVE  ~call'[u].alone
    BY DEF AloneIsAlone
  <2>1. CASE u = t
    <3>1. v \in others
      BY <1>1, <1>2, <2>1
    <3> QED
      BY <1>1, <2>1, <3>1, Zenon
  <2>2. CASE v = t
    <3>1. u \in others
      BY <1>1, <1>2, <2>2
    <3> QED
      BY <1>2, <2>2, <3>1
  <2>3. CASE u # t /\ v # t
    BY <1>2, <2>3 DEF AloneIsAlone
  <2> QED
    BY <2>1, <2>2, <2>3
<1>5. LoneProgress'
  BY <1>1, <1>2, <1>3 DEF LoneProgress
<1>6. Addressed'
  BY <1>1, <1>2 DEF Addressed, Call
<1>7. AllOrNothing'
  BY <1>1, <1>2, <1>3
<1> QED
  BY <1>4, <1>5, <1>6, <1>7

(* A step in which a thread goes on with its call: it stays a call about   *)
(* the same addresses, what it has done so far agrees with what it is now, *)
(* and connectors change only there.                                       *)
LEMMA ProgressStep ==
  ASSUME BundleInv, TypeOK', NEW t \in Thread, call[t] # None, call'[t] # None,
         \A u \in Thread \ {t} : call'[u] = call[u],
         Touches(call'[t]) = Touches(call[t]),
         call'[t].alone = call[t].alone,
         call'[t].op \notin Everywhere => call'[t].base \in Addr,
         torn' = torn,
         \A c \in Comm, a \in Addr \ Touches(call[t]) : connectors'[c][a] = connectors[c][a],
         call[t].alone =>
           \A c \in Comm \ call'[t].todo, a \in Touches(call[t]) :
             connectors'[c][a] # None <=> call'[t].op \in Connecting
  PROVE  BundleInv'
<1> USE DEF BundleInv, AllOrNothing
<1>1. AloneIsAlone'
  BY DEF AloneIsAlone
<1>2. LoneProgress'
  <2> SUFFICES ASSUME NEW u \in Thread, call'[u] # None, call'[u].alone,
                      NEW c \in Comm \ call'[u].todo, NEW a \in Touches(call'[u])
               PROVE  connectors'[c][a] # None <=> call'[u].op \in Connecting
    BY DEF LoneProgress
  <2>1. CASE u = t
    BY <2>1
  <2>2. CASE u # t
    <3>1. call'[u] = call[u]
      BY <2>2
    <3>2. a \notin Touches(call[t])
      BY <2>2, <3>1 DEF AloneIsAlone
    <3>3. a \in Addr
      BY <3>1 DEF Touches, Addressed
    <3> QED
      BY <3>1, <3>2, <3>3 DEF LoneProgress
  <2> QED
    BY <2>1, <2>2
<1>3. Addressed'
  BY DEF Addressed
<1>4. AllOrNothing'
  <2> SUFFICES ASSUME NEW a \in Addr \ torn,
                      \A u \in Thread : call'[u] # None => a \notin Touches(call'[u])
               PROVE  {c \in Comm : connectors'[c][a] # None} \in {{}, Comm}
    OBVIOUS
  <2>1. a \notin Touches(call[t])
    OBVIOUS
  <2>2. \A u \in Thread : call[u] # None => a \notin Touches(call[u])
    BY <2>1
  <2>3. {c \in Comm : connectors'[c][a] # None} = {c \in Comm : connectors[c][a] # None}
    BY <2>1
  <2> QED
    BY <2>2, <2>3
<1> QED
  BY <1>1, <1>2, <1>3, <1>4

(* A call that returns: what it leaves behind is uniform if it was alone.  *)
LEMMA ReturnStep ==
  ASSUME BundleInv, TypeOK', NEW t \in Thread, Return(t)
  PROVE  BundleInv'
<1> USE DEF BundleInv, AllOrNothing
<1>1. call'[t] = None /\ \A u \in Thread \ {t} : call'[u] = call[u]
  BY DEF Return, TypeOK
<1>2. AloneIsAlone' /\ LoneProgress' /\ Addressed'
  BY <1>1 DEF Return, AloneIsAlone, LoneProgress, Addressed
<1>3. AllOrNothing'
  <2> SUFFICES ASSUME NEW a \in Addr \ torn',
                      \A u \in Thread : call'[u] # None => a \notin Touches(call'[u])
               PROVE  {c \in Comm : connectors[c][a] # None} \in {{}, Comm}
    BY DEF Return
  <2>1. CASE a \in Touches(call[t])
    <3>1. call[t].alone
      BY <2>1 DEF Return
    <3>2. \A c \in Comm : connectors[c][a] # None <=> call[t].op \in Connecting
      BY <2>1, <3>1 DEF Return, LoneProgress
    <3> QED
      BY <3>2
  <2>2. CASE a \notin Touches(call[t])
    <3>1. a \notin torn
      BY <2>2 DEF Return
    <3>2. \A u \in Thread : call[u] # None => a \notin Touches(call[u])
      BY <1>1, <2>2
    <3> QED
      BY <3>1, <3>2
  <2> QED
    BY <2>1, <2>2
<1> QED
  BY <1>2, <1>3

(* Connecting needs an open socket and its mutex; closing clears first.    *)
LEMMA ClosedIsEmptyStep ==
  TypeOK /\ Addressed /\ ClosedIsEmpty /\ [Next]_vars => ClosedIsEmpty'
<1> SUFFICES ASSUME TypeOK, Addressed, ClosedIsEmpty, [Next]_vars PROVE ClosedIsEmpty'
  OBVIOUS
<1> USE DEF TypeOK, Calls
<1>1. ASSUME NEW t \in Thread, NEW op \in Operation \ {"rollback"}, NEW a \in Addr \cup {None},
             Call(t, op, a)
      PROVE  ClosedIsEmpty'
  <2>1. \A u \in Thread : call'[u] # None /\ call'[u].closing # None =>
                            call[u] # None /\ call[u].closing = call'[u].closing
    BY <1>1 DEF Call
  <2>2. \A c \in Comm : MtxFree(c) => MtxFree(c)'
    BY <2>1 DEF MtxFree
  <2> QED
    BY <1>1, <2>2 DEF Call, ClosedIsEmpty
<1>2. ASSUME NEW t \in Thread, NEW c \in Comm, Connect(t, c) PROVE ClosedIsEmpty'
  <2>1. \A d \in Comm : MtxFree(d) => MtxFree(d)'
    BY <1>2 DEF Connect, At, Called, MtxFree
  <2>2. open[c] /\ MtxFree(c) /\ \A d \in Comm \ {c} : connectors'[d] = connectors[d]
    BY <1>2 DEF Connect, At
  <2> QED
    BY <1>2, <2>1, <2>2 DEF ClosedIsEmpty, Connect
<1>3. ASSUME NEW t \in Thread, NEW c \in Comm, ConnectFails(t, c) PROVE ClosedIsEmpty'
  <2>1. \A d \in Comm : MtxFree(d) => MtxFree(d)'
    BY <1>3 DEF ConnectFails, At, MtxFree
  <2> QED
    BY <1>3, <2>1 DEF ClosedIsEmpty, ConnectFails
<1>4. ASSUME NEW t \in Thread, NEW c \in Comm, Disconnect(t, c) PROVE ClosedIsEmpty'
  <2>1. \A d \in Comm : MtxFree(d) => MtxFree(d)'
    BY <1>4 DEF Disconnect, At, Called, MtxFree
  <2>2. \A d \in Comm, a \in Addr : connectors[d][a] = None => connectors'[d][a] = None
    BY <1>4 DEF Disconnect
  <2> QED
    BY <1>4, <2>1, <2>2 DEF ClosedIsEmpty, Disconnect
<1>5. ASSUME NEW t \in Thread, NEW c \in Comm, DisconnectAll(t, c) PROVE ClosedIsEmpty'
  <2>1. \A d \in Comm : MtxFree(d) => MtxFree(d)'
    BY <1>5 DEF DisconnectAll, At, Called, MtxFree
  <2>2. \A d \in Comm, a \in Addr : connectors[d][a] = None => connectors'[d][a] = None
    BY <1>5 DEF DisconnectAll
  <2> QED
    BY <1>5, <2>1, <2>2 DEF ClosedIsEmpty, DisconnectAll
<1>6. ASSUME NEW t \in Thread, NEW c \in Comm, Close(t, c) PROVE ClosedIsEmpty'
  <2>1. \A d \in Comm \ {c} : MtxFree(d) => MtxFree(d)'
    BY <1>6 DEF Close, At, MtxFree
  <2>2. \A a \in Addr : connectors'[c][a] = None
    BY <1>6 DEF Close, ClosedIsEmpty
  <2>3. \A d \in Comm \ {c} : connectors'[d] = connectors[d]
    BY <1>6 DEF Close
  <2> QED
    BY <1>6, <2>1, <2>2, <2>3 DEF ClosedIsEmpty, Close
<1>7. ASSUME NEW t \in Thread, Closed(t) PROVE ClosedIsEmpty'
  <2> DEFINE c == call[t].closing
  <2>1. c \in Comm /\ ~MtxFree(c)
    BY <1>7 DEF Closed, MtxFree
  <2>2. \A d \in Comm : MtxFree(d) => MtxFree(d)'
    BY <1>7 DEF Closed, MtxFree
  <2>3. \A d \in Comm \ {c} : open'[d] = open[d]
    BY <1>7, Zenon DEF Closed
  <2> QED
    BY <1>7, <2>1, <2>2, <2>3 DEF ClosedIsEmpty, Closed
<1>8. ASSUME NEW t \in Thread, Return(t) PROVE ClosedIsEmpty'
  <2>1. \A d \in Comm : MtxFree(d) => MtxFree(d)'
    BY <1>8 DEF Return, MtxFree
  <2> QED
    BY <1>8, <2>1 DEF ClosedIsEmpty, Return
<1>9. CASE UNCHANGED <<open, connectors, call>>
  BY <1>9 DEF ClosedIsEmpty, MtxFree
<1> QED
  BY <1>1, <1>2, <1>3, <1>4, <1>5, <1>6, <1>7, <1>8, <1>9
  DEF Next, Step, PipeAdded, PipeRefused, PipeRemoved, Begin, EndCallback, vars

(* Every step keeps the invariant.                                         *)
LEMMA BundleStep ==
  BundleInv /\ ClosedIsEmpty /\ [Next]_vars => BundleInv'
<1> SUFFICES ASSUME BundleInv, ClosedIsEmpty, [Next]_vars PROVE BundleInv'
  OBVIOUS
<1>0. TypeOK /\ TypeOK' /\ Addressed
  BY TypeStep DEF BundleInv, AllOrNothing
<1>1. ASSUME NEW t \in Thread, NEW op \in Operation \ {"rollback"}, NEW a \in Addr \cup {None},
             Call(t, op, a)
      PROVE  BundleInv'
  BY <1>0, <1>1, CallStep
<1>2. ASSUME NEW t \in Thread, NEW c \in Comm,
             Connect(t, c) \/ ConnectFails(t, c) \/ Disconnect(t, c)
      PROVE  BundleInv'
  <2> DEFINE a == call[t].base
  <2>1. /\ call[t] \in Calls /\ call[t] # None /\ c \in call[t].todo
        /\ call[t].op \in Connecting \cup {"disconnect", "rollback"}
        /\ a \in Addr /\ Touches(call[t]) = {a}
    BY <1>0, <1>2 DEF Connect, ConnectFails, Disconnect, At, TypeOK, Addressed, Touches,
                      Connecting, Everywhere
  <2>2. torn' = torn /\ \A u \in Thread \ {t} : call'[u] = call[u]
    BY <1>0, <1>2 DEF Connect, ConnectFails, Disconnect, Called, TypeOK
  <2>3. /\ call'[t] \in Calls /\ call'[t].alone = call[t].alone /\ call'[t].base = a
        /\ IF ConnectFails(t, c)
           THEN call'[t].op = "rollback" /\ call'[t].todo = Comm
           ELSE call'[t].op = call[t].op /\ call'[t].todo = call[t].todo \ {c}
    <3>1. CASE ConnectFails(t, c)
      <4>1. call'[t] = [call[t] EXCEPT !.op = "rollback", !.todo = Comm]
        BY <1>0, <3>1 DEF ConnectFails, TypeOK
      <4>2. [call[t] EXCEPT !.op = "rollback", !.todo = Comm] \in Calls
        BY <2>1, Zenon DEF Calls, Operation
      <4> QED
        BY <2>1, <3>1, <4>1, <4>2 DEF Calls
    <3>2. CASE ~ConnectFails(t, c)
      <4>1. call'[t] = [call[t] EXCEPT !.todo = @ \ {c}]
        BY <1>0, <1>2, <3>2 DEF Connect, Disconnect, Called, TypeOK
      <4> QED
        BY <2>1, <3>2, <4>1 DEF Calls
    <3> QED
      BY <3>1, <3>2
  <2>4. \A d \in Comm, b \in Addr \ {a} : connectors'[d][b] = connectors[d][b]
    BY <1>0, <1>2, <2>1 DEF Connect, ConnectFails, Disconnect, TypeOK
  <2>5. \A d \in Comm \ {c} : connectors'[d][a] = connectors[d][a]
    BY <1>0, <1>2, <2>1 DEF Connect, ConnectFails, Disconnect, TypeOK
  <2>6. ~ConnectFails(t, c) => (connectors'[c][a] # None <=> call[t].op \in Connecting)
    BY <1>0, <1>2, <2>1 DEF Connect, Disconnect, At, TypeOK, Connecting
  <2>7. call[t].alone => \A d \in Comm \ call'[t].todo, b \in {a} :
                           connectors'[d][b] # None <=> call'[t].op \in Connecting
    <3>1. CASE ConnectFails(t, c)
      BY <2>3, <3>1
    <3>2. CASE ~ConnectFails(t, c)
      BY <2>1, <2>3, <2>5, <2>6, <3>2 DEF BundleInv, LoneProgress
    <3> QED
      BY <3>1, <3>2
  <2>8. Touches(call'[t]) = {a} /\ call'[t] # None
    BY <2>1, <2>3 DEF Touches, Connecting, Everywhere
  <2> QED
    <3>1. Touches(call'[t]) = Touches(call[t])
      BY <2>1, <2>8
    <3>2. call'[t].op \notin Everywhere => call'[t].base \in Addr
      BY <2>1, <2>3
    <3>3. \A d \in Comm, b \in Addr \ Touches(call[t]) : connectors'[d][b] = connectors[d][b]
      BY <2>1, <2>4
    <3>4. call[t].alone => \A d \in Comm \ call'[t].todo, b \in Touches(call[t]) :
                             connectors'[d][b] # None <=> call'[t].op \in Connecting
      BY <2>1, <2>7
    <3> QED
      BY <1>0, <2>1, <2>2, <2>3, <2>8, <3>1, <3>2, <3>3, <3>4, ProgressStep, Zenon
<1>3. ASSUME NEW t \in Thread, NEW c \in Comm, DisconnectAll(t, c) \/ Close(t, c)
      PROVE  BundleInv'
  <2>1. /\ call[t] \in Calls /\ call[t] # None /\ c \in call[t].todo
        /\ call[t].op \in Everywhere /\ Touches(call[t]) = Addr
    BY <1>0, <1>3 DEF DisconnectAll, Close, At, TypeOK, Touches, Everywhere
  <2>2. torn' = torn /\ \A u \in Thread \ {t} : call'[u] = call[u]
    BY <1>0, <1>3 DEF DisconnectAll, Close, Called, TypeOK
  <2>3. /\ call'[t] \in Calls /\ call'[t].alone = call[t].alone
        /\ call'[t].op = call[t].op /\ call'[t].todo = call[t].todo \ {c}
    <3>1. CASE DisconnectAll(t, c)
      BY <1>0, <2>1, <3>1, Zenon DEF DisconnectAll, Called, TypeOK, Calls
    <3>2. CASE Close(t, c)
      BY <1>0, <2>1, <3>2, Zenon DEF Close, TypeOK, Calls
    <3> QED
      BY <1>3, <3>1, <3>2
  <2>4. \A d \in Comm \ {c} : connectors'[d] = connectors[d]
    BY <1>0, <1>3 DEF DisconnectAll, Close, TypeOK
  <2>5. \A a \in Addr : connectors'[c][a] = None
    BY <1>0, <1>3 DEF DisconnectAll, Close, TypeOK, ClosedIsEmpty
  <2>6. call[t].op \notin Connecting
    BY <2>1 DEF Connecting, Everywhere
  <2>7. call[t].alone => \A d \in Comm \ call'[t].todo, a \in Addr :
                           connectors'[d][a] # None <=> call'[t].op \in Connecting
    BY <2>1, <2>3, <2>4, <2>5, <2>6 DEF BundleInv, LoneProgress
  <2>8. Touches(call'[t]) = Addr /\ call'[t] # None
    BY <2>1, <2>3 DEF Touches
  <2> QED
    BY <1>0, <2>1, <2>2, <2>3, <2>7, <2>8, ProgressStep
<1>4. ASSUME NEW t \in Thread, Closed(t) PROVE BundleInv'
  <2>1. call[t] \in Calls /\ call[t] # None
    BY <1>0, <1>4 DEF Closed, TypeOK
  <2>2. /\ torn' = torn /\ connectors' = connectors
        /\ \A u \in Thread \ {t} : call'[u] = call[u]
    BY <1>0, <1>4 DEF Closed, TypeOK
  <2>3. /\ call'[t] \in Calls /\ call'[t].alone = call[t].alone /\ call'[t].base = call[t].base
        /\ call'[t].op = call[t].op /\ call'[t].todo = call[t].todo
    BY <1>0, <1>4, <2>1, Zenon DEF Closed, TypeOK, Calls
  <2>4. Touches(call'[t]) = Touches(call[t]) /\ call'[t] # None
    BY <2>3 DEF Touches
  <2>5. call'[t].op \notin Everywhere => call'[t].base \in Addr
    BY <1>0, <2>1, <2>3 DEF Addressed
  <2>6. call[t].alone => \A d \in Comm \ call'[t].todo, a \in Touches(call[t]) :
                           connectors'[d][a] # None <=> call'[t].op \in Connecting
    BY <2>1, <2>2, <2>3 DEF BundleInv, LoneProgress
  <2> QED
    BY <1>0, <2>1, <2>2, <2>3, <2>4, <2>5, <2>6, ProgressStep
<1>5. ASSUME NEW t \in Thread, Return(t) PROVE BundleInv'
  BY <1>0, <1>5, ReturnStep
<1>6. CASE UNCHANGED <<connectors, call, torn>>
  BY <1>0, <1>6 DEF BundleInv, AllOrNothing, AloneIsAlone, LoneProgress, Addressed
<1> QED
  BY <1>1, <1>2, <1>3, <1>4, <1>5, <1>6
  DEF Next, Step, PipeAdded, PipeRefused, PipeRemoved, Begin, EndCallback, vars

(* The inductive invariant holds in every reachable state.                 *)
THEOREM BundleCorrect == Spec => [](BundleInv /\ ClosedIsEmpty)
<1>1. Init => BundleInv /\ ClosedIsEmpty
  BY BundleInit DEF Init, ClosedIsEmpty
<1>2. BundleInv /\ ClosedIsEmpty /\ [Next]_vars => (BundleInv /\ ClosedIsEmpty)'
  BY BundleStep, ClosedIsEmptyStep DEF BundleInv, AllOrNothing
<1> QED
  BY <1>1, <1>2, PTL DEF Spec

(* A bundle is connected to an address with all its communicators or with  *)
(* none, unless calls about the address overlapped: Dial and Listen roll   *)
(* back what they have done when one communicator fails.                   *)
THEOREM BundleAllOrNothing == Spec => []AllOrNothing
<1>1. BundleInv => AllOrNothing
  BY DEF BundleInv
<1> QED
  BY <1>1, BundleCorrect, PTL
=============================================================================
