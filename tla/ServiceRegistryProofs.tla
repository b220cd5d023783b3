------------------------- MODULE ServiceRegistryProofs -------------------------
(***************************************************************************)
(* Proofs that the invariants of ServiceRegistry and of Registration hold  *)
(* for any number of pipes, paths and queries.                             *)
(***************************************************************************)
EXTENDS Registration, SequenceTheorems, TLAPS

(* The directory starts out consistent.                                    *)
LEMMA InitDirectory == Init => DirectoryInv
  <1> SUFFICES ASSUME Init PROVE DirectoryInv
    OBVIOUS
  <1>0. /\ query \in [Query -> Received \cup {NoQuery}]
        /\ connectors \subseteq {HostKey(x) : x \in Path}
        /\ run \in BOOLEAN /\ fault \in BOOLEAN
    BY Zenon DEF Init
  <1>1. TypeOK
    BY <1>0 DEF Init, TypeOK
  <1>2. NoLostWakeup /\ StopSeen /\ AnsweredOnce /\ RoutesNeverDangle /\ OneRoutePerPath
    BY NoneAssumption DEF Init, NoLostWakeup, StopSeen, AnsweredOnce, RoutesNeverDangle,
           OneRoutePerPath, Served, Closing, Queued
  <1>3. ReportsMatchRoutes /\ Bookkeeping
    BY DEF Init, ReportsMatchRoutes, Bookkeeping, Held, Served, Queued
  <1> QED BY <1>1, <1>2, <1>3 DEF DirectoryInv

-----------------------------------------------------------------------------
(***************************************************************************)
(* Steps of the receive callback.                                          *)
(***************************************************************************)
LEMMA ReceivePreserves ==
  ASSUME DirectoryInv,
         NEW q \in Query, NEW p \in Pipe, NEW x \in Path, NEW f \in Form,
         Receive(q, p, x, f)
  PROVE  DirectoryInv'
  <1> USE DEF DirectoryInv
  <1>1. TypeOK'
    BY DEF Receive, TypeOK, Received, tableVars, routeVars
  <1>2. /\ q \notin routes /\ q \notin unresponded /\ ~Queued(q)
        /\ \A r \in Query : Known(r) => query'[r] = query[r] /\ Known(r)'
        /\ Known(q)'
    BY NoneAssumption DEF Receive, TypeOK, Bookkeeping, Queued, Known, NoQuery
  <1>3. NoLostWakeup' /\ StopSeen'
    BY DEF Receive, NoLostWakeup, StopSeen
  <1>4. AnsweredOnce'
    BY DEF Receive, AnsweredOnce, Queued, Reachable
  <1>5. RoutesNeverDangle'
    BY DEF Receive, RoutesNeverDangle, Served, Closing, tableVars, routeVars
  <1>6. OneRoutePerPath'
    <2>1. UNCHANGED <<map, route_close>>
      BY DEF Receive, tableVars
    <2>2. \A r \in routes : query'[r] = query[r]
      BY <1>2, Zenon DEF Bookkeeping, TypeOK
    <2>3. /\ \A i \in 1 .. Len(route_close) : query'[route_close[i]] = query[route_close[i]]
          /\ \A y \in Path : Served(y) => query'[map[y]] = query[map[y]]
      BY <2>2, Zenon DEF RoutesNeverDangle
    <2>4. ASSUME NEW y \in Path, Served(y)'
          PROVE  query'[map[y]].path = y /\ \A i \in 1 .. Len(route_close) : query'[route_close[i]].path # y
      <3>1. Served(y)
        BY <2>1, <2>4, Zenon DEF Served
      <3> QED BY <2>3, <3>1, ZenonT(30) DEF OneRoutePerPath
    <2>5. ASSUME NEW i \in 1 .. Len(route_close), NEW j \in 1 .. Len(route_close),
                 query'[route_close[i]].path = query'[route_close[j]].path
          PROVE  i = j
      BY <2>3, <2>5, Zenon DEF OneRoutePerPath
    <2> QED BY <2>1, <2>4, <2>5, Zenon DEF OneRoutePerPath
  <1>7. ReportsMatchRoutes'
    <2>1. UNCHANGED <<map, route_close, created, gone, life>>
      BY DEF Receive, tableVars, routeVars
    <2>2. life # "destroyed" => \A i \in 1 .. Len(route_close) : query'[route_close[i]] = query[route_close[i]]
      BY <1>2 DEF Receive, RoutesNeverDangle, Bookkeeping, Closing
    <2>3. ASSUME NEW y \in Path, life # "destroyed" PROVE Held(y)' <=> Held(y)
      BY <2>1, <2>2, <2>3, Zenon DEF Held, Served
    <2> QED BY <2>1, <2>3 DEF ReportsMatchRoutes
  <1>8. Bookkeeping'
    BY <1>2 DEF Receive, Bookkeeping, TypeOK, Queued, Known, tableVars, routeVars
  <1> QED BY <1>1, <1>3, <1>4, <1>5, <1>6, <1>7, <1>8

(* async_recv answers a query it rejects: nothing else refers to the id.   *)
LEMMA RejectQueryPreserves ==
  ASSUME DirectoryInv, RejectQuery
  PROVE  DirectoryInv'
  <1> USE DEF DirectoryInv
  <1>1. TypeOK'
    BY Zenon DEF RejectQuery, RespondTo, TypeOK, Status, tableVars, routeVars, replyVars
  <1>2. AnsweredOnce'
    <2> SUFFICES ASSUME life = "alive", NEW q \in Query, Queued(q)
                 PROVE  q \in unresponded'
      BY NoneAssumption DEF RejectQuery, AnsweredOnce, Queued
    <2>1. q \in unresponded /\ q # recv
      BY DEF RejectQuery, AnsweredOnce, Bookkeeping
    <2> QED BY <2>1 DEF RejectQuery, RespondTo, replyVars
  <1>3. Bookkeeping'
    BY Zenon DEF RejectQuery, RespondTo, Bookkeeping, TypeOK, Queued, Known, routeVars, replyVars
  <1>4. (NoLostWakeup /\ StopSeen /\ RoutesNeverDangle /\ OneRoutePerPath /\ ReportsMatchRoutes)'
    BY DEF RejectQuery, NoLostWakeup, StopSeen, RoutesNeverDangle, OneRoutePerPath,
           ReportsMatchRoutes, Held, Served, Closing, tableVars, routeVars
  <1> QED BY <1>1, <1>2, <1>3, <1>4

(* async_recv queues a registration and wakes the thread, under mtx.       *)
LEMMA QueueRegistrationPreserves ==
  ASSUME DirectoryInv, QueueRegistration
  PROVE  DirectoryInv'
  <1> USE DEF DirectoryInv
  <1>0. /\ recv \in Query /\ query[recv] \in Received
        /\ recv \notin routes /\ ~Queued(recv) /\ Known(recv)
    BY DEF QueueRegistration, TypeOK, Bookkeeping, Known
  <1>1. TypeOK'
    BY <1>0, AppendProperties DEF QueueRegistration, Notify, TypeOK, Received, routeVars, replyVars
  <1>2. NoLostWakeup' /\ StopSeen'
    BY DEF QueueRegistration, Notify, NoLostWakeup, StopSeen, TypeOK
  <1>3. /\ Len(route_open') = Len(route_open) + 1 /\ Len(route_open) \in Nat
        /\ \A i \in 1 .. Len(route_open) : route_open'[i] = route_open[i]
        /\ route_open'[Len(route_open) + 1] = recv
        /\ \A i \in 1 .. Len(route_open') :
             i = Len(route_open) + 1 \/ i \in 1 .. Len(route_open)
    BY <1>0, AppendProperties DEF QueueRegistration, TypeOK
  <1>4. AnsweredOnce'
    BY <1>0, <1>3, NoneAssumption DEF QueueRegistration, AnsweredOnce, Queued, replyVars
  <1>5. Bookkeeping'
    BY <1>0, <1>3
       DEF QueueRegistration, Bookkeeping, Queued, Known, routeVars, replyVars
  <1>6. (RoutesNeverDangle /\ OneRoutePerPath /\ ReportsMatchRoutes)'
    BY DEF QueueRegistration, RoutesNeverDangle, OneRoutePerPath,
           ReportsMatchRoutes, Held, Served, Closing, routeVars
  <1> QED BY <1>1, <1>2, <1>4, <1>5, <1>6

-----------------------------------------------------------------------------
(***************************************************************************)
(* Steps that leave the directory alone: a disconnection nobody hears or   *)
(* that has no registration, the management thread taking or giving up     *)
(* mtx, and the first two steps of the destructor.                         *)
(***************************************************************************)
LEMMA QuietStepPreserves ==
  ASSUME DirectoryInv,
         UNCHANGED <<query, recv, replyVars, tableVars, route_open, route_close, routeVars>>,
         life' = "alive" => life = "alive",
         life' # "destroyed" => life # "destroyed"
  PROVE  (AnsweredOnce /\ RoutesNeverDangle /\ OneRoutePerPath
            /\ ReportsMatchRoutes /\ Bookkeeping)'
  <1> USE DEF DirectoryInv, replyVars, tableVars, routeVars
  <1>1. AnsweredOnce' /\ Bookkeeping'
    BY DEF AnsweredOnce, Bookkeeping, Queued, Known
  <1>2. RoutesNeverDangle' /\ OneRoutePerPath' /\ ReportsMatchRoutes'
    BY DEF RoutesNeverDangle, OneRoutePerPath, ReportsMatchRoutes, Held, Served, Closing
  <1> QED BY <1>1, <1>2

(* pipeEvent when the handler has expired: it is not called.               *)
LEMMA DisconnectUnheardPreserves ==
  ASSUME DirectoryInv, NEW p \in Pipe, DisconnectUnheard(p)
  PROVE  DirectoryInv'
  <1>1. TypeOK' /\ NoLostWakeup' /\ StopSeen'
    BY DEF DirectoryInv, DisconnectUnheard, TypeOK, NoLostWakeup, StopSeen,
           replyVars, tableVars, routeVars
  <1> QED BY <1>1, QuietStepPreserves DEF DirectoryInv, DisconnectUnheard

(* pipeEvent for a pipe without a registration: the directory is as it was *)
(* or the process is dead.                                                 *)
LEMMA DisconnectUnknownPreserves ==
  ASSUME DirectoryInv, NEW p \in Pipe, DisconnectUnknown(p)
  PROVE  DirectoryInv'
  <1>1. TypeOK' /\ NoLostWakeup' /\ StopSeen'
    BY DEF DirectoryInv, DisconnectUnknown, TypeOK, NoLostWakeup, StopSeen,
           replyVars, tableVars, routeVars
  <1> QED BY <1>1, QuietStepPreserves DEF DirectoryInv, DisconnectUnknown

(* The thread gets mtx: it works only if it has just seen run = TRUE.      *)
LEMMA MgmtAcquirePreserves ==
  ASSUME DirectoryInv, MgmtAcquire
  PROVE  DirectoryInv'
  <1>1. TypeOK' /\ NoLostWakeup' /\ StopSeen'
    BY DEF DirectoryInv, MgmtAcquire, TypeOK, NoLostWakeup, StopSeen,
           replyVars, tableVars, routeVars
  <1> QED BY <1>1, QuietStepPreserves DEF DirectoryInv, MgmtAcquire

(* The thread falls asleep only when it has emptied both queues, and only  *)
(* after it has seen run = TRUE; it holds mtx from there to here.          *)
LEMMA MgmtWaitPreserves ==
  ASSUME DirectoryInv, MgmtWait
  PROVE  DirectoryInv'
  <1>1. TypeOK' /\ NoLostWakeup' /\ StopSeen'
    BY DEF DirectoryInv, MgmtWait, TypeOK, NoLostWakeup, StopSeen,
           replyVars, tableVars, routeVars
  <1> QED BY <1>1, QuietStepPreserves DEF DirectoryInv, MgmtWait

(* A spurious wakeup disturbs nothing.                                     *)
LEMMA SpuriousWakeupPreserves ==
  ASSUME DirectoryInv, SpuriousWakeup
  PROVE  DirectoryInv'
  <1>1. TypeOK' /\ NoLostWakeup' /\ StopSeen'
    BY DEF DirectoryInv, SpuriousWakeup, TypeOK, NoLostWakeup, StopSeen,
           replyVars, tableVars, routeVars
  <1> QED BY <1>1, QuietStepPreserves DEF DirectoryInv, SpuriousWakeup

(* ~Services retires the handlers when no query is being handled.          *)
LEMMA ExpireHandlersPreserves ==
  ASSUME DirectoryInv, ExpireHandlers
  PROVE  DirectoryInv'
  <1>1. TypeOK' /\ NoLostWakeup' /\ StopSeen'
    BY DEF DirectoryInv, ExpireHandlers, TypeOK, NoLostWakeup, StopSeen,
           replyVars, tableVars, routeVars
  <1> QED BY <1>1, QuietStepPreserves DEF DirectoryInv, ExpireHandlers, Reachable

(* ~Services asks for the stop under mtx and wakes the thread.             *)
LEMMA StopManagementPreserves ==
  ASSUME DirectoryInv, StopManagement
  PROVE  DirectoryInv'
  <1>1. TypeOK' /\ NoLostWakeup' /\ StopSeen'
    BY Zenon DEF DirectoryInv, StopManagement, Notify, MtxFree, TypeOK, NoLostWakeup, StopSeen,
           replyVars, tableVars, routeVars
  <1> QED BY <1>1, QuietStepPreserves DEF DirectoryInv, StopManagement

(* ~Services ends: the table and the queues are gone.                      *)
LEMMA JoinManagementPreserves ==
  ASSUME DirectoryInv, JoinManagement
  PROVE  DirectoryInv'
  <1> USE DEF DirectoryInv, JoinManagement, routeVars
  <1>1. TypeOK' /\ NoLostWakeup' /\ StopSeen'
    BY DEF TypeOK, NoLostWakeup, StopSeen
  <1>2. AnsweredOnce' /\ RoutesNeverDangle' /\ OneRoutePerPath' /\ ReportsMatchRoutes'
    BY DEF AnsweredOnce, RoutesNeverDangle, OneRoutePerPath, ReportsMatchRoutes, Served
  <1>3. Bookkeeping'
    BY DEF Bookkeeping, Known, Queued, TypeOK
  <1> QED BY <1>1, <1>2, <1>3

-----------------------------------------------------------------------------
(***************************************************************************)
(* A registered pipe goes away.  Its path's Route moves from the table to  *)
(* the end of the closing queue, so the path stays held.                   *)
(***************************************************************************)
LEMMA DisconnectRegisteredPreserves ==
  ASSUME DirectoryInv, NEW p \in Pipe, DisconnectRegistered(p)
  PROVE  DirectoryInv'
  <1> USE DEF DirectoryInv
  <1> DEFINE x == registrationMap[p]
             r == map[x]
             n == Len(route_close)
  <1>1. x \in Path
    BY DEF DisconnectRegistered, TypeOK
  <1>2. CASE ~Served(x)
    <2>1. TypeOK' /\ NoLostWakeup' /\ StopSeen'
      BY <1>2 DEF DisconnectRegistered, TypeOK, NoLostWakeup, StopSeen, replyVars, routeVars
    <2>2. AnsweredOnce' /\ Bookkeeping'
      BY Zenon DEF DisconnectRegistered, AnsweredOnce, Bookkeeping, Queued, Known, replyVars, routeVars
    <2>3. RoutesNeverDangle' /\ OneRoutePerPath' /\ ReportsMatchRoutes'
      BY <1>2 DEF DisconnectRegistered, RoutesNeverDangle, OneRoutePerPath,
                  ReportsMatchRoutes, Held, Served, Closing, routeVars
    <2> QED BY <2>1, <2>2, <2>3
  <1>3. CASE Served(x)
    <2>1. /\ r \in Query /\ r \in routes /\ ~Closing(r) /\ query[r].path = x
          /\ \A i \in 1 .. n : query[route_close[i]].path # x
      BY <1>1, <1>3 DEF TypeOK, Served, RoutesNeverDangle, OneRoutePerPath
    <2>2. /\ map' = [map EXCEPT ![x] = None]
          /\ route_close' = Append(route_close, r)
          /\ UNCHANGED <<query, recv, replyVars, route_open, routeVars, run, life, fault>>
      BY <1>3 DEF DisconnectRegistered, Unlist
    <2>3. /\ Len(route_close') = n + 1 /\ n \in Nat
          /\ \A i \in 1 .. n : route_close'[i] = route_close[i]
          /\ route_close'[n + 1] = r
          /\ \A i \in 1 .. Len(route_close') : i = n + 1 \/ i \in 1 .. n
          /\ route_close' \in Seq(Query)
      BY <2>1, <2>2, AppendProperties DEF TypeOK
    <2>4. TypeOK' /\ NoLostWakeup' /\ StopSeen'
      <3>1. mgmt' # "waiting" /\ (mgmt' = "working" => mgmt = "working")
              /\ mgmt' \in {"starting", "working", "waiting", "woken", "done"}
        BY <1>3 DEF DisconnectRegistered, Unlist, Notify, TypeOK
      <3> QED BY <2>2, <2>3, <3>1
              DEF DisconnectRegistered, TypeOK, NoLostWakeup, StopSeen, replyVars, routeVars
    <2>5. AnsweredOnce' /\ Bookkeeping'
      BY <2>2, Zenon DEF AnsweredOnce, Bookkeeping, Queued, Known, replyVars, routeVars
    <2>6. \A y \in Path : Served(y)' => y # x /\ Served(y) /\ map'[y] = map[y]
      BY <1>1, <2>2 DEF Served, TypeOK
    <2>7. RoutesNeverDangle'
      <3>1. \A y \in Path : Served(y)' => map'[y] # r
        BY <2>1, <2>6 DEF OneRoutePerPath
      <3> QED BY <2>1, <2>2, <2>3, <2>6, <3>1 DEF RoutesNeverDangle, Closing, routeVars
    <2>8. OneRoutePerPath'
      BY <2>1, <2>2, <2>3, <2>6 DEF OneRoutePerPath
    <2>9. ReportsMatchRoutes'
      <3>1. \A y \in Path : Held(y)' <=> Held(y)
        <4> TAKE y \in Path
        <4>1. CASE y = x
          BY <1>3, <2>1, <2>2, <2>3, <4>1 DEF Held
        <4>2. CASE y # x
          <5>1. Served(y)' <=> Served(y)
            BY <1>1, <2>2, <4>2 DEF Served, TypeOK
          <5> QED BY <2>1, <2>2, <2>3, <4>2, <5>1 DEF Held
        <4> QED BY <4>1, <4>2
      <3> QED BY <2>2, <3>1 DEF ReportsMatchRoutes, routeVars
    <2> QED BY <2>4, <2>5, <2>7, <2>8, <2>9
  <1> QED BY <1>2, <1>3

(***************************************************************************)
(* The management thread closes the Route at the head of the queue.        *)
(***************************************************************************)
LEMMA MgmtClosePreserves ==
  ASSUME DirectoryInv, MgmtClose
  PROVE  DirectoryInv'
  <1> USE DEF DirectoryInv
  <1>1. /\ Head(route_close) \in Query
        /\ Head(route_close) = route_close[1] /\ 1 \in 1 .. Len(route_close)
        /\ route_close' \in Seq(Query)
        /\ \A i \in 1 .. Len(route_close') :
             i + 1 \in 1 .. Len(route_close) /\ route_close'[i] = route_close[i + 1]
        /\ Len(route_close) \in Nat /\ Len(route_close') = Len(route_close) - 1
    BY HeadTailProperties DEF MgmtClose, TypeOK
  <1>r. PICK r \in Query : r = Head(route_close) /\ r = route_close[1]
    BY <1>1
  <1>x. r \in routes /\ Known(r) /\ query[r].path \in Path
    <2>1. r \in routes /\ Known(r)
      BY <1>1, <1>r, Zenon DEF RoutesNeverDangle, Bookkeeping
    <2>2. query[r] \in Received
      BY <2>1 DEF TypeOK, Known
    <2> QED BY <2>1, <2>2 DEF Received
  <1>3. PICK x \in Path : x = query[r].path
    BY <1>x
  <1>2. /\ routes' = routes \ {r}
        /\ gone' = [gone EXCEPT ![x] = @ + 1]
        /\ connectors' \subseteq connectors
        /\ UNCHANGED <<query, recv, unresponded, reply, registrationMap, map, route_open,
                       created, mgmt, run, life, fault, pipes>>
    BY <1>r, <1>3 DEF MgmtClose, replyVars, tableVars
  <1>4. TypeOK'
    BY <1>1, <1>2, <1>3 DEF TypeOK
  <1>5. NoLostWakeup' /\ StopSeen' /\ AnsweredOnce' /\ Bookkeeping'
    BY <1>2 DEF MgmtClose, NoLostWakeup, StopSeen, AnsweredOnce, Bookkeeping, Queued, Known
  <1>6. \A i \in 1 .. Len(route_close') :
          /\ route_close'[i] # r
          /\ query[route_close'[i]].path # x
    BY <1>1, <1>r, <1>3 DEF RoutesNeverDangle, OneRoutePerPath
  <1>7. \A y \in Path : Served(y) => map[y] # r /\ y # x
    BY <1>1, <1>r, <1>3 DEF RoutesNeverDangle, OneRoutePerPath, Closing
  <1>8. RoutesNeverDangle'
    <2>1. \A y \in Path : Served(y)' => map'[y] \in routes' /\ ~Closing(map[y])'
      BY <1>1, <1>2, <1>7 DEF RoutesNeverDangle, Closing, Served
    <2>2. \A i, j \in 1 .. Len(route_close') :
            route_close'[i] \in routes' /\ (route_close'[i] = route_close'[j] => i = j)
      BY <1>1, <1>2, <1>6 DEF RoutesNeverDangle
    <2> QED BY <2>1, <2>2 DEF RoutesNeverDangle
  <1>9. OneRoutePerPath'
    <2>1. \A y \in Path : Served(y)' =>
            /\ query'[map'[y]].path = y
            /\ \A i \in 1 .. Len(route_close') : query'[route_close'[i]].path # y
      BY <1>1, <1>2 DEF OneRoutePerPath, Served
    <2>2. \A i, j \in 1 .. Len(route_close') :
            query'[route_close'[i]].path = query'[route_close'[j]].path => i = j
      BY <1>1, <1>2 DEF OneRoutePerPath
    <2> QED BY <2>1, <2>2 DEF OneRoutePerPath
  <1>10. ReportsMatchRoutes'
    <2>1. Held(x) /\ ~Held(x)'
      BY <1>1, <1>2, <1>r, <1>3, <1>6, <1>7, Zenon DEF Held, Served
    <2>2. \A y \in Path : y # x => (Held(y)' <=> Held(y))
      <3> SUFFICES ASSUME NEW y \in Path, y # x
                   PROVE  Held(y)' <=> Held(y)
        OBVIOUS
      <3>1. ASSUME NEW i \in 1 .. Len(route_close), query[route_close[i]].path = y
            PROVE  i - 1 \in 1 .. Len(route_close') /\ route_close'[i - 1] = route_close[i]
        <4>1. i # 1
          BY <1>r, <1>3, <3>1
        <4>2. i - 1 \in 1 .. Len(route_close')
          BY <1>1, <4>1
        <4> QED BY <1>1, <4>2
      <3>2. Held(y) => Held(y)'
        BY <1>2, <3>1, Zenon DEF Held, Served
      <3>3. Held(y)' => Held(y)
        BY <1>1, <1>2, Zenon DEF Held, Served
      <3> QED BY <3>2, <3>3
    <2> QED BY <1>2, <1>3, <2>1, <2>2 DEF ReportsMatchRoutes, TypeOK
  <1> QED BY <1>4, <1>5, <1>8, <1>9, <1>10

-----------------------------------------------------------------------------
(***************************************************************************)
(* The management thread takes a registration off the queue.  Its id stays *)
(* nowhere else, and the queue keeps its order.                            *)
(***************************************************************************)
LEMMA OpeningTakesOne ==
  ASSUME DirectoryInv, NEW q \in Query, Opening(q)
  PROVE  /\ Known(q) /\ query[q] \in Received /\ q \notin routes /\ q # recv
         /\ life = "alive" => q \in unresponded
         /\ route_open' \in Seq(Query)
         /\ \A i \in 1 .. Len(route_open') :
              /\ i + 1 \in 1 .. Len(route_open)
              /\ route_open'[i] = route_open[i + 1]
              /\ route_open'[i] # q
         /\ \A s \in Query : Queued(s)' => Queued(s) /\ s # q
         /\ mgmt = "working" /\ run
         /\ \A i \in 1 .. Len(route_close) : FALSE
  <1> USE DEF DirectoryInv
  <1>1. /\ q = route_open[1] /\ 1 \in 1 .. Len(route_open)
        /\ route_open' \in Seq(Query)
        /\ Len(route_open) \in Nat /\ Len(route_open') = Len(route_open) - 1
        /\ \A i \in 1 .. Len(route_open') :
             i + 1 \in 1 .. Len(route_open) /\ route_open'[i] = route_open[i + 1]
    BY HeadTailProperties DEF Opening, TypeOK
  <1>2. Queued(q) /\ Known(q) /\ query[q] \in Received /\ q \notin routes
    <2>1. Queued(q)
      BY <1>1, Zenon DEF Queued
    <2>2. Known(q) /\ q \notin routes
      BY <1>1, Zenon DEF Bookkeeping
    <2> QED BY <2>1, <2>2 DEF TypeOK, Known
  <1>3. q # recv
    BY <1>2, NoneAssumption DEF Bookkeeping
  <1>4. life = "alive" => q \in unresponded
    BY <1>2 DEF AnsweredOnce
  <1>5. \A i \in 1 .. Len(route_open') : route_open'[i] # q
    <2> SUFFICES ASSUME NEW i \in 1 .. Len(route_open'), route_open[i + 1] = route_open[1]
                 PROVE  FALSE
      BY <1>1
    <2>1. i + 1 = 1
      BY <1>1 DEF Bookkeeping
    <2> QED BY <1>1, <2>1
  <1>6. \A s \in Query : Queued(s)' => Queued(s) /\ s # q
    BY <1>1, <1>5 DEF Queued
  <1>7. mgmt = "working" /\ run /\ \A i \in 1 .. Len(route_close) : FALSE
    BY DEF Opening, StopSeen
  <1> QED BY <1>1, <1>2, <1>3, <1>4, <1>5, <1>6, <1>7

(* Answering the registration just taken off the queue.                    *)
LEMMA OpeningAnswers ==
  ASSUME DirectoryInv, NEW q \in Query, Opening(q),
         NEW status \in Status, RespondTo(q, status),
         UNCHANGED <<query, recv, mgmt, run, life>>,
         routes' \subseteq routes \cup {q}
  PROVE  /\ unresponded' \subseteq unresponded
         /\ reply' \in [Query -> Status \cup {None}]
         /\ fault' \in BOOLEAN
         /\ NoLostWakeup' /\ StopSeen' /\ AnsweredOnce' /\ Bookkeeping'
  <1> USE DEF DirectoryInv
  <1>0. /\ Known(q) /\ query[q] \in Received /\ q \notin routes /\ q # recv
        /\ life = "alive" => q \in unresponded
        /\ \A i \in 1 .. Len(route_open') :
             /\ i + 1 \in 1 .. Len(route_open)
             /\ route_open'[i] = route_open[i + 1]
             /\ route_open'[i] # q
        /\ \A s \in Query : Queued(s)' => Queued(s) /\ s # q
        /\ mgmt = "working" /\ run
    BY OpeningTakesOne, Zenon
  <1>1. /\ unresponded \ {q} \subseteq unresponded'
        /\ unresponded' \subseteq unresponded
        /\ reply' \in [Query -> Status \cup {None}]
        /\ fault' \in BOOLEAN
    BY Zenon DEF RespondTo, TypeOK, replyVars
  <1>2. NoLostWakeup' /\ StopSeen'
    BY <1>0 DEF NoLostWakeup, StopSeen
  <1>3. AnsweredOnce'
    BY <1>0, <1>1, Zenon DEF AnsweredOnce
  <1>4. Bookkeeping'
    <2>1. recv' # None => Known(recv)' /\ recv' \notin routes' /\ ~Queued(recv)'
      BY <1>0, Zenon DEF Bookkeeping, Known, TypeOK
    <2>2. \A s \in unresponded' \cup routes' : Known(s)'
      BY <1>0, <1>1, Zenon DEF Bookkeeping, Known
    <2>3. \A i, j \in 1 .. Len(route_open') :
            /\ Known(route_open[i])'
            /\ route_open'[i] \notin routes'
            /\ route_open'[i] = route_open'[j] => i = j
      <3> SUFFICES ASSUME NEW i \in 1 .. Len(route_open'), NEW j \in 1 .. Len(route_open')
                   PROVE  /\ Known(route_open[i])'
                          /\ route_open'[i] \notin routes'
                          /\ route_open'[i] = route_open'[j] => i = j
        OBVIOUS
      <3>1. Known(route_open[i])' /\ route_open'[i] \notin routes'
        BY <1>0 DEF Bookkeeping, Known
      <3>2. route_open'[i] = route_open'[j] => i + 1 = j + 1
        BY <1>0 DEF Bookkeeping
      <3> QED BY <3>1, <3>2
    <2> QED BY <2>1, <2>2, <2>3 DEF Bookkeeping
  <1> QED BY <1>1, <1>2, <1>3, <1>4

(* A registration for a path already served is refused.                    *)
LEMMA MgmtConflictPreserves ==
  ASSUME DirectoryInv, NEW q \in Query, MgmtConflict(q)
  PROVE  DirectoryInv'
  <1> USE DEF DirectoryInv
  <1>1. Opening(q) /\ RespondTo(q, "Conflict") /\ "Conflict" \in Status
    BY DEF MgmtConflict, Status
  <1>2. /\ UNCHANGED <<pipes, query, recv, map, route_close, routes, connectors, created, gone,
                       mgmt, run, life>>
        /\ registrationMap' = [registrationMap EXCEPT ![query[q].pipe] = None]
    BY DEF MgmtConflict, Unregister, routeVars
  <1>3. query[q] \in Received /\ route_open' \in Seq(Query)
    BY <1>1, OpeningTakesOne
  <1>4. /\ unresponded' \subseteq unresponded
        /\ reply' \in [Query -> Status \cup {None}]
        /\ fault' \in BOOLEAN
        /\ NoLostWakeup' /\ StopSeen' /\ AnsweredOnce' /\ Bookkeeping'
    BY <1>1, <1>2, OpeningAnswers
  <1>5. TypeOK'
    BY <1>2, <1>3, <1>4 DEF TypeOK, Received
  <1>6. RoutesNeverDangle' /\ OneRoutePerPath' /\ ReportsMatchRoutes'
    BY <1>2, Zenon DEF RoutesNeverDangle, OneRoutePerPath, ReportsMatchRoutes, Held, Served, Closing
  <1> QED BY <1>4, <1>5, <1>6

(* A registration whose service cannot be dialed is refused; the Route it  *)
(* leaves behind is in neither the table nor the closing queue.            *)
LEMMA MgmtDialFailsPreserves ==
  ASSUME DirectoryInv, NEW q \in Query, NEW stage \in DialStage, MgmtDialFails(q, stage)
  PROVE  DirectoryInv'
  <1> USE DEF DirectoryInv
  <1>1. /\ Opening(q) /\ RespondTo(q, "ServiceUnavailable")
        /\ "ServiceUnavailable" \in Status
    BY DEF MgmtDialFails, Status
  <1>2. /\ UNCHANGED <<pipes, query, recv, map, route_close, created, gone, mgmt, run, life>>
        /\ registrationMap' = [registrationMap EXCEPT ![query[q].pipe] = None]
        /\ routes \subseteq routes' /\ routes' \subseteq routes \cup {q}
        /\ connectors' \subseteq connectors \cup {HostKey(query[q].path)}
    BY DEF MgmtDialFails, Unregister
  <1>3. query[q] \in Received /\ route_open' \in Seq(Query) /\ \A i \in 1 .. Len(route_close) : FALSE
    BY <1>1, OpeningTakesOne, Zenon
  <1>4. /\ unresponded' \subseteq unresponded
        /\ reply' \in [Query -> Status \cup {None}]
        /\ fault' \in BOOLEAN
        /\ NoLostWakeup' /\ StopSeen' /\ AnsweredOnce' /\ Bookkeeping'
    BY <1>1, <1>2, OpeningAnswers
  <1>5. TypeOK'
    BY <1>2, <1>3, <1>4, Zenon DEF TypeOK, Received
  <1>6. RoutesNeverDangle' /\ OneRoutePerPath' /\ ReportsMatchRoutes'
    BY <1>2, Zenon DEF RoutesNeverDangle, OneRoutePerPath, ReportsMatchRoutes, Held, Served, Closing
  <1> QED BY <1>4, <1>5, <1>6

(* No Route is waiting to be closed, so the path of the new one is free in *)
(* the table and in the reports.                                           *)
LEMMA MgmtEnlistPreserves ==
  ASSUME DirectoryInv, NEW q \in Query, MgmtEnlist(q)
  PROVE  DirectoryInv'
  <1> USE DEF DirectoryInv
  <1>1. Opening(q) /\ RespondTo(q, "OK") /\ "OK" \in Status /\ ~Served(query[q].path)
    BY DEF MgmtEnlist, Status
  <1>2. /\ query[q] \in Received /\ q \notin routes
        /\ route_open' \in Seq(Query) /\ \A i \in 1 .. Len(route_close) : FALSE
    BY <1>1, OpeningTakesOne
  <1>3. PICK x \in Path : x = query[q].path
    BY <1>2 DEF Received
  <1>4. /\ UNCHANGED <<pipes, query, recv, registrationMap, route_close, gone, mgmt, run, life>>
        /\ map' = [map EXCEPT ![x] = q]
        /\ routes' = routes \cup {q}
        /\ connectors' = connectors \cup {HostKey(x)}
        /\ created' = [created EXCEPT ![x] = @ + 1]
    BY <1>3 DEF MgmtEnlist
  <1>5. /\ unresponded' \subseteq unresponded
        /\ reply' \in [Query -> Status \cup {None}]
        /\ fault' \in BOOLEAN
        /\ NoLostWakeup' /\ StopSeen' /\ AnsweredOnce' /\ Bookkeeping'
    BY <1>1, <1>4, OpeningAnswers
  <1>6. TypeOK'
    BY <1>2, <1>4, <1>5 DEF TypeOK
  <1>7. \A y \in Path : map'[y] = IF y = x THEN q ELSE map[y]
    BY <1>4 DEF TypeOK
  <1>8. RoutesNeverDangle' /\ OneRoutePerPath'
    BY <1>2, <1>3, <1>4, <1>7 DEF RoutesNeverDangle, OneRoutePerPath, Served, Closing
  <1>9. ReportsMatchRoutes'
    <2>1. ~Held(x) /\ Held(x)'
      BY <1>1, <1>2, <1>3, <1>7, NoneAssumption, Zenon DEF Held, Served
    <2>2. \A y \in Path : y # x => (Held(y)' <=> Held(y))
      BY <1>2, <1>4, <1>7, Zenon DEF Held, Served
    <2> QED BY <1>4, <2>1, <2>2 DEF ReportsMatchRoutes, TypeOK
  <1> QED BY <1>5, <1>6, <1>8, <1>9

-----------------------------------------------------------------------------
(* The directory invariant is inductive: one case per action.              *)
LEMMA NextDirectory == DirectoryInv /\ [Next]_vars => DirectoryInv'
  <1> SUFFICES ASSUME DirectoryInv, [Next]_vars PROVE DirectoryInv'
    OBVIOUS
  <1>1. CASE Management
    BY <1>1, MgmtAcquirePreserves, MgmtClosePreserves, MgmtConflictPreserves,
       MgmtDialFailsPreserves, MgmtEnlistPreserves, MgmtWaitPreserves DEF Management
  <1>2. CASE \E q \in Query, p \in Pipe, x \in Path, f \in Form : Receive(q, p, x, f)
    BY <1>2, ReceivePreserves
  <1>3. CASE \E p \in Pipe : \/ DisconnectUnheard(p)
                             \/ DisconnectUnknown(p)
                             \/ DisconnectRegistered(p)
    BY <1>3, DisconnectUnheardPreserves, DisconnectUnknownPreserves,
       DisconnectRegisteredPreserves
  <1>4. CASE RejectQuery \/ QueueRegistration \/ SpuriousWakeup
    BY <1>4, RejectQueryPreserves, QueueRegistrationPreserves, SpuriousWakeupPreserves
  <1>5. CASE ExpireHandlers \/ StopManagement \/ JoinManagement
    BY <1>5, ExpireHandlersPreserves, StopManagementPreserves, JoinManagementPreserves
  <1>6. CASE UNCHANGED vars
    <2>1. TypeOK' /\ NoLostWakeup' /\ StopSeen'
      BY <1>6 DEF DirectoryInv, TypeOK, NoLostWakeup, StopSeen, vars
    <2> QED BY <1>6, <2>1, QuietStepPreserves
            DEF DirectoryInv, vars, replyVars, tableVars, routeVars
  <1> QED BY <1>1, <1>2, <1>3, <1>4, <1>5, <1>6 DEF Next

(* Every reachable state of the directory is consistent, however many      *)
(* services register, leave and come back in whatever order.               *)
THEOREM DirectoryConsistent == Spec => []DirectoryInv
  BY InitDirectory, NextDirectory, PTL DEF Spec

(* The variables of Services keep their types.                             *)
THEOREM TypeCorrect == Spec => []TypeOK
  BY DirectoryConsistent, PTL DEF DirectoryInv

(* The management thread is never asleep while it has something to do.     *)
THEOREM WakeupsAreNotLost == Spec => []NoLostWakeup
  BY DirectoryConsistent, PTL DEF DirectoryInv

(* The management thread never answers a registration twice.               *)
THEOREM RegistrationsAnsweredOnce == Spec => []AnsweredOnce
  BY DirectoryConsistent, PTL DEF DirectoryInv

(* The table and the closing queue never hold a deleted Route.             *)
THEOREM NoDanglingRoute == Spec => []RoutesNeverDangle
  BY DirectoryConsistent, PTL DEF DirectoryInv

(* Services are listed under unique URIs.                                  *)
THEOREM UniquePaths == Spec => []OneRoutePerPath
  BY DirectoryConsistent, PTL DEF DirectoryInv

(* The table that requests are routed by is sound.                         *)
THEOREM TableIsSound == Spec => []RouteTableSound
  BY DirectoryConsistent, PTL DEF DirectoryInv, RouteTableSound

(* The published reports agree with the directory.                         *)
THEOREM ReportsTruthful == Spec => []ReportsMatchRoutes
  BY DirectoryConsistent, PTL DEF DirectoryInv

-----------------------------------------------------------------------------
(***************************************************************************)
(* Services that register themselves.  The inductive invariant follows a   *)
(* query, the only one of its pipe, from the receive callback through      *)
(* route_open to its answer.                                               *)
(***************************************************************************)
RegTypes ==
  /\ registration \in
       [Pipe -> {"none", "INITIAL", "REQUESTED", "ENLISTED", "FAILED", "gone"}]
  /\ except \in [Pipe -> {"success", "refused", "unsent", "unheard"}]
  /\ uri \in [Pipe -> Path \cup {None}]
  /\ listening \subseteq Pipe
  /\ \A p \in Pipe : registration[p] # "none" => uri[p] \in Path
  /\ \A p \in Pipe : registration[p] = "FAILED" => except[p] # "success"

(* A Registration makes one request over its connection, and only queries  *)
(* that were received are answered.                                        *)
OneQueryPerPipe ==
  /\ \A q, r \in Query : Known(q) /\ Known(r) /\ query[q].pipe = query[r].pipe => q = r
  /\ \A q \in Query : ~Known(q) => reply[q] = None

(* What is known of a query that was received.  The map of registrations   *)
(* has its path from the time it is queued until it is refused or its      *)
(* service leaves.  Unless its path is hasty, its service is there until   *)
(* it is answered, and it has its Route as long as the service stays.      *)
InProgress(q) ==
  LET p == query[q].pipe
      x == query[q].path
  IN  /\ registration[p] # "none" /\ uri[p] = x
      /\ reply[q] = None /\ x \notin hasty => p \in pipes
      /\ Queued(q) => reply[q] = None /\ (p \in pipes => registrationMap[p] = x)
      /\ recv = q => reply[q] = None /\ registrationMap[p] = None
      /\ registrationMap[p] # None => registrationMap[p] = x /\ (Queued(q) \/ reply[q] = "OK")
      /\ reply[q] = "OK" /\ p \in pipes => registrationMap[p] = x
      /\ map[x] = q => reply[q] = "OK"
      /\ x \notin hasty => (map[x] = q <=> reply[q] = "OK" /\ p \in pipes)
      /\ isRegistered(p) => reply[q] = "OK"
      /\ registration[p] = "FAILED" => except[p] = "unheard" \/ reply[q] \notin {None, "OK"}

(* A pipe in the map, or that has an answer, has made its request.         *)
HasAsked ==
  \A p \in Pipe : registrationMap[p] # None \/ isRegistered(p) \/ except[p] = "refused" =>
    \E q \in Query : Known(q) /\ query[q].pipe = p

RegInv ==
  /\ DirectoryInv /\ RegTypes /\ OneQueryPerPipe
  /\ Reachable => HasAsked /\ \A q \in Query : Known(q) => InProgress(q)

(* The parts of a received query are a pipe and a path.                    *)
LEMMA KnownParts ==
  ASSUME TypeOK, NEW q \in Query
  PROVE  /\ Known(q) <=> query[q] \in Received
         /\ Known(q) => query[q].pipe \in Pipe /\ query[q].path \in Path
         /\ ~Known(q) => query[q].pipe = None
         /\ query[q].pipe \in Pipe => Known(q)
  BY NoneAssumption DEF TypeOK, Known, Received, NoQuery

(* At first nobody has registered.                                         *)
LEMMA InitReg == RegInit => RegInv
  <1> SUFFICES ASSUME RegInit PROVE RegInv
    OBVIOUS
  <1>1. DirectoryInv
    BY InitDirectory DEF RegInit
  <1>2. RegTypes
    BY DEF RegInit, RegTypes
  <1>3. \A q \in Query : ~Known(q) /\ reply[q] = None
    BY DEF RegInit, Init, Known
  <1>4. OneQueryPerPipe
    BY <1>3 DEF OneQueryPerPipe
  <1>5. HasAsked
    BY DEF RegInit, Init, HasAsked, isRegistered
  <1> QED BY <1>1, <1>2, <1>3, <1>4, <1>5 DEF RegInv

(* A step among services is a step of the directory, or leaves it alone.   *)
LEMMA RegStepsAreSteps ==
  ASSUME RegTypes, [RegNext]_regVars
  PROVE  [Next]_vars
  <1>1. ASSUME NEW q \in Query, NEW p \in Pipe, NEW f \in Form, Deliver(q, p, f) PROVE Next
    <2>1. uri[p] \in Path /\ Receive(q, p, uri[p], f)
      BY <1>1 DEF Deliver, Exists, RegTypes
    <2> QED BY <2>1 DEF Next
  <1>2. ASSUME NEW p \in Pipe, Destruct(p) PROVE Next
    BY <1>2 DEF Destruct, Next
  <1>3. CASE ServerStep
    BY <1>3 DEF ServerStep, Next
  <1>4. CASE \/ \E p \in Pipe, x \in Path : registerURI(p, x)
             \/ \E p \in Pipe : async_sent(p) \/ async_recv(p) \/ async_error(p) \/ Listen(p) \/ Close(p)
             \/ UNCHANGED regVars
    BY <1>4, Zenon DEF registerURI, async_sent, async_recv, async_error, Listen, Close, regVars
  <1> QED BY <1>1, <1>2, <1>3, <1>4 DEF RegNext

(* The types of the services' own variables.                               *)
LEMMA RegTypesStep ==
  ASSUME RegTypes, [RegNext]_regVars
  PROVE  RegTypes'
  <1> USE DEF RegTypes
  <1>1. ASSUME NEW p \in Pipe, NEW x \in Path, registerURI(p, x) PROVE RegTypes'
    BY <1>1 DEF registerURI, Construct, Become
  <1>2. ASSUME NEW p \in Pipe, async_sent(p) \/ async_recv(p) \/ async_error(p) PROVE RegTypes'
    <2>1. /\ UNCHANGED <<uri, listening>> /\ registration[p] # "none"
          /\ \E st \in {"REQUESTED", "ENLISTED", "FAILED"} : Become(p, st)
      BY <1>2, Zenon DEF async_sent, async_recv, async_error, Fail
    <2>2. UNCHANGED except \/ \E why \in {"refused", "unsent", "unheard"} : except' = [except EXCEPT ![p] = why]
      BY <1>2, Zenon DEF async_sent, async_recv, async_error, Fail
    <2>3. except' \in [Pipe -> {"success", "refused", "unsent", "unheard"}]
      BY <2>2
    <2>4. Fail(p, "refused") \/ Fail(p, "unsent") \/ Fail(p, "unheard")
          \/ (UNCHANGED except /\ (Become(p, "REQUESTED") \/ Become(p, "ENLISTED")))
      BY <1>2, Zenon DEF async_sent, async_recv, async_error
    <2>5. \A r \in Pipe : registration'[r] = "FAILED" => except'[r] # "success"
      BY <2>4 DEF Fail, Become
    <2> QED BY <2>1, <2>3, <2>5 DEF Become
  <1>3. ASSUME NEW p \in Pipe, Listen(p) \/ Close(p) PROVE RegTypes'
    BY <1>3 DEF Listen, Close
  <1>4. ASSUME NEW p \in Pipe, Destruct(p) PROVE RegTypes'
    BY <1>4 DEF Destruct, Exists, Become
  <1>5. CASE (\E q \in Query, p \in Pipe, f \in Form : Deliver(q, p, f)) \/ ServerStep
             \/ UNCHANGED regVars
    BY <1>5 DEF Deliver, ServerStep, serviceVars, regVars
  <1> QED BY <1>1, <1>2, <1>3, <1>4, <1>5 DEF RegNext

(* What the directory does to queries and answers: it receives no query,   *)
(* and answers only those it has received.                                 *)
LEMMA DirectoryAnswersKnown ==
  ASSUME DirectoryInv,
         \/ RejectQuery \/ QueueRegistration \/ Management \/ SpuriousWakeup
         \/ ExpireHandlers \/ StopManagement \/ JoinManagement
         \/ \E p \in Pipe : DisconnectUnheard(p) \/ DisconnectUnknown(p) \/ DisconnectRegistered(p)
  PROVE  UNCHANGED query /\ \A q \in Query : ~Known(q) => reply'[q] = reply[q]
  <1> USE DEF replyVars
  <1>1. ASSUME NEW q \in Query, Known(q), NEW status, RespondTo(q, status)
        PROVE  \A r \in Query : ~Known(r) => reply'[r] = reply[r]
    BY <1>1 DEF RespondTo, DirectoryInv, TypeOK
  <1>2. CASE RejectQuery
    <2>1. recv \in Query /\ Known(recv) /\ RespondTo(recv, "BadRequest") /\ UNCHANGED query
      BY <1>2, Zenon DEF RejectQuery, DirectoryInv, TypeOK, Bookkeeping
    <2> QED BY <1>1, <2>1
  <1>3. ASSUME NEW q \in Query, NEW stage \in DialStage,
               MgmtConflict(q) \/ MgmtDialFails(q, stage) \/ MgmtEnlist(q)
        PROVE  UNCHANGED query /\ \A r \in Query : ~Known(r) => reply'[r] = reply[r]
    <2>1. Opening(q) /\ UNCHANGED query
      BY <1>3 DEF MgmtConflict, MgmtDialFails, MgmtEnlist
    <2>2. Known(q)
      BY <2>1, OpeningTakesOne, Zenon
    <2>3. PICK status \in Status : RespondTo(q, status)
      BY <1>3 DEF MgmtConflict, MgmtDialFails, MgmtEnlist, Status
    <2> QED BY <1>1, <2>1, <2>2, <2>3, Zenon
  <1>4. CASE \/ QueueRegistration \/ MgmtAcquire \/ MgmtClose \/ MgmtWait \/ SpuriousWakeup
             \/ ExpireHandlers \/ StopManagement \/ JoinManagement
             \/ \E p \in Pipe : DisconnectUnheard(p) \/ DisconnectUnknown(p) \/ DisconnectRegistered(p)
    BY <1>4, Zenon DEF QueueRegistration, MgmtAcquire, MgmtClose, MgmtWait, SpuriousWakeup,
       ExpireHandlers, StopManagement, JoinManagement, DisconnectUnheard, DisconnectUnknown,
       DisconnectRegistered
  <1>5. "construct" \in DialStage
    BY DEF DialStage
  <1> QED BY <1>2, <1>3, <1>4, <1>5, Zenon DEF Management

(* One query per connection.                                               *)
LEMMA OneQueryStep ==
  ASSUME RegInv, [RegNext]_regVars
  PROVE  OneQueryPerPipe'
  <1>t. TypeOK /\ OneQueryPerPipe /\ DirectoryInv
    BY DEF RegInv, DirectoryInv
  <1>a. ASSUME UNCHANGED query, \A q \in Query : ~Known(q) => reply'[q] = reply[q]
        PROVE  OneQueryPerPipe'
    BY <1>t, <1>a, Zenon DEF OneQueryPerPipe, Known
  <1>1. ASSUME NEW q \in Query, NEW p \in Pipe, NEW f \in Form, Deliver(q, p, f) PROVE OneQueryPerPipe'
    <2>1. /\ UNCHANGED reply /\ ~Known(q)
          /\ query' = [query EXCEPT ![q] = [pipe |-> p, path |-> uri[p], form |-> f]]
          /\ \A r \in Query : query[r].pipe # p
      BY <1>1 DEF Deliver, Receive
    <2>2. \A r \in Query : r # q => query'[r] = query[r]
      BY <1>t, <2>1 DEF TypeOK
    <2>3. query'[q].pipe = p /\ Known(q)'
      <3>1. query'[q] = [pipe |-> p, path |-> uri[p], form |-> f]
        BY <1>t, <2>1 DEF TypeOK
      <3> QED BY <3>1, NoneAssumption DEF Known, NoQuery
    <2> QED BY <1>t, <2>1, <2>2, <2>3 DEF OneQueryPerPipe, Known
  <1>2. CASE ServerStep \/ \E p \in Pipe : Destruct(p)
    BY <1>t, <1>a, <1>2, DirectoryAnswersKnown, Zenon DEF ServerStep, Destruct
  <1>3. CASE \/ \E p \in Pipe, x \in Path : registerURI(p, x)
             \/ \E p \in Pipe : async_sent(p) \/ async_recv(p) \/ async_error(p) \/ Listen(p) \/ Close(p)
             \/ UNCHANGED regVars
    <2>1. UNCHANGED <<query, reply>>
      BY <1>3, Zenon DEF registerURI, async_sent, async_recv, async_error, Listen, Close, regVars, vars
    <2> QED BY <1>a, <2>1
  <1> QED BY <1>1, <1>2, <1>3 DEF RegNext

-----------------------------------------------------------------------------
Followed == HasAsked /\ \A q \in Query : Known(q) => InProgress(q)

(* Steps of a Registration: it goes from one status to the next, as the    *)
(* answer says.                                                            *)
LEMMA StatusFollows ==
  ASSUME RegInv, Followed,
         \/ \E p \in Pipe, x \in Path : registerURI(p, x)
         \/ \E p \in Pipe : async_sent(p) \/ async_recv(p) \/ async_error(p) \/ Listen(p) \/ Close(p)
         \/ UNCHANGED regVars
  PROVE  Followed'
  <1>t. TypeOK /\ RegTypes /\ OneQueryPerPipe
    BY DEF RegInv, DirectoryInv
  <1>0. UNCHANGED <<pipes, query, recv, reply, registrationMap, map, route_open, hasty>>
    BY Zenon DEF registerURI, async_sent, async_recv, async_error, Listen, Close, regVars, serviceVars, vars
  <1>a. ASSUME \A p \in Pipe :
                 /\ registration[p] # "none" => registration'[p] # "none" /\ uri'[p] = uri[p]
                 /\ isRegistered(p)' => isRegistered(p) \/ \E q \in Query : query[q].pipe = p /\ reply[q] = "OK"
                 /\ registration'[p] = "FAILED" =>
                      \/ except'[p] = "unheard"
                      \/ \A q \in Query : query[q].pipe = p => reply[q] \notin {None, "OK"}
                 /\ except'[p] = "refused" => except[p] = "refused" \/ \E q \in Query : query[q].pipe = p
        PROVE  Followed'
    <2>1. HasAsked'
      <3>1. ASSUME NEW p \in Pipe, (registrationMap[p] # None \/ isRegistered(p) \/ except[p] = "refused")'
            PROVE  \E q \in Query : Known(q) /\ query[q].pipe = p
        <4>1. CASE registrationMap[p] # None \/ isRegistered(p) \/ except[p] = "refused"
          BY <4>1, Zenon DEF Followed, HasAsked
        <4>2. CASE \E q \in Query : query[q].pipe = p
          BY <1>t, <4>2, KnownParts, Zenon
        <4>3. UNCHANGED registrationMap
          BY <1>0
        <4>4. CASE isRegistered(p)'
          <5>1. isRegistered(p) \/ \E q \in Query : query[q].pipe = p /\ reply[q] = "OK"
            BY <1>a, <4>4
          <5> QED BY <4>1, <4>2, <5>1, Zenon
        <4>5. CASE except'[p] = "refused"
          <5>1. except[p] = "refused" \/ \E q \in Query : query[q].pipe = p
            BY <1>a, <4>5
          <5> QED BY <4>1, <4>2, <5>1, Zenon
        <4> QED BY <3>1, <4>1, <4>3, <4>4, <4>5, Zenon
      <3> QED BY <1>0, <3>1, Zenon DEF HasAsked, Known
    <2>2. ASSUME NEW q \in Query, Known(q) PROVE InProgress(q)'
      <3>1. query[q].pipe \in Pipe /\ InProgress(q)
        BY <1>t, <2>2, KnownParts DEF Followed
      <3>2. \A r \in Query : query[r].pipe = query[q].pipe => r = q
        BY <1>t, <2>2, <3>1, KnownParts, Zenon DEF OneQueryPerPipe
      <3>p. PICK p \in Pipe : p = query[q].pipe
        BY <3>1
      <3>3. /\ registration'[p] # "none" /\ uri'[p] = uri[p]
            /\ registration'[p] = "ENLISTED" => reply[q] = "OK"
            /\ registration'[p] = "FAILED" => except'[p] = "unheard" \/ reply[q] \notin {None, "OK"}
        <4>1. registration[p] # "none" /\ (isRegistered(p) => reply[q] = "OK")
          BY <3>1, <3>p, Zenon DEF InProgress
        <4>2. registration'[p] # "none" /\ uri'[p] = uri[p]
          BY <1>a, <4>1, Zenon
        <4>3. isRegistered(p)' => reply[q] = "OK"
          <5> HAVE isRegistered(p)'
          <5>1. isRegistered(p) \/ \E r \in Query : query[r].pipe = p /\ reply[r] = "OK"
            BY <1>a
          <5> QED BY <3>2, <3>p, <4>1, <5>1, Zenon
        <4>4. registration'[p] = "FAILED" => except'[p] = "unheard" \/ reply[q] \notin {None, "OK"}
          BY <1>a, <3>p, Zenon
        <4> QED BY <4>2, <4>3, <4>4, Zenon DEF isRegistered
      <3>4. UNCHANGED query
        BY <1>0
      <3> QED BY <1>0, <3>1, <3>3, <3>4, <3>p, Zenon DEF InProgress, Queued, isRegistered
    <2> QED BY <1>0, <2>1, <2>2 DEF Followed, Known
  <1>b. \A p \in Pipe : registration[p] = "FAILED" =>
          \/ except[p] = "unheard"
          \/ \A q \in Query : query[q].pipe = p => reply[q] \notin {None, "OK"}
    <2> SUFFICES ASSUME NEW p \in Pipe, registration[p] = "FAILED", except[p] # "unheard",
                        NEW q \in Query, query[q].pipe = p
                 PROVE  reply[q] \notin {None, "OK"}
      OBVIOUS
    <2>1. InProgress(q)
      BY <1>t, KnownParts, Zenon DEF Followed
    <2> QED BY <2>1, Zenon DEF InProgress
  <1>1. ASSUME NEW p \in Pipe, NEW x \in Path, registerURI(p, x) PROVE Followed'
    <2>1. /\ registration[p] = "none" /\ UNCHANGED except
          /\ \A r \in Pipe : registration'[r] = IF r = p THEN "INITIAL" ELSE registration[r]
          /\ \A r \in Pipe : r # p => uri'[r] = uri[r]
      BY <1>t, <1>1, Zenon DEF registerURI, Construct, Become, RegTypes
    <2> QED BY <1>a, <1>b, <2>1, Zenon DEF isRegistered
  <1>2. ASSUME NEW p \in Pipe, async_sent(p) PROVE Followed'
    <2>1. /\ UNCHANGED <<except, uri>>
          /\ \A r \in Pipe : registration'[r] = IF r = p THEN "REQUESTED" ELSE registration[r]
      BY <1>t, <1>2, Zenon DEF async_sent, Become, RegTypes
    <2> QED BY <1>a, <1>b, <2>1, Zenon DEF isRegistered
  <1>3. ASSUME NEW p \in Pipe, async_recv(p) PROVE Followed'
    <2>1. PICK q \in Query : /\ query[q].pipe = p /\ reply[q] # None
                             /\ IF reply[q] = "OK" THEN Become(p, "ENLISTED") /\ UNCHANGED except
                                                   ELSE Fail(p, "refused")
      BY <1>3, Zenon DEF async_recv
    <2>2. \A r \in Query : query[r].pipe = p => r = q
      BY <1>t, <2>1, KnownParts, Zenon DEF OneQueryPerPipe
    <2>3. /\ UNCHANGED uri
          /\ \A r \in Pipe : registration'[r] =
               IF r = p THEN (IF reply[q] = "OK" THEN "ENLISTED" ELSE "FAILED") ELSE registration[r]
          /\ \A r \in Pipe : r # p => except'[r] = except[r]
      BY <1>t, <1>3, <2>1, Zenon DEF async_recv, Fail, Become, RegTypes
    <2> QED BY <1>a, <1>b, <2>1, <2>2, <2>3, Zenon DEF isRegistered
  <1>4. ASSUME NEW p \in Pipe, async_error(p) PROVE Followed'
    <2>1. /\ UNCHANGED uri
          /\ \A r \in Pipe : registration'[r] = IF r = p THEN "FAILED" ELSE registration[r]
          /\ \A r \in Pipe : r # p => except'[r] = except[r]
          /\ except'[p] = "unheard" \/ (except'[p] = "unsent" /\ \A q \in Query : query[q].pipe # p)
      BY <1>t, <1>4, Zenon DEF async_error, Fail, Become, RegTypes
    <2> QED BY <1>a, <1>b, <2>1, Zenon DEF isRegistered
  <1>5. CASE (\E p \in Pipe : Listen(p) \/ Close(p)) \/ UNCHANGED regVars
    <2>1. UNCHANGED <<registration, except, uri>>
      BY <1>5, Zenon DEF Listen, Close, regVars, serviceVars
    <2> QED BY <1>a, <1>b, <2>1, Zenon DEF isRegistered
  <1> QED BY <1>1, <1>2, <1>3, <1>4, <1>5

(* A query that the step does not concern is followed as before.           *)
LEMMA OthersFollow ==
  ASSUME NEW q, InProgress(q), query'[q] = query[q],
         reply'[q] = reply[q], recv' = q => recv = q, Queued(q)' <=> Queued(q),
         LET p == query[q].pipe
         IN  /\ registrationMap'[p] = registrationMap[p]
             /\ registration'[p] = registration[p] /\ except'[p] = except[p] /\ uri'[p] = uri[p]
             /\ p \in pipes' <=> p \in pipes,
         query[q].path \in hasty => query[q].path \in hasty',
         map'[query[q].path] = q => map[query[q].path] = q,
         query[q].path \notin hasty' => (map[query[q].path] = q => map'[query[q].path] = q)
  PROVE  InProgress(q)'
  BY Zenon DEF InProgress, isRegistered

(* The request arrives, the first of its pipe.                             *)
LEMMA DeliverFollows ==
  ASSUME RegInv, Followed, NEW q \in Query, NEW p \in Pipe, NEW f \in Form, Deliver(q, p, f)
  PROVE  Followed'
  <1>t. TypeOK /\ RegTypes /\ OneQueryPerPipe /\ RoutesNeverDangle /\ Bookkeeping
    BY DEF RegInv, DirectoryInv
  <1>1. /\ UNCHANGED <<pipes, reply, registrationMap, map, route_open, registration, except, uri, hasty>>
        /\ recv = None /\ recv' = q /\ ~Known(q) /\ p \in pipes
        /\ registration[p] # "none" /\ except[p] # "unsent"
        /\ query' = [query EXCEPT ![q] = [pipe |-> p, path |-> uri[p], form |-> f]]
        /\ \A r \in Query : query[r].pipe # p
    BY DEF Deliver, Exists, Receive, serviceVars, tableVars
  <1>2. uri[p] \in Path
    BY <1>t, <1>1 DEF RegTypes
  <1>3. /\ \A r \in Query : r # q => query'[r] = query[r]
        /\ query'[q] = [pipe |-> p, path |-> uri[p], form |-> f]
        /\ query'[q].pipe = p /\ query'[q].path = uri[p]
    BY <1>t, <1>1, Zenon DEF TypeOK
  <1>4. \A r \in Query : Known(r)' <=> Known(r) \/ r = q
    BY <1>3, NoneAssumption DEF Known, NoQuery
  <1>5. HasAsked'
    <2> SUFFICES ASSUME NEW o \in Pipe, (registrationMap[o] # None \/ isRegistered(o) \/ except[o] = "refused")'
                 PROVE  (\E r \in Query : Known(r) /\ query[r].pipe = o)'
      BY Zenon DEF HasAsked
    <2>1. PICK r \in Query : Known(r) /\ query[r].pipe = o
      BY <1>1, Zenon DEF Followed, HasAsked, isRegistered
    <2>2. Known(r)' /\ query'[r].pipe = o
      BY <1>1, <1>3, <1>4, <2>1, Zenon
    <2> QED BY <2>2, Zenon
  <1>6. ASSUME NEW r \in Query, Known(r), r # q PROVE InProgress(r)'
    <2>1. InProgress(r) /\ query'[r] = query[r] /\ recv' # r /\ (Queued(r)' <=> Queued(r))
      BY <1>1, <1>3, <1>6 DEF Followed, Queued
    <2> QED BY <1>1, <2>1, OthersFollow, Zenon
  <1>7. InProgress(q)'
    <2>1. reply'[q] = None
      BY <1>t, <1>1 DEF OneQueryPerPipe
    <2>2. ~Queued(q)'
      BY <1>t, <1>1 DEF Bookkeeping, Queued
    <2>3. registrationMap'[p] = None /\ ~isRegistered(p)'
      BY <1>t, <1>1, KnownParts, Zenon DEF Followed, HasAsked, isRegistered
    <2>4. map'[uri[p]] # q
      BY <1>t, <1>1, <1>2, NoneAssumption, Zenon DEF RoutesNeverDangle, Bookkeeping, Served
    <2>5. registration'[p] # "none" /\ (registration'[p] = "FAILED" => except'[p] = "unheard") /\ uri'[p] = uri[p]
      <3>1. except[p] \in {"success", "refused", "unsent", "unheard"}
        BY <1>t DEF RegTypes
      <3>2. except[p] # "refused"
        BY <1>1, Zenon DEF Followed, HasAsked
      <3> QED BY <1>t, <1>1, <3>1, <3>2, Zenon DEF RegTypes
    <2>6. None # "OK"
      BY StatusAssumption DEF Status
    <2>7. p \in pipes' /\ registrationMap'[p] = None
      BY <1>1, <2>3, Zenon
    <2>8. query'[q].pipe = p /\ query'[q].path = uri[p]
      BY <1>3, Zenon
    <2> HIDE <1>1, <1>3
    <2> QED BY <2>1, <2>2, <2>3, <2>4, <2>5, <2>6, <2>7, <2>8, Zenon DEF InProgress
  <1> QED BY <1>4, <1>5, <1>6, <1>7 DEF Followed

(* The connection of a Registration goes away.  If its query was answered, *)
(* its own Route leaves the table or no Route does; if not, its path       *)
(* becomes hasty.                                                          *)
LEMMA DestructFollows ==
  ASSUME RegInv, Followed, Reachable, NEW p \in Pipe, Destruct(p)
  PROVE  Followed'
  <1>t. TypeOK /\ RegTypes /\ OneQueryPerPipe /\ RoutesNeverDangle
    BY DEF RegInv, DirectoryInv
  <1>1. /\ UNCHANGED <<query, recv, reply, route_open, except, uri>>
        /\ p \in pipes /\ pipes' = pipes \ {p}
        /\ \A r \in Pipe : registration'[r] = IF r = p THEN "gone" ELSE registration[r]
        /\ hasty' = IF Pending(p) = {} THEN hasty ELSE hasty \cup {uri[p]}
    BY <1>t, Zenon DEF Destruct, DisconnectUnheard, DisconnectUnknown, DisconnectRegistered,
       replyVars, Become, RegTypes
  <1>2. /\ \A r \in Pipe : registrationMap'[r] = IF r = p THEN None ELSE registrationMap[r]
        /\ \/ registrationMap[p] = None /\ UNCHANGED map
           \/ registrationMap[p] # None /\ ~Served(registrationMap[p]) /\ UNCHANGED map
           \/ registrationMap[p] # None /\ map' = [map EXCEPT ![registrationMap[p]] = None]
    BY <1>t, Zenon DEF Destruct, DisconnectUnheard, DisconnectUnknown, DisconnectRegistered,
       Unlist, tableVars, TypeOK, Reachable
  <1>m. ASSUME NEW x \in Path, NEW q \in Query, map'[x] = q PROVE map[x] = q
    BY <1>t, <1>2, <1>m, NoneAssumption, Zenon DEF TypeOK
  <1>3. ASSUME NEW q \in Query, query[q].pipe = p, query[q].path \notin hasty'
        PROVE  /\ reply[q] # None /\ query[q].path \notin hasty
               /\ registrationMap[p] # None => registrationMap[p] = query[q].path
               /\ registrationMap[p] # None => map[registrationMap[p]] = q
               /\ registrationMap[p] = None => map[query[q].path] # q
    <2>1. Known(q) /\ InProgress(q)
      BY <1>t, <1>3, KnownParts, Zenon DEF Followed
    <2>2. query[q].path \in Path /\ uri[p] = query[q].path
      BY <1>t, <1>3, <2>1, KnownParts, Zenon DEF InProgress
    <2>3. q \notin Pending(p) /\ query[q].path \notin hasty
      BY <1>1, <1>3, <2>2
    <2>4. reply[q] # None
      BY <1>3, <2>3 DEF Pending
    <2> QED BY <1>1, <1>3, <2>1, <2>2, <2>3, <2>4, NoneAssumption, Zenon DEF InProgress
  <1>4. \A r \in Query : Known(r)' <=> Known(r)
    BY <1>1, Zenon DEF Known
  <1>5. HasAsked'
    BY <1>1, <1>2, <1>4, Zenon DEF Followed, HasAsked, isRegistered
  <1>6. ASSUME NEW q \in Query, Known(q) PROVE InProgress(q)'
    <2>0. InProgress(q) /\ query[q].pipe \in Pipe /\ query[q].path \in Path
      BY <1>t, <1>6, KnownParts DEF Followed
    <2>1. CASE query[q].pipe = p
      <3>1. query[q].path \notin hasty' => map'[query[q].path] # q /\ reply[q] # None
        BY <1>t, <1>2, <1>3, <2>0, <2>1, NoneAssumption, Zenon DEF TypeOK, Served
      <3>2. map'[query[q].path] = q => reply[q] = "OK"
        BY <1>m, <2>0, Zenon DEF InProgress
      <3>3. /\ registrationMap'[p] = None /\ p \notin pipes' /\ registration'[p] = "gone"
            /\ Queued(q)' <=> Queued(q)
        BY <1>1, <1>2, Zenon DEF Queued
      <3> QED BY <1>1, <2>0, <2>1, <3>1, <3>2, <3>3, Zenon DEF InProgress, isRegistered
    <2>2. CASE query[q].pipe # p
      <3>1. ASSUME query[q].path \notin hasty', map[query[q].path] = q
            PROVE  map'[query[q].path] = q
        <4>1. CASE UNCHANGED map
          BY <3>1, <4>1, Zenon
        <4>2. CASE registrationMap[p] # None /\ map' = [map EXCEPT ![registrationMap[p]] = None]
          <5>1. PICK r \in Query : Known(r) /\ query[r].pipe = p
            BY <4>2, Zenon DEF Followed, HasAsked
          <5>2. registrationMap[p] = query[r].path
            BY <4>2, <5>1, Zenon DEF Followed, InProgress
          <5>3. CASE query[r].path \in hasty'
            BY <1>t, <2>0, <3>1, <4>2, <5>2, <5>3, Zenon DEF TypeOK
          <5>4. CASE query[r].path \notin hasty'
            <6>1. map[registrationMap[p]] = r /\ r # q
              BY <1>3, <2>2, <4>2, <5>1, <5>4, Zenon
            <6> QED BY <1>t, <2>0, <3>1, <4>2, <6>1, Zenon DEF TypeOK
          <5> QED BY <5>3, <5>4
        <4> QED BY <1>2, <4>1, <4>2, Zenon
      <3>2. Queued(q)' <=> Queued(q)
        BY <1>1 DEF Queued
      <3>3. query[q].path \in hasty => query[q].path \in hasty'
        BY <1>1
      <3>4. map'[query[q].path] = q => map[query[q].path] = q
        BY <1>m, <2>0
      <3> QED BY <1>1, <1>2, <2>0, <2>2, <3>1, <3>2, <3>3, <3>4, OthersFollow, Zenon
    <2> QED BY <2>1, <2>2
  <1> QED BY <1>4, <1>5, <1>6 DEF Followed

(* A query is refused, in the callback or by the management thread: its    *)
(* pipe is not in the map of registrations any more.                       *)
LEMMA RefusalFollows ==
  ASSUME RegInv, Followed, NEW q \in Query, Known(q), reply[q] = None,
         NEW status \in Status \ {"OK"}, reply' = [reply EXCEPT ![q] = status],
         UNCHANGED <<pipes, query, map, serviceVars>>,
         recv' # q, \A r \in Query : recv' = r => recv = r,
         \A r \in Query : Queued(r)' <=> Queued(r) /\ r # q,
         \A p \in Pipe : registrationMap'[p] = IF p = query[q].pipe THEN None
                                                                    ELSE registrationMap[p]
  PROVE  Followed'
  <1>t. TypeOK /\ RegTypes /\ OneQueryPerPipe
    BY Zenon DEF RegInv, DirectoryInv
  <1>0. UNCHANGED <<registration, except, uri, hasty>>
    BY DEF serviceVars
  <1>1. \A r \in Query : Known(r)' <=> Known(r)
    BY Zenon DEF Known
  <1>2. HasAsked'
    BY <1>0, <1>1, Zenon DEF Followed, HasAsked, isRegistered
  <1>3. ASSUME NEW r \in Query, Known(r) PROVE InProgress(r)'
    <2>1. InProgress(r) /\ InProgress(q) /\ query[r].pipe \in Pipe /\ query[q].pipe \in Pipe
      BY <1>t, <1>3, KnownParts, Zenon DEF Followed
    <2>2. CASE r = q
      <3>1. /\ reply'[q] = status /\ status \notin {None, "OK"}
            /\ registrationMap'[query[q].pipe] = None
        BY <1>t, <2>1, StatusAssumption, Zenon DEF TypeOK
      <3>2. map[query[q].path] # q /\ ~isRegistered(query[q].pipe) /\ ~Queued(q)'
        BY <2>1, StatusAssumption, Zenon DEF InProgress, Status
      <3>3. UNCHANGED <<query[q], map[query[q].path], registration[query[q].pipe], uri[query[q].pipe]>>
        BY <1>0
      <3> QED BY <1>0, <2>1, <2>2, <3>1, <3>2, <3>3, Zenon DEF InProgress, isRegistered
    <2>3. CASE r # q
      <3>1. query[r].pipe # query[q].pipe /\ reply'[r] = reply[r]
        BY <1>t, <1>3, <2>3, Zenon DEF OneQueryPerPipe, TypeOK
      <3> QED BY <1>0, <2>1, <2>3, <3>1, OthersFollow, Zenon
    <2> QED BY <2>2, <2>3, Zenon
  <1> QED BY <1>1, <1>2, <1>3, Zenon DEF Followed

(* The early returns of async_recv.                                        *)
LEMMA RejectFollows ==
  ASSUME RegInv, Followed, Reachable, RejectQuery, UNCHANGED serviceVars
  PROVE  Followed'
  <1>t. DirectoryInv /\ TypeOK /\ AnsweredOnce /\ Bookkeeping
    BY DEF RegInv, DirectoryInv
  <1>1. /\ recv \in Query /\ Known(recv) /\ InProgress(recv) /\ ~Queued(recv)
        /\ recv \in unresponded
    BY <1>t, Zenon DEF RejectQuery, TypeOK, Bookkeeping, Followed, AnsweredOnce, Reachable
  <1>2. reply' = [reply EXCEPT ![recv] = "BadRequest"]
    BY <1>1, Zenon DEF RejectQuery, RespondTo, Reachable
  <1>3. /\ UNCHANGED <<pipes, query, map, registrationMap, route_open, serviceVars>>
        /\ recv' = None
    BY DEF RejectQuery, tableVars
  <1>4. reply[recv] = None /\ registrationMap[query[recv].pipe] = None
    BY <1>1, Zenon DEF InProgress
  <1>5. recv' # recv /\ \A r \in Query : recv' = r => recv = r
    BY <1>1, <1>3, NoneAssumption
  <1>6. \A r \in Query : Queued(r)' <=> Queued(r) /\ r # recv
    BY <1>1, <1>3 DEF Queued
  <1>7. \A p \in Pipe : registrationMap'[p] = IF p = query[recv].pipe THEN None ELSE registrationMap[p]
    BY <1>3, <1>4, Zenon
  <1>8. "BadRequest" \in Status \ {"OK"}
    BY DEF Status
  <1> QED BY <1>1, <1>2, <1>3, <1>4, <1>5, <1>6, <1>7, <1>8, RefusalFollows, Zenon

(* The critical section of async_recv: a pipe that asks for the first time *)
(* has no entry, so emplace files the path that it asks for.               *)
LEMMA QueueFollows ==
  ASSUME RegInv, Followed, QueueRegistration, UNCHANGED serviceVars
  PROVE  Followed'
  <1>t. DirectoryInv /\ TypeOK /\ Bookkeeping /\ OneQueryPerPipe
    BY DEF RegInv, DirectoryInv
  <1>1. recv \in Query /\ Known(recv) /\ InProgress(recv)
    BY <1>t, Zenon DEF QueueRegistration, TypeOK, Bookkeeping, Followed
  <1>2. /\ query[recv].pipe \in Pipe /\ query[recv].path \in Path
        /\ reply[recv] = None /\ registrationMap[query[recv].pipe] = None
    BY <1>t, <1>1, KnownParts, Zenon DEF InProgress
  <1>3. /\ UNCHANGED <<pipes, query, map, reply, registration, except, uri, hasty>>
        /\ recv' = None /\ route_open' = Append(route_open, recv)
    BY DEF QueueRegistration, serviceVars, replyVars
  <1>4. \A p \in Pipe : registrationMap'[p] = IF p = query[recv].pipe THEN query[recv].path
                                                                      ELSE registrationMap[p]
    BY <1>t, <1>2, Zenon DEF QueueRegistration, TypeOK
  <1>5. \A r \in Query : Queued(r)' <=> Queued(r) \/ r = recv
    <2>1. /\ Len(route_open) \in Nat /\ Len(route_open') = Len(route_open) + 1
          /\ \A i \in 1 .. Len(route_open) : route_open'[i] = route_open[i]
          /\ route_open'[Len(route_open) + 1] = recv
          /\ \A i \in 1 .. Len(route_open') : i = Len(route_open) + 1 \/ i \in 1 .. Len(route_open)
      <3>1. route_open \in Seq(Query)
        BY <1>t DEF TypeOK
      <3> QED BY <1>1, <1>3, <3>1, AppendProperties
    <2>2. ASSUME NEW r \in Query, Queued(r)' PROVE Queued(r) \/ r = recv
      BY <2>1, <2>2 DEF Queued
    <2>3. ASSUME NEW r \in Query, Queued(r) \/ r = recv PROVE Queued(r)'
      <3>1. CASE r = recv
        <4>1. Len(route_open) + 1 \in 1 .. Len(route_open')
          BY <2>1
        <4> QED BY <2>1, <3>1, <4>1 DEF Queued
      <3>2. CASE Queued(r)
        <4>1. PICK i \in 1 .. Len(route_open) : route_open[i] = r
          BY <3>2 DEF Queued
        <4>2. i \in 1 .. Len(route_open')
          BY <2>1
        <4> QED BY <2>1, <4>1, <4>2 DEF Queued
      <3> QED BY <2>3, <3>1, <3>2
    <2> QED BY <2>2, <2>3
  <1>6. \A r \in Query : Known(r)' <=> Known(r)
    BY <1>3 DEF Known
  <1>7. HasAsked'
    BY <1>1, <1>3, <1>4, <1>6, Zenon DEF Followed, HasAsked, isRegistered
  <1>8. ASSUME NEW r \in Query, Known(r) PROVE InProgress(r)'
    <2>1. InProgress(r) /\ query[r].pipe \in Pipe
      BY <1>t, <1>8, KnownParts DEF Followed
    <2>2. CASE r = recv
      <3>1. Queued(r)' /\ recv' # r /\ registrationMap'[query[r].pipe] = query[r].path
        BY <1>1, <1>2, <1>3, <1>4, <1>5, <2>2, NoneAssumption, Zenon
      <3> QED BY <1>2, <1>3, <2>1, <2>2, <3>1, StatusAssumption, Zenon
              DEF InProgress, isRegistered, Status
    <2>3. CASE r # recv
      <3>1. /\ query[r].pipe # query[recv].pipe /\ (Queued(r)' <=> Queued(r))
            /\ recv' = r => recv = r
        BY <1>t, <1>1, <1>3, <1>5, <1>8, <2>3, NoneAssumption, Zenon DEF OneQueryPerPipe
      <3> QED BY <1>3, <1>4, <2>1, <3>1, OthersFollow, Zenon
    <2> QED BY <2>2, <2>3
  <1> QED BY <1>6, <1>7, <1>8 DEF Followed

(* Taking the head of route_open takes that query and no other.            *)
LEMMA OpeningTakesOnlyOne ==
  ASSUME DirectoryInv, NEW q \in Query, Opening(q)
  PROVE  Queued(q) /\ \A r \in Query : Queued(r)' <=> Queued(r) /\ r # q
  <1>1. \A r \in Query : Queued(r)' => Queued(r) /\ r # q
    BY OpeningTakesOne, Zenon
  <1>2. route_open \in Seq(Query) /\ route_open # <<>>
    BY DEF DirectoryInv, TypeOK, Opening
  <1>3. /\ q = route_open[1] /\ 1 \in 1 .. Len(route_open) /\ Len(route_open) \in Nat
        /\ Len(route_open') = Len(route_open) - 1
        /\ \A i \in 1 .. Len(route_open') : route_open'[i] = route_open[i + 1]
    BY <1>2, HeadTailProperties DEF Opening
  <1>4. ASSUME NEW r \in Query, Queued(r), r # q PROVE Queued(r)'
    <2>1. PICK i \in 1 .. Len(route_open) : route_open[i] = r
      BY <1>4 DEF Queued
    <2>2. i - 1 \in 1 .. Len(route_open') /\ (i - 1) + 1 = i
      BY <1>3, <1>4, <2>1
    <2>3. route_open'[i - 1] = r
      BY <1>3, <2>1, <2>2, Zenon
    <2> QED BY <2>2, <2>3 DEF Queued
  <1>5. Queued(q)
    BY <1>3, Zenon DEF Queued
  <1> QED BY <1>1, <1>4, <1>5

(* The management thread refuses the query at the head of route_open.      *)
LEMMA TurnedAwayFollows ==
  ASSUME RegInv, Followed, Reachable, NEW q \in Query, UNCHANGED serviceVars,
         MgmtConflict(q) \/ \E stage \in DialStage : MgmtDialFails(q, stage)
  PROVE  Followed'
  <1>t. DirectoryInv /\ TypeOK
    BY DEF RegInv, DirectoryInv
  <1>0. /\ Opening(q) /\ Unregister(query[q].pipe)
        /\ UNCHANGED <<pipes, query, recv, map, serviceVars>>
        /\ RespondTo(q, "Conflict") \/ RespondTo(q, "ServiceUnavailable")
    BY DEF MgmtConflict, MgmtDialFails
  <1>1. Known(q) /\ q \in unresponded /\ q # recv /\ InProgress(q)
    BY <1>t, <1>0, OpeningTakesOne, Zenon DEF Reachable, Followed
  <1>2. Queued(q) /\ \A r \in Query : Queued(r)' <=> Queued(r) /\ r # q
    BY <1>t, <1>0, OpeningTakesOnlyOne
  <1>3. reply[q] = None /\ query[q].pipe \in Pipe
    BY <1>t, <1>1, <1>2, KnownParts, Zenon DEF InProgress
  <1>4. PICK status \in {"Conflict", "ServiceUnavailable"} : RespondTo(q, status)
    BY <1>0
  <1>5. reply' = [reply EXCEPT ![q] = status] /\ status \in Status \ {"OK"}
    BY <1>1, <1>4 DEF RespondTo, Reachable, Status
  <1>6. \A p \in Pipe : registrationMap'[p] = IF p = query[q].pipe THEN None ELSE registrationMap[p]
    BY <1>t, <1>0, Zenon DEF Unregister, TypeOK
  <1>7. recv' # q /\ \A r \in Query : recv' = r => recv = r
    BY <1>0, <1>1
  <1> QED BY <1>0, <1>1, <1>2, <1>3, <1>5, <1>6, <1>7, RefusalFollows, Zenon

(* The management thread enlists the query at the head of route_open.      *)
LEMMA EnlistFollows ==
  ASSUME RegInv, Followed, Reachable, NEW q \in Query, MgmtEnlist(q), UNCHANGED serviceVars
  PROVE  Followed'
  <1>t. DirectoryInv /\ TypeOK /\ OneQueryPerPipe
    BY DEF RegInv, DirectoryInv
  <1>0. /\ Opening(q) /\ ~Served(query[q].path) /\ RespondTo(q, "OK")
        /\ map' = [map EXCEPT ![query[q].path] = q]
        /\ UNCHANGED <<pipes, query, recv, registrationMap, registration, except, uri, hasty>>
    BY DEF MgmtEnlist, serviceVars
  <1>1. Known(q) /\ q \in unresponded /\ q # recv /\ InProgress(q)
    BY <1>t, <1>0, OpeningTakesOne, Zenon DEF Reachable, Followed
  <1>2. Queued(q) /\ \A r \in Query : Queued(r)' <=> Queued(r) /\ r # q
    BY <1>t, <1>0, OpeningTakesOnlyOne
  <1>3. /\ query[q].pipe \in Pipe /\ query[q].path \in Path
        /\ reply[q] = None
        /\ query[q].path \in hasty \/ query[q].pipe \in pipes
    BY <1>t, <1>1, <1>2, KnownParts, Zenon DEF InProgress
  <1>4. \A r \in Query : reply'[r] = IF r = q THEN "OK" ELSE reply[r]
    BY <1>t, <1>0, <1>1, Zenon DEF RespondTo, Reachable, TypeOK
  <1>5. \A x \in Path : map'[x] = IF x = query[q].path THEN q ELSE map[x]
    BY <1>t, <1>0, Zenon DEF TypeOK
  <1>6. \A r \in Query : Known(r)' <=> Known(r)
    BY <1>0 DEF Known
  <1>7. HasAsked'
    BY <1>0, <1>6, Zenon DEF Followed, HasAsked, isRegistered
  <1>8. ASSUME NEW r \in Query, Known(r) PROVE InProgress(r)'
    <2>1. InProgress(r) /\ query[r].pipe \in Pipe /\ query[r].path \in Path
      BY <1>t, <1>8, KnownParts DEF Followed
    <2>2. CASE r = q
      <3>1. /\ reply'[q] = "OK" /\ map'[query[q].path] = q /\ ~Queued(q)' /\ recv' # q
            /\ registration'[query[q].pipe] = "FAILED" => except'[query[q].pipe] = "unheard"
        BY <1>0, <1>1, <1>2, <1>3, <1>4, <1>5, Zenon DEF InProgress
      <3> QED BY <1>0, <1>2, <1>3, <2>1, <2>2, <3>1, StatusAssumption, Zenon DEF InProgress, Status
    <2>3. CASE r # q
      <3>1. map'[query[r].path] = r <=> map[query[r].path] = r
        BY <1>0, <1>5, <2>1, <2>3, NoneAssumption, Zenon DEF Served
      <3> QED BY <1>0, <1>2, <1>4, <2>1, <2>3, <3>1, OthersFollow, Zenon
    <2> QED BY <2>2, <2>3
  <1> QED BY <1>6, <1>7, <1>8 DEF Followed

(* The other steps of the directory, while the handlers live.              *)
LEMMA QuietStepsFollow ==
  ASSUME RegInv, Followed, Reachable', UNCHANGED serviceVars,
         \/ MgmtAcquire \/ MgmtClose \/ MgmtWait \/ SpuriousWakeup
         \/ ExpireHandlers \/ StopManagement \/ JoinManagement
  PROVE  Followed'
  <1>1. UNCHANGED <<pipes, query, recv, reply, registrationMap, map, route_open, registration, except, uri, hasty>>
    BY Zenon DEF MgmtAcquire, MgmtClose, MgmtWait, SpuriousWakeup, ExpireHandlers, StopManagement,
       JoinManagement, Reachable, replyVars, tableVars, serviceVars
  <1>2. HasAsked'
    BY <1>1, Zenon DEF Followed, HasAsked, Known, isRegistered
  <1>3. ASSUME NEW q \in Query, Known(q) PROVE InProgress(q)'
    <2>1. InProgress(q) /\ (Queued(q)' <=> Queued(q))
      BY <1>1, <1>3 DEF Followed, Queued
    <2> QED BY <1>1, <2>1, OthersFollow, Zenon
  <1> QED BY <1>1, <1>2, <1>3 DEF Followed, Known

(* Whoever heard the directory after the step has heard it before.         *)
LEMMA HeardBefore ==
  ASSUME [RegNext]_regVars, RegTypes, Reachable' PROVE Reachable
  <1>1. [Next]_vars
    BY RegStepsAreSteps
  <1> USE DEF Reachable
  <1>2. CASE UNCHANGED vars
    BY <1>2 DEF vars
  <1>3. CASE Next
    BY <1>3, Zenon DEF Next, Management, Receive, RejectQuery, QueueRegistration, DisconnectUnheard,
       DisconnectUnknown, DisconnectRegistered, MgmtAcquire, MgmtClose, MgmtConflict,
       MgmtDialFails, MgmtEnlist, Opening, MgmtWait, SpuriousWakeup, ExpireHandlers,
       StopManagement, JoinManagement
  <1> QED BY <1>1, <1>2, <1>3

(* Every step keeps the invariant.                                         *)
LEMMA NextReg == RegInv /\ [RegNext]_regVars => RegInv'
  <1> SUFFICES ASSUME RegInv, [RegNext]_regVars PROVE RegInv'
    OBVIOUS
  <1>1. DirectoryInv'
    BY RegStepsAreSteps, NextDirectory DEF RegInv
  <1>2. RegTypes' /\ OneQueryPerPipe'
    BY RegTypesStep, OneQueryStep DEF RegInv
  <1>3. ASSUME Reachable' PROVE Followed'
    <2>0. Reachable /\ Followed
      BY <1>3, HeardBefore DEF RegInv, Followed
    <2>1. CASE ServerStep
      <3>1. CASE MgmtAcquire \/ MgmtClose \/ MgmtWait \/ SpuriousWakeup
                 \/ ExpireHandlers \/ StopManagement \/ JoinManagement
        BY <1>3, <2>0, <2>1, <3>1, QuietStepsFollow DEF ServerStep
      <3>2. CASE RejectQuery
        BY <2>0, <2>1, <3>2, RejectFollows DEF ServerStep
      <3>3. CASE QueueRegistration
        BY <2>0, <2>1, <3>3, QueueFollows DEF ServerStep
      <3>4. ASSUME NEW q \in Query, MgmtEnlist(q) PROVE Followed'
        BY <2>0, <2>1, <3>4, EnlistFollows DEF ServerStep
      <3>5. ASSUME NEW q \in Query,
                   MgmtConflict(q) \/ \E stage \in DialStage : MgmtDialFails(q, stage)
            PROVE  Followed'
        BY <2>0, <2>1, <3>5, TurnedAwayFollows DEF ServerStep
      <3> QED BY <2>1, <3>1, <3>2, <3>3, <3>4, <3>5 DEF ServerStep, Management
    <2>2. ASSUME NEW q \in Query, NEW p \in Pipe, NEW f \in Form, Deliver(q, p, f) PROVE Followed'
      BY <2>0, <2>2, DeliverFollows
    <2>3. ASSUME NEW p \in Pipe, Destruct(p) PROVE Followed'
      BY <2>0, <2>3, DestructFollows
    <2>4. CASE \/ \E p \in Pipe, x \in Path : registerURI(p, x)
               \/ \E p \in Pipe : async_sent(p) \/ async_recv(p) \/ async_error(p) \/ Listen(p) \/ Close(p)
               \/ UNCHANGED regVars
      BY <2>0, <2>4, StatusFollows
    <2> QED BY <2>1, <2>2, <2>3, <2>4 DEF RegNext
  <1> QED BY <1>1, <1>2, <1>3 DEF RegInv, Followed

(* Services that register themselves, one request to a Registration, keep  *)
(* the directory's own consistency and the progress of every query.        *)
THEOREM RegistrationInvariant == RegSpec => []RegInv
  <1>1. RegInit => RegInv
    BY InitReg
  <1>2. RegInv /\ [RegNext]_regVars => RegInv'
    BY NextReg
  <1> QED BY <1>1, <1>2, PTL DEF RegSpec

(* The routing table holds exactly the services that were told "OK" and    *)
(* are still connected, when services register the way service.cpp does,   *)
(* at every path where none left with its request unanswered.              *)
THEOREM DirectoryMatches == RegSpec => []DirectoryMatchesUnlessHasty
  <1>1. RegInv => DirectoryMatchesUnlessHasty
    BY Zenon DEF RegInv, InProgress, DirectoryMatchesUnlessHasty
  <1> QED BY <1>1, RegistrationInvariant, PTL

(* A Registration that reports ENLISTED is served by a Route of its own,   *)
(* unless another left its path with its request unanswered; one that      *)
(* reports FAILED is served by none, unless it failed to hear the answer.  *)
THEOREM RegistrationsTruthful == RegSpec => []RegistrationTruthful
  <1>1. ASSUME RegInv PROVE RegistrationTruthful
    <2> SUFFICES ASSUME Reachable, NEW p \in pipes
                 PROVE  /\ isRegistered(p) /\ uri[p] \notin hasty => Owns(p)
                        /\ registration[p] = "FAILED" /\ except[p] # "unheard" => ~Owns(p)
      BY DEF RegistrationTruthful
    <2>t. TypeOK /\ OneRoutePerPath /\ p \in Pipe /\ HasAsked
          /\ \A q \in Query : Known(q) => InProgress(q)
      BY <1>1, Zenon DEF RegInv, DirectoryInv, TypeOK
    <2>1. ASSUME isRegistered(p), uri[p] \notin hasty PROVE Owns(p)
      <3>1. PICK q \in Query : Known(q) /\ query[q].pipe = p
        BY <2>t, <2>1 DEF HasAsked
      <3>2. map[query[q].path] = q /\ query[q].path \in Path
        BY <2>t, <2>1, <3>1, KnownParts, Zenon DEF InProgress
      <3> QED BY <3>1, <3>2, NoneAssumption, Zenon DEF Owns, Served
    <2>2. ASSUME registration[p] = "FAILED", except[p] # "unheard",
                 NEW x \in Path, Served(x), query[map[x]].pipe = p
          PROVE  FALSE
      <3>1. map[x] \in Query /\ query[map[x]].path = x
        BY <2>t, <2>2, Zenon DEF TypeOK, OneRoutePerPath, Served
      <3>2. InProgress(map[x])
        BY <2>t, <2>2, <3>1, KnownParts, Zenon
      <3> QED BY <2>2, <3>1, <3>2, Zenon DEF InProgress
    <2> QED BY <2>1, <2>2, Zenon DEF Owns
  <1> QED BY <1>1, RegistrationInvariant, PTL
=============================================================================
