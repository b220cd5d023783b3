---------------------------- MODULE ServiceRegistry ----------------------------
(***************************************************************************)
(* Server::Services: the directory of services kept by a Server            *)
(* (src/src/telling/server_services.cpp, src/include/telling/server.h).    *)
(*                                                                         *)
(* Services dial the registration socket and send a registration query.    *)
(* Three kinds of thread touch the directory, all under Services::mtx:     *)
(*   - the receive callback of register_reply, one query at a time;        *)
(*   - NNG's pipe callback, when a registrant's connection goes away;      *)
(*   - the management thread, which holds mtx except inside cond.wait.     *)
(* The destructor retires the handlers, stops the thread and joins it.     *)
(*                                                                         *)
(* A critical section is one step, so "mtx is free" is "the management     *)
(* thread is not between two of its steps" (MtxFree).  A Route object is   *)
(* named after the query that created it: a query creates at most one.     *)
(***************************************************************************)
EXTENDS Naturals, Sequences

CONSTANTS
  Pipe,    \* connections to the registration socket; NNG never reuses an id
  Path,    \* URI prefixes a service may ask for
  Query,   \* query ids (NNG contexts); the set bounds how many queries arrive
  None     \* no query, no path, no reply

ASSUME NoneAssumption == None \notin Pipe \cup Path \cup Query

VARIABLES
  pipes,           \* pipes that are connected
  query,           \* what each received query said: pipe, path and form
  recv,            \* the query the receive callback is handling, or None
  unresponded,     \* Reply::unresponded of register_reply
  reply,           \* status handed to the transport for each query, or None
  registrationMap, \* pipe -> path it registered, or None
  map,             \* path -> Route serving it, or None
  route_open,      \* Management::route_open
  route_close,     \* Management::route_close
  routes,          \* Route objects allocated and not deleted
  connectors,      \* keys of the dialers of server.publish.subscribe
  created,         \* "Created" reports published for each path
  gone,            \* "Gone" reports published for each path
  mgmt,            \* where the management thread is
  run,             \* Management::run
  life,            \* progress of ~Services
  fault            \* the process has been killed by undefined behaviour or
                   \* by an exception nobody catches

vars == <<pipes, query, recv, unresponded, reply, registrationMap, map,
          route_open, route_close, routes, connectors, created, gone,
          mgmt, run, life, fault>>

replyVars == <<unresponded, reply>>
tableVars == <<registrationMap, map>>
routeVars == <<routes, connectors, created, gone>>

(***************************************************************************)
(* Forms of a registration query, by what async_recv does with it: it may  *)
(* fail to parse, hold more than two body lines, or name another URI.      *)
(***************************************************************************)
Form     == {"ok", "foreign", "garbled", "extra"}
Status   == {"OK", "BadRequest", "Conflict", "ServiceUnavailable"}
NoQuery  == [pipe |-> None, path |-> None, form |-> None]
Received == [pipe : Pipe, path : Path, form : Form]

ASSUME StatusAssumption == None \notin Status

Known(q)  == query[q] # NoQuery
MtxFree   == mgmt # "working"
Reachable == life = "alive" /\ ~fault

(***************************************************************************)
(* management.cond.notify_one(): only a thread already in cond.wait hears. *)
(***************************************************************************)
Notify_Dropped == UNCHANGED mgmt

Notify == mgmt' = IF mgmt = "waiting" THEN "woken" ELSE mgmt

(***************************************************************************)
(* Reply::respondTo.  An expired handler makes it return at once.  An      *)
(* unknown query id makes it throw, and neither caller catches that.       *)
(***************************************************************************)
RespondTo(q, status) ==
  IF life # "alive" THEN UNCHANGED <<unresponded, reply, fault>>
  ELSE IF q \notin unresponded
  THEN fault' = TRUE /\ UNCHANGED replyVars
  ELSE /\ unresponded' = unresponded \ {q}
       /\ reply' = [reply EXCEPT ![q] = status]
       /\ UNCHANGED fault

(***************************************************************************)
(* Steps that several handlers share: is the path in the routing table;    *)
(* registrationMap.erase(pipe); move a path's Route from the table to the  *)
(* closing queue.                                                          *)
(***************************************************************************)
Served(x) == map[x] # None

Unregister_Skipped(p) == UNCHANGED registrationMap

Unregister(p) == registrationMap' = [registrationMap EXCEPT ![p] = None]

Unlist_KeepsEntry(x) ==
  /\ route_close' = Append(route_close, map[x])
  /\ UNCHANGED map
  /\ Notify

Unlist(x) ==
  /\ route_close' = Append(route_close, map[x])
  /\ map' = [map EXCEPT ![x] = None]
  /\ Notify

(***************************************************************************)
(* Keys of Subscribe's connectors: dialing a host files the dialer under   *)
(* the pattern's full address, HostAddress::Base::operator[].              *)
(***************************************************************************)
HostKey(x) == <<"inproc", x, "pub_sub">>
PathKey(x) == <<x>>

-----------------------------------------------------------------------------
Init ==
  /\ pipes = Pipe
  /\ query = [q \in Query |-> NoQuery]
  /\ recv = None
  /\ unresponded = {}
  /\ reply = [q \in Query |-> None]
  /\ registrationMap = [p \in Pipe |-> None]
  /\ map = [x \in Path |-> None]
  /\ route_open = <<>>
  /\ route_close = <<>>
  /\ routes = {}
  /\ connectors = {}
  /\ created = [x \in Path |-> 0]
  /\ gone = [x \in Path |-> 0]
  /\ mgmt = "starting"
  /\ run = TRUE
  /\ life = "alive"
  /\ fault = FALSE

(***************************************************************************)
(* Reply::_aioReceived takes a query from a connected pipe and files its   *)
(* context before it calls the handler.  The next receive is started only  *)
(* when the handler has returned.                                          *)
(***************************************************************************)
Receive(q, p, x, f) ==
  /\ Reachable
  /\ recv = None
  /\ ~Known(q)
  /\ p \in pipes
  /\ query' = [query EXCEPT ![q] = [pipe |-> p, path |-> x, form |-> f]]
  /\ unresponded' = unresponded \cup {q}
  /\ recv' = q
  /\ UNCHANGED <<pipes, reply, tableVars, route_open, route_close, routeVars,
                 mgmt, run, life, fault>>

(***************************************************************************)
(* Services::async_recv, the early returns: the query does not parse, or   *)
(* its body has a third line.  The reply goes out through the tag.         *)
(***************************************************************************)
RejectQuery ==
  /\ ~fault
  /\ recv # None
  /\ query[recv].form \in {"garbled", "extra"}
  /\ RespondTo(recv, "BadRequest")
  /\ recv' = None
  /\ UNCHANGED <<pipes, query, tableVars, route_open, route_close, routeVars,
                 mgmt, run, life>>

(***************************************************************************)
(* Services::async_recv, the critical section.  A foreign URI is logged    *)
(* and nothing more.  unordered_map::emplace keeps an entry that exists.   *)
(***************************************************************************)
QueueRegistration ==
  /\ ~fault
  /\ recv # None
  /\ query[recv].form \in {"ok", "foreign"}
  /\ MtxFree
  /\ LET p == query[recv].pipe
     IN  registrationMap' =
           [registrationMap EXCEPT ![p] = IF @ = None THEN query[recv].path ELSE @]
  /\ route_open' = Append(route_open, recv)
  /\ Notify
  /\ recv' = None
  /\ UNCHANGED <<pipes, query, replyVars, map, route_close, routeVars,
                 run, life, fault>>

-----------------------------------------------------------------------------
(***************************************************************************)
(* Services::pipeEvent for rem_post.  An expired handler is not called.    *)
(***************************************************************************)
DisconnectUnheard(p) ==
  /\ ~fault /\ life # "alive"
  /\ p \in pipes
  /\ pipes' = pipes \ {p}
  /\ UNCHANGED <<query, recv, replyVars, tableVars, route_open, route_close,
                 routeVars, mgmt, run, life, fault>>

(* The pipe has no entry: registrationMap.erase(end()) is undefined; the   *)
(* process dies, or the call happens to leave the directory alone.         *)
DisconnectUnknown(p) ==
  /\ Reachable /\ MtxFree
  /\ p \in pipes
  /\ registrationMap[p] = None
  /\ pipes' = pipes \ {p}
  /\ fault' \in BOOLEAN
  /\ UNCHANGED <<query, recv, replyVars, tableVars, route_open, route_close,
                 routeVars, mgmt, run, life>>

(* The pipe has an entry: whatever Route serves that path is unlisted.     *)
DisconnectRegistered(p) ==
  /\ Reachable /\ MtxFree
  /\ p \in pipes
  /\ registrationMap[p] # None
  /\ pipes' = pipes \ {p}
  /\ registrationMap' = [registrationMap EXCEPT ![p] = None]
  /\ IF Served(registrationMap[p])
     THEN Unlist(registrationMap[p])
     ELSE UNCHANGED <<route_close, map, mgmt>>
  /\ UNCHANGED <<query, recv, replyVars, route_open, routeVars, run, life, fault>>

-----------------------------------------------------------------------------
(***************************************************************************)
(* Services::run_management_thread.  The thread takes mtx when it starts   *)
(* and when it leaves cond.wait, and then looks at management.run.         *)
(***************************************************************************)
MgmtAcquire ==
  /\ ~fault
  /\ mgmt \in {"starting", "woken"}
  /\ mgmt' = IF run THEN "working" ELSE "done"
  /\ UNCHANGED <<pipes, query, recv, replyVars, tableVars, route_open,
                 route_close, routeVars, run, life, fault>>

(* One turn of the first inner loop. *)
MgmtClose ==
  /\ ~fault
  /\ mgmt = "working"
  /\ route_close # <<>>
  /\ LET r == Head(route_close)
         x == query[r].path
     IN  /\ connectors' = connectors \ {PathKey(x)}
         /\ gone' = [gone EXCEPT ![x] = @ + 1]
         /\ routes' = routes \ {r}
  /\ route_close' = Tail(route_close)
  /\ UNCHANGED <<pipes, query, recv, replyVars, tableVars, route_open,
                 created, mgmt, run, life, fault>>

(* The second inner loop starts once the first has emptied its queue.      *)
Opening_WithoutPop(q) ==
  /\ ~fault
  /\ mgmt = "working"
  /\ route_close = <<>>
  /\ route_open # <<>>
  /\ q = Head(route_open)
  /\ UNCHANGED route_open

Opening(q) ==
  /\ ~fault
  /\ mgmt = "working"
  /\ route_close = <<>>
  /\ route_open # <<>>
  /\ q = Head(route_open)
  /\ route_open' = Tail(route_open)

(* The path is served already.                                             *)
MgmtConflict_NoReply(q) ==
  /\ Opening(q)
  /\ Served(query[q].path)
  /\ Unregister(query[q].pipe)
  /\ UNCHANGED <<pipes, query, recv, replyVars, map, route_close, routeVars,
                 mgmt, run, life, fault>>

MgmtConflict(q) ==
  /\ Opening(q)
  /\ Served(query[q].path)
  /\ Unregister(query[q].pipe)
  /\ RespondTo(q, "Conflict")
  /\ UNCHANGED <<pipes, query, recv, map, route_close, routeVars,
                 mgmt, run, life>>

(* Constructing the Route, dialing its publisher or dialing the Route      *)
(* throws.  map.erase drops the pointer and nobody deletes the Route; a    *)
(* dialer that was started stays.                                          *)
MgmtDialFails(q, stage) ==
  /\ Opening(q)
  /\ ~Served(query[q].path)
  /\ routes' = IF stage = "construct" THEN routes ELSE routes \cup {q}
  /\ connectors' = IF stage = "route" THEN connectors \cup {HostKey(query[q].path)}
                                      ELSE connectors
  /\ Unregister(query[q].pipe)
  /\ RespondTo(q, "ServiceUnavailable")
  /\ UNCHANGED <<pipes, query, recv, map, route_close, created, gone,
                 mgmt, run, life>>

MgmtEnlist_Overwrites(q) ==
  /\ Opening(q)
  /\ map' = [map EXCEPT ![query[q].path] = q]
  /\ routes' = routes \cup {q}
  /\ connectors' = connectors \cup {HostKey(query[q].path)}
  /\ RespondTo(q, "OK")
  /\ created' = [created EXCEPT ![query[q].path] = @ + 1]
  /\ UNCHANGED <<pipes, query, recv, registrationMap, route_close, gone,
                 mgmt, run, life>>

MgmtEnlist(q) ==
  /\ Opening(q)
  /\ ~Served(query[q].path)
  /\ map' = [map EXCEPT ![query[q].path] = q]
  /\ routes' = routes \cup {q}
  /\ connectors' = connectors \cup {HostKey(query[q].path)}
  /\ RespondTo(q, "OK")
  /\ created' = [created EXCEPT ![query[q].path] = @ + 1]
  /\ UNCHANGED <<pipes, query, recv, registrationMap, route_close, gone,
                 mgmt, run, life>>

MgmtWait ==
  /\ ~fault
  /\ mgmt = "working"
  /\ route_close = <<>> /\ route_open = <<>>
  /\ mgmt' = "waiting"
  /\ UNCHANGED <<pipes, query, recv, replyVars, tableVars, route_open,
                 route_close, routeVars, run, life, fault>>

(* cond.wait has no predicate, so it may also return without a notify.     *)
SpuriousWakeup ==
  /\ ~fault
  /\ mgmt = "waiting"
  /\ mgmt' = "woken"
  /\ UNCHANGED <<pipes, query, recv, replyVars, tableVars, route_open,
                 route_close, routeVars, run, life, fault>>

-----------------------------------------------------------------------------
(***************************************************************************)
(* Services::~Services.  life_lock::destroy returns when no callback holds *)
(* the handler; then the thread is told to stop and is joined, and the     *)
(* members go.  Nothing deletes the Routes that map still points to.       *)
(***************************************************************************)
ExpireHandlers ==
  /\ Reachable
  /\ recv = None
  /\ life' = "expired"
  /\ UNCHANGED <<pipes, query, recv, replyVars, tableVars, route_open,
                 route_close, routeVars, mgmt, run, fault>>

StopManagement_StillRuns ==
  /\ ~fault
  /\ life = "expired"
  /\ MtxFree
  /\ Notify
  /\ life' = "stopping"
  /\ UNCHANGED <<pipes, query, recv, replyVars, tableVars, route_open,
                 route_close, routeVars, run, fault>>

StopManagement ==
  /\ ~fault
  /\ life = "expired"
  /\ MtxFree
  /\ run' = FALSE
  /\ Notify
  /\ life' = "stopping"
  /\ UNCHANGED <<pipes, query, recv, replyVars, tableVars, route_open,
                 route_close, routeVars, fault>>

JoinManagement ==
  /\ ~fault
  /\ life = "stopping"
  /\ mgmt = "done"
  /\ life' = "destroyed"
  /\ unresponded' = {}
  /\ registrationMap' = [p \in Pipe |-> None]
  /\ map' = [x \in Path |-> None]
  /\ route_open' = <<>> /\ route_close' = <<>>
  /\ UNCHANGED <<pipes, query, recv, reply, routeVars, mgmt, run, fault>>

-----------------------------------------------------------------------------
DialStage == {"construct", "subscribe", "route"}

Management ==
  \/ MgmtAcquire
  \/ MgmtClose
  \/ \E q \in Query : MgmtConflict(q)
  \/ \E q \in Query, stage \in DialStage : MgmtDialFails(q, stage)
  \/ \E q \in Query : MgmtEnlist(q)
  \/ MgmtWait

Next ==
  \/ \E q \in Query, p \in Pipe, x \in Path, f \in Form : Receive(q, p, x, f)
  \/ RejectQuery
  \/ QueueRegistration
  \/ \E p \in Pipe : DisconnectUnheard(p)
  \/ \E p \in Pipe : DisconnectUnknown(p)
  \/ \E p \in Pipe : DisconnectRegistered(p)
  \/ Management
  \/ SpuriousWakeup
  \/ ExpireHandlers
  \/ StopManagement
  \/ JoinManagement

Spec == Init /\ [][Next]_vars

(***************************************************************************)
(* Threads keep running.  A thread that asks for mtx again and again gets  *)
(* it in the end, although the management thread may take it in between.   *)
(* Nothing makes a service register or leave, or a server shut down.       *)
(***************************************************************************)
Fairness ==
  /\ WF_vars(Management)
  /\ WF_vars(RejectQuery)
  /\ SF_vars(QueueRegistration)
  /\ SF_vars(StopManagement)
  /\ WF_vars(JoinManagement)

FairSpec == Spec /\ Fairness

-----------------------------------------------------------------------------
(***************************************************************************)
(* Correctness.                                                            *)
(***************************************************************************)
Closing(r) == \E i \in 1 .. Len(route_close) : route_close[i] = r
Queued(q)  == \E i \in 1 .. Len(route_open) : route_open[i] = q
Held(x)    == Served(x) \/ \E i \in 1 .. Len(route_close) : query[route_close[i]].path = x

(* The types of the variables of Services, Management and Reply.           *)
TypeOK ==
  /\ pipes \subseteq Pipe
  /\ query \in [Query -> Received \cup {NoQuery}]
  /\ recv \in Query \cup {None}
  /\ unresponded \subseteq Query
  /\ reply \in [Query -> Status \cup {None}]
  /\ registrationMap \in [Pipe -> Path \cup {None}]
  /\ map \in [Path -> Query \cup {None}]
  /\ route_open \in Seq(Query)
  /\ route_close \in Seq(Query)
  /\ routes \subseteq Query
  /\ connectors \subseteq {HostKey(x) : x \in Path}
  /\ created \in [Path -> Nat]
  /\ gone \in [Path -> Nat]
  /\ mgmt \in {"starting", "working", "waiting", "woken", "done"}
  /\ run \in BOOLEAN
  /\ life \in {"alive", "expired", "stopping", "destroyed"}
  /\ fault \in BOOLEAN

(* No lost wakeup: while a route waits to be opened or closed, or a stop   *)
(* has been asked for, the management thread is not asleep in cond.wait.   *)
(* Every notify_one happens under mtx, and the thread gives mtx up only by *)
(* waiting, after it has found both queues empty.                          *)
NoLostWakeup ==
  (route_open # <<>> \/ route_close # <<>> \/ ~run) => mgmt # "waiting"

(* respondTo never throws: as long as the handlers live, a query that is   *)
(* being handled or waits in route_open still has its context on file, so  *)
(* the management thread answers it exactly once and is not killed by      *)
(* "no outstanding request with this queryID".                             *)
AnsweredOnce ==
  life = "alive" =>
    \A q \in Query : (q = recv \/ Queued(q)) => q \in unresponded

(* No dangling Route: a Route the table routes messages to, or that waits  *)
(* to be closed, has not been deleted; and none is in both places or twice *)
(* in the closing queue, so `delete route` runs once per Route.            *)
RoutesNeverDangle ==
  /\ \A x \in Path : Served(x) => map[x] \in routes /\ ~Closing(map[x])
  /\ \A i, j \in 1 .. Len(route_close) :
       /\ route_close[i] \in routes
       /\ route_close[i] = route_close[j] => i = j

(* One Route per URI: counting the Route in the table and those still to   *)
(* be closed, no two carry the same path.  A service that comes back at    *)
(* once is dialed only after the Route of its first life has been closed.  *)
OneRoutePerPath ==
  /\ \A x \in Path : Served(x) =>
       /\ query[map[x]].path = x
       /\ \A i \in 1 .. Len(route_close) : query[route_close[i]].path # x
  /\ \A i, j \in 1 .. Len(route_close) :
       query[route_close[i]].path = query[route_close[j]].path => i = j

(* The directory can be trusted by the threads that route through it:     *)
(* both of the above, of variables that keep their types.                  *)
RouteTableSound == TypeOK /\ RoutesNeverDangle /\ OneRoutePerPath

(* The reports published under "*services" tell the truth: a path has one  *)
(* more Created than Gone exactly while a Route with that path is in the   *)
(* table or waits to be closed, and as many of each otherwise.             *)
ReportsMatchRoutes ==
  life # "destroyed" =>
    \A x \in Path :
      created[x] = gone[x] + (IF Held(x) THEN 1 ELSE 0)

(* Every registration is answered, unless the process dies or the server   *)
(* goes down first.                                                        *)
RegistrationAnswered ==
  \A q \in Query : q \in unresponded ~> (q \notin unresponded \/ ~Reachable)

(* A Route taken out of the table is closed and deleted in the end, again  *)
(* unless the process dies or the server goes down first.                  *)
UnlistedRouteDeleted ==
  \A r \in Query : Closing(r) ~> (r \notin routes \/ ~Reachable)

(* The management thread does all it is asked for, whatever happens        *)
(* between the request and its turn.                                       *)
ManagementServes == RegistrationAnswered /\ UnlistedRouteDeleted

(* ~Services returns: the management thread sees run = false and ends.     *)
ShutdownCompletes == life = "expired" ~> (life = "destroyed" \/ fault)

(* The table holds exactly the services that were told they are enrolled   *)
(* and whose connection is up.                                             *)
DirectoryMatchesServices ==
  Reachable =>
    \A q \in Query : Known(q) =>
      (map[query[q].path] = q <=> (reply[q] = "OK" /\ query[q].pipe \in pipes))

(* Only a message for "*services" can enlist a service.                    *)
OnlyServicesMessagesEnlist ==
  \A x \in Path : Served(x) => query[map[x]].form # "foreign"

(* A service whose registration was refused may leave: the disconnection   *)
(* of its pipe, which has no registration any more, does not kill the      *)
(* server.                                                                 *)
Refused(p) == \E q \in Query : query[q].pipe = p /\ reply[q] \in {"Conflict", "ServiceUnavailable"}

RefusedServiceLeavesQuietly ==
  [][\A p \in pipes \ pipes' : Refused(p) => fault' = fault]_vars

(* The relay dials a service for as long as there is a Route to it: the    *)
(* management thread disconnects the address when it deletes the Route.    *)
DialerGoesWithRoute ==
  \A x \in Path : HostKey(x) \in connectors => \E q \in routes : query[q].path = x

-----------------------------------------------------------------------------
(***************************************************************************)
(* The bookkeeping that makes the invariants above inductive: ids in use   *)
(* belong to queries that were received, a query is handled, queued or has *)
(* its Route, never two of these, and the queue holds it once.             *)
(***************************************************************************)
Bookkeeping ==
  /\ recv # None => Known(recv) /\ recv \notin routes /\ ~Queued(recv)
  /\ \A q \in unresponded \cup routes : Known(q)
  /\ \A i, j \in 1 .. Len(route_open) :
       /\ Known(route_open[i])
       /\ route_open[i] \notin routes
       /\ route_open[i] = route_open[j] => i = j

(* A stop is asked for under mtx, so the thread is not at work when it is. *)
StopSeen == mgmt = "working" => run

DirectoryInv ==
  /\ TypeOK
  /\ NoLostWakeup
  /\ StopSeen
  /\ AnsweredOnce
  /\ RoutesNeverDangle
  /\ OneRoutePerPath
  /\ ReportsMatchRoutes
  /\ Bookkeeping
=============================================================================
