----------------------------- MODULE RequestRouter -----------------------------
(***************************************************************************)
(* How a Server routes requests and pushes: Server::ReqRep (server_reply   *)
(* .cpp), Server::PushPull (server_pull.cpp), the lookups of               *)
(* Server::Services (server.h) and Server::Route (server_services.cpp).    *)
(*                                                                         *)
(* A receive callback, one for requests and one for pushes, looks a        *)
(* message's URI up under Services::mtx and puts the message in the outbox *)
(* of a Route.  The Route's own receive callback puts the service's reply  *)
(* in the outbox to the clients.  Outboxes appear here as the queues that  *)
(* SendBox is shown to implement.  The directory changes as                *)
(* ServiceRegistry says: a Route is listed, unlisted, and later deleted.   *)
(*                                                                         *)
(* sendRequest and sendPush throw only without a handler, and a Route owns *)
(* its outboxes: the ServiceUnavailable branches are not reached.          *)
(***************************************************************************)
EXTENDS Naturals, Sequences, FiniteSets

CONSTANTS
  Request,    \* messages of clients that want a reply
  Push,       \* messages of clients that do not
  Path,       \* prefixes under which services register: sequences
  Uri,        \* URIs that clients ask for: sequences
  Malformed,  \* the URI of a message that does not parse
  NotFound,   \* in place of a path, the origin of the server's own error reply
  Route,      \* Route objects; the set bounds how often services come and go
  MaxTries,   \* bound: copies of a request that a client sends
  Early,      \* bound: copies that a client sends again although not lost
  None

ASSUME TriesAssumption == MaxTries \in Nat \ {0} /\ Early \in Nat
ASSUME KindAssumption == Request \cap Push = {}
ASSUME PathAssumption == \A x \in Path \cup (Uri \ {Malformed}) : Len(x) \in Nat

VARIABLES
  map,       \* Services::map
  path,      \* Route::path
  stage,     \* of each Route: "none", "open", "closing" (unlisted), "deleted"
  uri,       \* what each message asks for, once sent
  tries,     \* copies of each message sent so far
  inbound,   \* copies on their way to the server
  ingest,    \* copy that each receive callback of the server handles
  outbox,    \* copies in the two outboxes of each Route
  served,    \* copies that the service behind each Route works on or has pulled
  replies,   \* replies in the outbox to the clients
  answer,    \* first reply that reached the client, for each request
  lost,      \* history: copies that were discarded
  alive,     \* members of Server that exist: services, reply, pull
  fault      \* a callback used services when it did not exist

vars == <<map, path, stage, uri, tries, inbound, ingest, outbox, served, replies,
          answer, lost, alive, fault>>
tableVars == <<map, path, stage>>
clientVars == <<uri, tries>>

Message == Request \cup Push
Copy == [msg : Message, try : 1 .. MaxTries]
ASSUME NoneAssumption == None \notin Route \cup Copy
Line == {"request", "push"}  \* the members reply and pull
LineOf(m) == IF m \in Request THEN "request" ELSE "push"

Open(r) == stage[r] \in {"open", "closing"}

(* The copies in an outbox of a Route.                                     *)
Held(r, l) == {outbox[r][l][i] : i \in 1 .. Len(outbox[r][l])}

Init ==
  /\ map = [x \in Path |-> None]
  /\ path = [r \in Route |-> None]
  /\ stage = [r \in Route |-> "none"]
  /\ uri = [m \in Message |-> None]
  /\ tries = [m \in Message |-> 0]
  /\ inbound = {}
  /\ ingest = [l \in Line |-> None]
  /\ outbox = [r \in Route |-> [l \in Line |-> <<>>]]
  /\ served = [r \in Route |-> {}]
  /\ replies = <<>>
  /\ answer = [m \in Request |-> None]
  /\ lost = {}
  /\ alive = {"services"} \cup Line /\ fault = FALSE

-----------------------------------------------------------------------------
(***************************************************************************)
(* Clients.  Request::request (see RequestClient) and Push::push give a    *)
(* message to the socket once they are ready.  NNG's REQ protocol sends a  *)
(* request again when it has waited too long; a push is sent once.         *)
(***************************************************************************)
Send(m, u) ==
  /\ ~fault
  /\ tries[m] = 0
  /\ uri' = [uri EXCEPT ![m] = u]
  /\ tries' = [tries EXCEPT ![m] = 1]
  /\ inbound' = inbound \cup {[msg |-> m, try |-> 1]}
  /\ UNCHANGED <<tableVars, ingest, outbox, served, replies, answer, lost, alive, fault>>

Resend(m) ==
  /\ ~fault
  /\ tries[m] \in 1 .. MaxTries - 1
  /\ answer[m] = None
  /\ tries[m] <= Early \/ [msg |-> m, try |-> tries[m]] \in lost
  /\ tries' = [tries EXCEPT ![m] = @ + 1]
  /\ inbound' = inbound \cup {[msg |-> m, try |-> tries[m] + 1]}
  /\ UNCHANGED <<tableVars, uri, ingest, outbox, served, replies, answer, lost, alive, fault>>

(***************************************************************************)
(* AsyncRecvLoop hands a copy to ReqRep::async_recv or PushPull::async_recv *)
(* and receives no other until that returns.                               *)
(***************************************************************************)
Ingest(c) ==
  /\ ~fault
  /\ c \in inbound
  /\ LineOf(c.msg) \in alive /\ ingest[LineOf(c.msg)] = None
  /\ inbound' = inbound \ {c}
  /\ ingest' = [ingest EXCEPT ![LineOf(c.msg)] = c]
  /\ UNCHANGED <<tableVars, clientVars, outbox, served, replies, answer, lost, alive, fault>>

Done(l) == ingest' = [ingest EXCEPT ![l] = None]

(* A message that does not parse is logged and dropped.                    *)
IngestMalformed(l) ==
  /\ ~fault
  /\ ingest[l] # None
  /\ uri[ingest[l].msg] = Malformed
  /\ lost' = lost \cup {ingest[l]}
  /\ Done(l)
  /\ UNCHANGED <<tableVars, clientVars, inbound, outbox, served, replies, answer, alive, fault>>

(***************************************************************************)
(* Services::route: PrefixMap::longest_prefix, the search that HatTrie     *)
(* models and checks.                                                      *)
(***************************************************************************)
IsPrefix(x, u) == Len(x) <= Len(u) /\ SubSeq(u, 1, Len(x)) = x

Matching_Shorter(u) == {x \in Path : map[x] # None /\ Len(x) <= Len(u)}
Matching(u) == {x \in Path : map[x] # None /\ IsPrefix(x, u)}
LongestPrefix(u) == CHOOSE x \in Matching(u) : \A y \in Matching(u) : Len(y) <= Len(x)

Routing(l) ==
  /\ ~fault
  /\ ingest[l] # None
  /\ uri[ingest[l].msg] # Malformed

(* routeRequest or routePush finds a Route, whose outbox takes the message. *)
RouteFound(l) ==
  /\ Routing(l) /\ "services" \in alive
  /\ Matching(uri[ingest[l].msg]) # {}
  /\ LET r == map[LongestPrefix(uri[ingest[l].msg])]
     IN  outbox' = [outbox EXCEPT ![r][l] = Append(@, ingest[l])]
  /\ Done(l)
  /\ UNCHANGED <<tableVars, clientVars, inbound, served, replies, answer, lost, alive, fault>>

(* No service matches: a request is answered with 404, a push discarded.   *)
RouteNotFound_Silent(l) ==
  /\ Routing(l) /\ "services" \in alive
  /\ Matching(uri[ingest[l].msg]) = {}
  /\ lost' = lost \cup {ingest[l]}
  /\ Done(l)
  /\ UNCHANGED <<tableVars, clientVars, inbound, outbox, served, replies, answer, alive, fault>>

RouteNotFound(l) ==
  /\ Routing(l) /\ "services" \in alive
  /\ Matching(uri[ingest[l].msg]) = {}
  /\ IF l = "request"
     THEN replies' = Append(replies, [copy |-> ingest[l], from |-> NotFound]) /\ UNCHANGED lost
     ELSE lost' = lost \cup {ingest[l]} /\ UNCHANGED replies
  /\ Done(l)
  /\ UNCHANGED <<tableVars, clientVars, inbound, outbox, served, answer, alive, fault>>

(* Server::services is gone, and the callback locks its mutex.             *)
RouteNowhere(l) ==
  /\ Routing(l) /\ "services" \notin alive
  /\ fault' = TRUE
  /\ UNCHANGED <<tableVars, clientVars, inbound, ingest, outbox, served, replies, answer,
                 lost, alive>>

-----------------------------------------------------------------------------
(* An outbox of a Route hands its oldest message to the service.           *)
Forward(r, l) ==
  /\ ~fault
  /\ Open(r) /\ outbox[r][l] # <<>>
  /\ served' = [served EXCEPT ![r] = @ \cup {Head(outbox[r][l])}]
  /\ outbox' = [outbox EXCEPT ![r][l] = Tail(@)]
  /\ UNCHANGED <<tableVars, clientVars, inbound, ingest, replies, answer, lost, alive, fault>>

(* The service replies over the same connection; ReqRep::async_recv for    *)
(* ServiceReplying puts the reply in the outbox to the clients.            *)
Replied(r, c) ==
  /\ ~fault
  /\ "request" \in alive
  /\ Open(r) /\ c \in served[r] /\ c.msg \in Request
  /\ served' = [served EXCEPT ![r] = @ \ {c}]
  /\ replies' = Append(replies, [copy |-> c, from |-> path[r]])
  /\ UNCHANGED <<tableVars, clientVars, inbound, ingest, outbox, answer, lost, alive, fault>>

(* The outbox to the clients returns a reply along its backtrace.  NNG's   *)
(* REQ protocol ignores a reply to a request that has been answered.       *)
Return ==
  /\ ~fault
  /\ replies # <<>>
  /\ LET m == Head(replies).copy.msg
     IN  answer' = [answer EXCEPT ![m] = IF @ = None THEN Head(replies).from ELSE @]
  /\ replies' = Tail(replies)
  /\ UNCHANGED <<tableVars, clientVars, inbound, ingest, outbox, served, lost, alive, fault>>

-----------------------------------------------------------------------------
(***************************************************************************)
(* The directory.  A path is listed again only when no Route of that path  *)
(* waits to be closed (ServiceRegistry!OneRoutePerPath); ~Route takes the  *)
(* outboxes and the connection to the service with it.                     *)
(***************************************************************************)
List(x, r) ==
  /\ ~fault /\ "services" \in alive
  /\ map[x] = None /\ stage[r] = "none"
  /\ \A s \in Route : stage[s] = "closing" => path[s] # x
  /\ map' = [map EXCEPT ![x] = r]
  /\ path' = [path EXCEPT ![r] = x]
  /\ stage' = [stage EXCEPT ![r] = "open"]
  /\ UNCHANGED <<clientVars, inbound, ingest, outbox, served, replies, answer, lost, alive, fault>>

Unlist(x) ==
  /\ ~fault /\ "services" \in alive
  /\ map[x] # None
  /\ stage' = [stage EXCEPT ![map[x]] = "closing"]
  /\ map' = [map EXCEPT ![x] = None]
  /\ UNCHANGED <<path, clientVars, inbound, ingest, outbox, served, replies, answer, lost, alive, fault>>

Delete(r) ==
  /\ ~fault /\ "services" \in alive
  /\ stage[r] = "closing"
  /\ stage' = [stage EXCEPT ![r] = "deleted"]
  /\ lost' = lost \cup (UNION {Held(r, l) : l \in Line})
                  \cup {c \in served[r] : c.msg \in Request}
  /\ outbox' = [outbox EXCEPT ![r] = [l \in Line |-> <<>>]]
  /\ served' = [served EXCEPT ![r] = {c \in @ : c.msg \in Push}]
  /\ UNCHANGED <<map, path, clientVars, inbound, ingest, replies, answer, alive, fault>>

(***************************************************************************)
(* ~Server destroys its members in reverse order of declaration: services  *)
(* before reply, and reply before pull.  The destructors of the last two   *)
(* wait for their callback; the outbox to the clients goes with reply.     *)
(***************************************************************************)
DestroyServices ==
  /\ ~fault /\ "services" \in alive
  /\ alive' = alive \ {"services"}
  /\ UNCHANGED <<tableVars, clientVars, inbound, ingest, outbox, served, replies, answer, lost, fault>>

DestroyReply ==
  /\ ~fault /\ alive = Line
  /\ ingest["request"] = None
  /\ alive' = {"push"}
  /\ lost' = lost \cup {replies[i].copy : i \in 1 .. Len(replies)}
  /\ replies' = <<>>
  /\ UNCHANGED <<tableVars, clientVars, inbound, ingest, outbox, served, answer, fault>>

DestroyPull ==
  /\ ~fault /\ alive = {"push"}
  /\ ingest["push"] = None
  /\ alive' = {}
  /\ UNCHANGED <<tableVars, clientVars, inbound, ingest, outbox, served, replies, answer, lost, fault>>

-----------------------------------------------------------------------------
Next ==
  \/ \E m \in Message, u \in Uri : Send(m, u)
  \/ \E m \in Request : Resend(m)
  \/ \E c \in inbound : Ingest(c)
  \/ \E l \in Line : IngestMalformed(l)
  \/ \E l \in Line : RouteFound(l)
  \/ \E l \in Line : RouteNotFound(l)
  \/ \E l \in Line : RouteNowhere(l)
  \/ \E r \in Route, l \in Line : Forward(r, l)
  \/ \E r \in Route, c \in Copy : Replied(r, c)
  \/ Return
  \/ \E x \in Path, r \in Route : List(x, r)
  \/ \E x \in Path : Unlist(x)
  \/ \E r \in Route : Delete(r)
  \/ DestroyServices
  \/ DestroyReply
  \/ DestroyPull

Spec == Init /\ [][Next]_vars

(***************************************************************************)
(* Fairness.  The server's callbacks and the management thread keep        *)
(* running, the outboxes are emptied (SendBox!EveryMessageSettled),        *)
(* services reply to what they get, and NNG sends lost requests again.     *)
(***************************************************************************)
Fairness ==
  /\ \A c \in Copy : WF_vars(Ingest(c))
  /\ \A l \in Line : WF_vars(IngestMalformed(l) \/ RouteFound(l) \/ RouteNotFound(l))
  /\ \A r \in Route, l \in Line : WF_vars(Forward(r, l))
  /\ \A r \in Route : WF_vars(Delete(r))
  /\ \A r \in Route, c \in Copy : WF_vars(Replied(r, c))
  /\ WF_vars(Return)
  /\ \A m \in Request : WF_vars(Resend(m))

FairSpec == Spec /\ Fairness

-----------------------------------------------------------------------------
(***************************************************************************)
(* Correctness.                                                            *)
(***************************************************************************)

(* The types of the server's tables and queues.                            *)
TypeOK ==
  /\ map \in [Path -> Route \cup {None}]
  /\ path \in [Route -> Path \cup {None}]
  /\ stage \in [Route -> {"none", "open", "closing", "deleted"}]
  /\ uri \in [Message -> Uri \cup {None}]
  /\ tries \in [Message -> 0 .. MaxTries]
  /\ inbound \subseteq Copy
  /\ ingest \in [Line -> Copy \cup {None}]
  /\ \A r \in Route, l \in Line : Held(r, l) \subseteq {k \in Copy : LineOf(k.msg) = l}
  /\ \A r \in Route : served[r] \subseteq Copy
  /\ \A i \in 1 .. Len(replies) :
       replies[i].copy \in Copy /\ replies[i].from \in Path \cup {NotFound}
  /\ answer \in [Request -> Path \cup {None, NotFound}]
  /\ lost \subseteq Copy
  /\ alive \subseteq {"services"} \cup Line /\ fault \in BOOLEAN

(* The places in the outboxes of the Routes.                               *)
Slots == UNION {{<<r, l, i>> : i \in 1 .. Len(outbox[r][l])} : r \in Route, l \in Line}

(* In how many places of the path a copy of a message is.                  *)
Places(c) ==
  (IF c \in inbound THEN 1 ELSE 0)
  + Cardinality({l \in Line : ingest[l] = c})
  + Cardinality({s \in Slots : outbox[s[1]][s[2]][s[3]] = c})
  + Cardinality({r \in Route : c \in served[r]})
  + Cardinality({i \in 1 .. Len(replies) : replies[i].copy = c})
  + (IF c \in lost THEN 1 ELSE 0)

(* A message is in one place, so a copy of a request never gets two        *)
(* replies and is never answered and lost.  And the types are right.       *)
OnePlace == TypeOK /\ \A c \in Copy : Places(c) <= 1

(* A reply that reaches a client comes from a service whose path is a      *)
(* prefix of the URI it asked for, however services come and go meanwhile; *)
(* a push reaches no other service either.                                 *)
ServedByMatch ==
  /\ \A m \in Request : answer[m] \notin {None, NotFound} => IsPrefix(answer[m], uri[m])
  /\ \A r \in Route : \A c \in served[r] : IsPrefix(path[r], uri[c.msg])

(* No message is copied or goes astray: both of the above.                 *)
RoutedOnceToMatch == OnePlace /\ ServedByMatch

(* Every request that a client sends gets an answer, a reply or 404,       *)
(* unless the server goes down, however services come and go.              *)
Answered(m) == answer[m] # None \/ "services" \notin alive
EveryRequestAnswered == \A m \in Request : tries[m] > 0 ~> Answered(m)

(* A request that parses does.                                             *)
WellFormedAnswered ==
  \A m \in Request : tries[m] > 0 /\ uri[m] # Malformed ~> Answered(m)

(* No message is routed through a directory that has been destroyed.       *)
RoutedBeforeDestruction == ~fault
=============================================================================
