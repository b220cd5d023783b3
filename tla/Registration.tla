----------------------------- MODULE Registration -----------------------------
(***************************************************************************)
(* Services that register themselves: Service_Base, Service and            *)
(* Service_Box (src/src/telling/service.cpp) with their Registrations      *)
(* (service_registration.cpp), among a directory that serves them.  Each   *)
(* Registration has a connection and makes one request over it.            *)
(*                                                                         *)
(* A service may be destroyed at any time, also by its own constructor     *)
(* when listen throws.  NNG's REQ protocol resends a query that has waited *)
(* too long: that is left to ServiceRegistry, which allows any query.      *)
(***************************************************************************)
EXTENDS ServiceRegistry

VARIABLES
  registration,   \* status of the Registration behind each pipe: "none" before
                  \* its constructor, "gone" once destroyed
  except,         \* Delegate::except of each: "success", "refused" by the reply,
                  \* "unsent" or "unheard" after a networking error
  uri,            \* Service_Base::uri
  listening,      \* the pipes of services that listen at their inproc address
  hasty           \* history: paths at which a service left while the server had
                  \* its request and had not answered it

serviceVars == <<registration, except, uri, listening, hasty>>
regVars == <<vars, serviceVars>>

Become(p, status) == registration' = [registration EXCEPT ![p] = status]

Fail(p, why) == Become(p, "FAILED") /\ except' = [except EXCEPT ![p] = why]

Exists(p)       == registration[p] \notin {"none", "gone"}
isRegistered(p) == registration[p] = "ENLISTED"

RegInit ==
  /\ Init
  /\ registration = [p \in Pipe |-> "none"]
  /\ except = [p \in Pipe |-> "success"]
  /\ uri = [p \in Pipe |-> None]
  /\ listening = {} /\ hasty = {}

(* The constructor of Registration dials and hands its request to the      *)
(* requester, which starts to send.                                        *)
Construct(p, x) ==
  /\ p \in pipes
  /\ Become(p, "INITIAL")
  /\ uri' = [uri EXCEPT ![p] = x]

(* The constructor of Service_Base, and registerURI: a second one throws.  *)
registerURI(p, x) ==
  /\ registration[p] = "none"
  /\ Construct(p, x)
  /\ UNCHANGED <<vars, except, listening, hasty>>

(* The request arrives, if it could be sent.  A path with a newline in it  *)
(* makes a third line.                                                     *)
Deliver(q, p, f) ==
  /\ Exists(p) /\ except[p] # "unsent"
  /\ \A other \in Query : query[other].pipe # p
  /\ f \in {"ok", "extra"}
  /\ Receive(q, p, uri[p], f)
  /\ UNCHANGED serviceVars

(* The constructor of the service goes on, registration under way, to      *)
(* listen.                                                                 *)
Listen(p) ==
  /\ Exists(p) /\ p \notin listening
  /\ \A other \in listening : uri[other] # uri[p]
  /\ listening' = listening \cup {p}
  /\ UNCHANGED <<vars, registration, except, uri, hasty>>

(* ~Service closes the sockets; the Registration goes after that.          *)
Close(p) ==
  /\ p \in listening
  /\ listening' = listening \ {p}
  /\ UNCHANGED <<vars, registration, except, uri, hasty>>

(***************************************************************************)
(* The Registration is destroyed, by ~Service or because the constructor's *)
(* listen has thrown, and its connection goes away.                        *)
(***************************************************************************)
Pending(p) == {q \in Query : query[q].pipe = p /\ reply[q] = None}

Destruct(p) ==
  /\ Exists(p) /\ p \notin listening
  /\ DisconnectUnheard(p) \/ DisconnectUnknown(p) \/ DisconnectRegistered(p)
  /\ Become(p, "gone")
  /\ hasty' = IF Pending(p) = {} THEN hasty ELSE hasty \cup {uri[p]}
  /\ UNCHANGED <<except, uri, listening>>

-----------------------------------------------------------------------------
(* Registration::Delegate.  Request starts to receive only after           *)
(* async_sent; the server may have the query, and have answered it, before.*)
async_sent(p) ==
  /\ registration[p] = "INITIAL"
  /\ Become(p, "REQUESTED")
  /\ UNCHANGED <<vars, except, uri, listening, hasty>>

async_recv_AnyReply(p) ==
  /\ registration[p] = "REQUESTED" /\ p \in pipes
  /\ \E q \in Query : query[q].pipe = p /\ reply[q] # None
  /\ Become(p, "ENLISTED")
  /\ UNCHANGED <<vars, except, uri, listening, hasty>>

async_recv(p) ==
  /\ registration[p] = "REQUESTED" /\ p \in pipes
  /\ \E q \in Query :
       /\ query[q].pipe = p /\ reply[q] # None
       /\ IF reply[q] = "OK" THEN Become(p, "ENLISTED") /\ UNCHANGED except
                             ELSE Fail(p, "refused")
  /\ UNCHANGED <<vars, uri, listening, hasty>>

(* The request could not be sent; or it was, and the response could not be *)
(* received, whatever the server has made or will make of the request.     *)
async_error(p) ==
  /\ \/ registration[p] = "INITIAL" /\ (\A q \in Query : query[q].pipe # p) /\ Fail(p, "unsent")
     \/ registration[p] = "REQUESTED" /\ Fail(p, "unheard")
  /\ UNCHANGED <<vars, uri, listening, hasty>>

-----------------------------------------------------------------------------
ServerStep ==
  /\ RejectQuery \/ QueueRegistration \/ Management \/ SpuriousWakeup
     \/ ExpireHandlers \/ StopManagement \/ JoinManagement
  /\ UNCHANGED serviceVars

RegNext ==
  \/ \E p \in Pipe, x \in Path : registerURI(p, x)
  \/ \E p \in Pipe : async_sent(p) \/ async_recv(p) \/ async_error(p)
  \/ \E p \in Pipe : Listen(p) \/ Close(p) \/ Destruct(p)
  \/ \E q \in Query, p \in Pipe, f \in Form : Deliver(q, p, f)
  \/ ServerStep

RegSpec == RegInit /\ [][RegNext]_regVars

-----------------------------------------------------------------------------
(* The table holds exactly the services that were told they are enrolled   *)
(* and are still connected, at every path but those at which a service     *)
(* left, or its constructor threw, while the server had its request        *)
(* unanswered.  There pipeEvent takes the Route of the service that holds  *)
(* the path, or finds none, and a Route for the one that left may follow.  *)
DirectoryMatchesUnlessHasty ==
  Reachable =>
    \A q \in Query : Known(q) /\ query[q].path \notin hasty =>
      (map[query[q].path] = q <=> (reply[q] = "OK" /\ query[q].pipe \in pipes))

Owns(p) == \E x \in Path : Served(x) /\ query[map[x]].pipe = p

(* While the server is up, what a Registration says is so.  If it is       *)
(* registered, a Route of its own serves a path, unless at its path        *)
(* another left, or had its constructor throw, while the server had that   *)
(* one's request unanswered.  If it has failed, no Route is its own (its   *)
(* path may be in the table for another), unless it failed because the     *)
(* response could not be received, when it does not know.                  *)
RegistrationTruthful ==
  Reachable =>
    \A p \in pipes :
      /\ isRegistered(p) /\ uri[p] \notin hasty => Owns(p)
      /\ registration[p] = "FAILED" /\ except[p] # "unheard" => ~Owns(p)

(* The same without the exceptions.                                        *)
RegistrationAlwaysTruthful ==
  Reachable =>
    \A p \in pipes :
      (isRegistered(p) => Owns(p)) /\ (registration[p] = "FAILED" => ~Owns(p))
=============================================================================
