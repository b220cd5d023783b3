# A formal model of telling

TLA+ specifications of [telling](../src/README.md), a C++ microservice library on
top of NNG, with TLC configurations that check them on small instances and TLAPS
proofs of the results that matter most. Paths below are relative to `src/`, the
repository's root.

## The system

A process has a **Server**. **Services** register with it under a path, and
**clients** send it requests and pushes, which it routes to the service with the
longest matching path; services publish reports, which it relays. Everything is
asynchronous: an NNG AIO (asynchronous I/O object) finishes, and a callback runs on
one of NNG's threads. Handlers are held by weak pointers, so a callback may find its
handler gone; a *life lock* makes a handler's destructor wait for callbacks that
hold it. Queues are guarded by mutexes, contexts and AIOs are not.

| Part | Source | Module | State |
|---|---|---|---|
| Service directory: registration, pipe events, management thread | `src/telling/server_services.cpp`, `include/telling/server.h` | `ServiceRegistry` | modelled, safety proved |
| Services that register: `Registration`, `Service_Base` | `src/telling/service_registration.cpp`, `service.cpp` | `Registration` | modelled, composed with the directory, safety proved |
| Request and push routing, Routes | `src/telling/server_reply.cpp`, `server_pull.cpp`, `server.cpp` | `RequestRouter` | modelled, safety proved |
| Prefix map, by which the Routes are looked up | `thirdparty/include/tsl/htrie_hash.h`, `htrie_map.h`, `array-hash/array_hash.h` | `HatTrie`, `ArrayHash` | modelled but for copies, moves and bytes |
| Send loop and queue; Push, Publish | `include/telling/async_loop.h`, `async_queue.h`, `io_queue.h` | `SendBox`, `Outbox` | modelled, safety and refinement proved |
| Receive loop and queue; Pull, Subscribe | the same | `RecvLoop` | modelled but for topics, safety proved |
| Life lock | `thirdparty/include/life_lock.hpp` | `LifeLock` | modelled, safety proved |
| Request client | `src/telling/client_request.cpp` | `RequestClient` | modelled, safety proved |
| Reply service | `src/telling/service_reply.cpp` | `ReplyService` | modelled, safety and refinement proved |
| HTTP client | `src/telling/http_client.cpp` | `HttpClient` | modelled but for bytes, safety proved |
| Message format: layout, views, writer | `src/telling/msg_*.cpp`, `include/telling/msg_*.h` | `MsgFormat`, `Messages` | modelled but for tabs and `setNNGHeader` |
| Reactor; report relay | `src/telling/service_reactor.cpp`, `server_publish.cpp` | `Messages` | the handlers are modelled |
| URIs and addresses | `include/telling/msg_uri.h`, `host_address.h`, `pattern.h` | `MsgFormat`, `Addresses` | popping, derived addresses, protocols |
| Sockets and connectors; Client and Service bundles | `src/telling/socket.cpp`, `include/telling/socket.h`, `client_base.h`, `service_base.h` | `Connectors` | connecting, closing and counting modelled, safety proved |
| Deposits, queued sockets, remote objects; UUIDs, sets (no user in the repository) | `include/telling/deposit.h`, `io_queue.h`, `afar.h`, other headers of `thirdparty/include` | | left out |

`PROJECT.json` lists the parts, the lines each definition models, the hazards of the
code with the properties that cover them, and the theorems.

## Modules

A step of a model is what the code does between two points where another thread can
matter: a critical section, a call that hands an AIO to NNG, a callback's entry.
NNG itself is modelled from how the code uses it: an AIO in use completes with a
message or an error, `cancel` completes it with an error if it is in use and does
nothing otherwise, `stop` and `wait` return when no callback runs.

**ServiceRegistry.** `recv` is the registration that the reply callback handles,
`route_open` and `route_close` are the queues of the management thread, and `mgmt`
says where that thread is: waiting, woken, working under `mtx`, stopped. Each pass
of its inner loops is an action (`MgmtClose`, `MgmtConflict`, `MgmtDialFails`,
`MgmtEnlist`); while it is `working` no other thread gets `mtx`. A Route is named by
the query that led to it. `DisconnectUnknown` sets `fault` for the erasure of an
end iterator. The relay's dialers are keyed as the code keys them, by `HostKey` when
opened and by `PathKey` when closed.

**Registration** puts services in front of the directory. A service constructs its
`Registration` (`registerURI`), and goes on to listen while the query is under way.
Closing its sockets and destroying the `Registration` are two steps, and the server
learns of the second. A service may go at any time, also when its own constructor
throws because another has the address. The history variable `hasty` has the paths at
which one went while the server had its request unanswered; `except` is what the
`Registration` was told, or that it could not send or could not hear.

**LifeLock** has the owner of a `life_lock` or `life_locked` and threads that turn
weak pointers into shared ones. `_retire` is three steps, as the status word and the
pointer change one after the other; dropping the last pointer and the deleter's store
are two. An owner may retire, destroy, destruct, and initialize again.

**ArrayHash** and **HatTrie** are the prefix map: tables with buckets, values and the
indices that erasure leaves behind, and the tree whose leaves they are. Insertion with
rehash and burst, erasure with the removal of empty nodes, iterators as paths,
iteration, ranges, longest prefixes and serialization are operators on the tree; an action applies
one of them, and `map` is what an ideal map would hold. The tables are the default
build's: growth by powers of two, a hash given as a constant, an index of limited width.

**MsgFormat** parses texts. A text is a sequence of symbols, one for each character
that the parser looks at and one for each word that it knows. **Messages** has the
writer's four steps with the states that exceptions leave it in, the Reactor with its
dispatch, error replies and Allow lists, the relay, the popping of URIs, and a pair of
sockets that a service and a client attach at their bases; `told` records what a message
was to say. A behaviour does one of these. **Addresses** has the
derived addresses of a bundle, their text with the port in decimal, and the protocol
that each role speaks at a pattern.

**SendBox** is `send_msg`, `SendQueueMtx::produce` and `consume`, and the AIO
callback. The decision under the queue's mutex (`SendMsg`) and the use of the AIO
(`StartSend`) are separate steps. `accepted` and `sent` are history variables.
**Outbox** is what it promises: messages leave in the order they were accepted, the
oldest may be lost, and closing loses the rest.

**RecvLoop** is `recv_start`, `recv_stop`, the callback and `AsyncRecvQueue`.
Handlers may expire at any time. Its properties are conditioned on the absence of
two receives on one AIO, which `RecvRefuted.cfg` shows to be possible.

**RequestClient** has one Action per `Slot`, in the states of the code (IDLE, SEND,
RECV), the `idle` and `active` pools, the box's `pending` promises and `newQueryID`.
Query ids are context ids and are recycled with the Action. The search in
`async_sent` takes no lock, so it is a step with a beginning and an end, and a change
of `pending` in between is recorded. An empty message after `async_prep` declines the
request and leaves its promise filed, for the next call with that id to adopt. Two
histories name exceptions: whether a caller was `alone` since it left
`Request::request`, and the Actions that began to receive after the destructor had
cancelled (`late`).

**ReplyService** follows a query's context from the receive AIO through
`unresponded` to the outbox and the send AIO. `UsesTag` says whether the callback
may answer at once, `LifeLocked` whether the handler is life-locked. The user listens
and disconnects, so that `respondTo` may throw; `late` has the contexts that were filed
after the destructor had closed the others.

**HttpClient** is like RequestClient with the states CONNECT, SEND, RECV. What the
parser finds in a response is abstracted to the fields of `MsgCompletion`. A callback
holds the handler until it returns, a step after it has let go of the mutex (`Return`).

**RequestRouter** composes the routing path: receive callbacks for requests and
pushes, the lookup under `Services::mtx`, the outboxes of each Route, the service,
the outbox to the clients. Outboxes are plain queues, as `SendBox` implements them,
and the directory changes as `ServiceRegistry` allows (a path is listed again only
when its last Route is deleted, which is part of `RouteTableSound`). Clients and NNG's
resending are external. A message that does not parse is the URI `Malformed`.

**Connectors** is a bundle of sockets and the threads that use it. A call (`Dial`,
`Listen`, `Disconnect`, `DisconnectAll`, `Close` of `socket.h`) visits the
communicators in any order, as C++ evaluates the pack; each visit is one critical
section of `Socket::_mtx`, and `close` keeps the mutex until NNG is done. When one
visit of a dial or listen fails, the call goes round again and disconnects all. Two
dialers at an address are possible in NNG and the second is dropped; two listeners are
not. The count of pipes is read and written by NNG's threads without the mutex, so a
callback has a beginning and an end, and a pipe that NNG refuses has the second event
without the first. The history variable `torn` has the addresses whose last call
overlapped another, which `AllOrNothing` excepts.

`MC*` modules add what an instance needs beyond small sets: symmetry, for the router
two nested paths and URIs under both, one and neither, and the texts, keys and probes
of `Messages` and `HatTrie`. The runs with liveness use no symmetry, and run the
component's module itself. `*Proofs` modules hold the theorems of a component.

## Runs

Each passing run asks one component for its safety and its liveness together; the
states are what TLC finds.

| Run | Shows | Bounds | States |
|---|---|---|---|
| `registry` | wakeups are not lost, registrations answered once and in the end, no dangling or doubled Route, truthful reports, unlisted Routes deleted, shutdown ends | 2 pipes, 1 path, 2 registrations | 65,681 |
| `registration` | the directory is the set of services told OK, and a Registration tells the truth, at every path that none left in haste | 3 services, 1 path, 3 registrations | 1,318,436 |
| `sendbox` | one user of the AIO, nothing stranded, refinement of `Outbox`; every message settled while no send fails | 2 callers, 4 messages | 3,594 |
| `recv_loop` | complete inbox, no silent deafness, quiet after destruction, `recv_stop` returns | 2 handlers, 3 messages | 73,136 |
| `request` | pool, promises, own futures; promises settled if operations end, and the destructor returns unless one begins after its cancel | 2 callers, 3 calls, 2 Actions | 559,438 |
| `reply` | ownership of contexts, replies in order, contexts closed but for late ones; every query answered while the service listens and no send fails | 3 queries, 2 answering threads, not life-locked | 26,965 |
| `http` | pool, connections, promises; settling unless a hang-up is read forever, and destruction unless a stage begins after its cancel | 2 callers, 2 queries, 2 Actions | 139,594 |
| `router` | one place per message, replies from a match; a request that parses is answered | 1 request sent up to 4 times, 1 push, 2 Routes | 621,165 |
| `connectors` | a bundle is connected with all sockets or none, every call returns | 2 sockets, 1 address, 2 threads, 1 connection | 90,251 |
| `life_lock` | whoever has a pointer finds the object alive, the status word goes forward, `destroy` returns | 2 callback threads, 3 lifetimes | 2,581 |
| `hat_trie` | keys found, iteration and ranges complete, longest prefix right, erase returns the next, no empty node | 5 keys, 10 probes, tables that burst at 4 | 33,318 |
| `messages` | written messages parse back, accepted ones yield the words of their line, paths and addresses keep their places; the Reactor answers | texts of up to 4 words, 2 headers, bodies of up to 10, heads of up to 27; paths of up to 6; pairs of sockets at 8 ports and 6 names | 530,078 |

The bounds let every case of the code happen. Two registrations give a Route in use
with another queued for its path, a refusal, and a Route closed while the path is
registered again; `registration` has a third service, and the theorem has any number of
paths. Two callers
with four messages give a sender, a queue of two or more and a race for the AIO. Fewer
Actions than calls give recycling. Two Routes give a path served twice or two nested
paths, and four copies of a request, one of them sent early, outlast the deletion of
both. Two sockets give a call that fails after its first success, two threads the calls
that overlap it, and a connection the callback that `close` waits for. Two callback threads can
pass a pointer on for ever, and three lifetimes leave weak pointers to each of the
last. Five nested and branching keys burst a root and a child and empty both again.
The limits of a start-line and of all before the body are small, so that texts exceed them; bodies of 9 and 10
characters take one and two digits; ports are at the powers of ten and at 65535.
All systems may stop (no more clients, or after destruction), so deadlock is not
an error; that threads do not block for good is what the liveness properties say.

A property of a run may be the conjunction of several, each with its comment in the
module: `RouteTableSound`, `ManagementServes`, `QueueShared`, `SilentOnlyWhenDone`,
`ContextsOwned`, `QueriesConsistent`, `RoutedOnceToMatch`, `SearchesComplete` and
`PlacesKept`. One of each module's has `TypeOK` as a conjunct.

### What does not hold

The modules also state what the code, its comments or its documentation let one expect
and what is not so. These configurations are kept beside the runs; TLC refutes each
property (with `-continue` all of a configuration):

| Configuration, module | Property | What happens |
|---|---|---|
| `RegistryRefuted`, `ServiceRegistry` | `DirectoryMatchesServices` | a service that leaves while its registration is queued stays listed; a refused one can close another's Route |
| | `OnlyServicesMessagesEnlist` | a registration whose URI is not `*services` is accepted, against the comment at `server_services.cpp:79` |
| | `DialerGoesWithRoute` | the relay's dialer is opened under the host address and closed under the path, so it stays |
| | `RefusedServiceLeavesQuietly` | a pipe that is not registered leaves and an end iterator is erased |
| `RegistrationRefuted`, `MCRegistration` | `DirectoryMatchesServices` | of services that register properly, one that leaves before its answer is listed all the same, or closes the Route of another |
| | `RegistrationAlwaysTruthful` | a second service at an address in use throws in its constructor and so closes the Route of the first, which still says ENLISTED; or the answer is lost and an enrolled service says FAILED |
| `SendBoxWedge`, `SendBox` | `EveryMessageSettled` | after one failed send nothing is sent any more |
| `RecvRefuted`, `RecvLoop` | `StopIsLast` | `async_stop` is called twice, against `async.h:62` |
| | `NeverStartedTwice` | a receive is started on an AIO in use |
| `RequestRefuted`, `RequestClient` | `RequestReturnsFuture` | `request` throws when the response is fast |
| | `AskerGetsResponse` | of two callers one is given the promise that the other's response settles, or throws and its response goes to nobody |
| | `PendingNeverCorrupted` | promises are searched without the lock |
| `RequestDestructor`, `RequestClient` | `DestructorAlwaysReturns` | cancellation misses an Action between send and receive, and the destructor waits for a response |
| `ReplyWedge`, `ReplyService` | `EveryReplySettled` | a failed reply stops the outbox unreported |
| `ReplyDestroyed`, `ReplyService` | `SurvivesDestruction` | a null handler is called |
| | `CallbackNeverThrows` | `respondTo` in the receive callback throws when the service has just disconnected, and nothing catches it |
| | `NoContextLeft` | a context is filed after the destructor has closed those on file |
| `HttpRefuted`, `HttpClient` | `ResponseWasReceived` | the completion of an old response ends a new query with an empty one |
| | `OneOutcome` | error and response for one query |
| | `ConnectedBeforeSend` | writing without a connection |
| | `NoConnectionLeaks` | a connection is made and its Action never takes it |
| `HttpDestructor`, `HttpClient` | `DestructorAlwaysReturns` | cancellation misses an Action between two stages, and the destructor waits for the next |
| `HttpHangup`, `HttpClient` | `EveryPromiseSettled` | endless reading after a hang-up |
| `RouterMalformed`, `MCRequestRouter` | `EveryRequestAnswered` | a request that does not parse gets no reply |
| `RouterShutdown`, `MCRequestRouter` | `RoutedBeforeDestruction` | the directory is destroyed before the callbacks that use it stop |
| `ConnectorsRefuted`, `Connectors` | `PipesCounted` | callbacks overlap and lose an event, or a refused pipe is taken off without having been counted, against `socket.h:85` |
| | `CountNeverWraps` | the test against zero and the decrement are apart, and the count wraps |
| `LifeLockLeak`, `LifeLock` | `GoneMeansDestroyed` | retired and then destructed, a `life_locked` never destroys its object, against the comment at `life_lock.hpp:346` |
| `HatTriePrefix`, `MCHatTrie` | `NoEmptyNode` | erasing by prefix can leave a node with nothing below it |
| `MessagesRefuted`, `MCMessages` | `NeverEnds` | `writeBody`, which is `noexcept`, closes headers that do not parse, and ends the program |
| | `ReleasedParses` | a message that was thrown out of is released by the next attempt |
| | `PushesIgnored` | pushes whose method demands a response are dispatched, against `service_reactor.h:56` |
| | `AlwaysParsedFaithfully` | a status of other than three characters before a reason, or an empty last word, is read wrong |
| | `PeersMeet` | bundles at neighbouring ports, or around 65535, have sockets of different protocols at one address |

### Fairness

Threads keep running, and NNG runs the callback of a completed AIO: weak fairness of
callbacks, of the management thread and of destructors once begun. A thread that asks
for `Services::mtx` gets it eventually although the management thread takes it again
and again: strong fairness of `QueueRegistration` and `StopManagement`. The
transport finishes a send it has begun. Nothing forces a client to send, a service to
register or a destructor to start. `Connectors` has NNG end the connections of a socket that is being closed. One
assumption goes beyond the code: `RequestRouter` has services reply and NNG resend lost
requests. Elsewhere the property says what it depends on. The request clients set no
timeout: `EveryPromiseSettled` and `SettledUnlessHungUp` assume that no operation of NNG
is pending for ever, the latter also that responses and hang-ups end. Their
`DestructorReturns` assumes nothing of the network, and excepts only operations begun
after the cancel. `SettledUnlessSendFails` and `EveryQueryAnswered` assume that no send
fails, the latter also that the service goes on listening; `DestroyReturns` of `LifeLock`
that new callbacks stop coming: two that take turns can keep `destroy` waiting for ever.
`Registration`, `HatTrie` and `Messages` are checked for safety only.

## Proofs

Every safety property of a run is proved for every value of the constants, with no
bound, but for those of the recursive modules. Each proof has the same form: an
inductive invariant, which TLC has checked on the run's instance or a smaller one, one
lemma per action or group of actions that it is kept, and the property as a
consequence.

- `ServiceRegistryProofs`: `Spec => []DirectoryInv` and from it `NoLostWakeup`,
  `AnsweredOnce`, `RouteTableSound` and `ReportsMatchRoutes`. These are not inductive
  alone. `Bookkeeping` adds that a query is being handled, queued or has its Route,
  never two of these, and is queued once: without it a Route could be made under a name
  in use. `StopSeen` adds that the thread is never at work after a stop was asked for,
  since that needs `mtx`: without it the thread could sleep through the stop.

  For services that register, `RegSpec => []RegInv` and from it
  `DirectoryMatchesUnlessHasty` and `RegistrationTruthful`, for any number of services
  and paths. `OneQueryPerPipe` says that a Registration asks once over its connection;
  `InProgress` then follows the query: queued, it has its entry in the map of
  registrations while its pipe lives; with the answer OK it has the Route until the pipe
  goes, and unanswered, its service is connected, unless its path is in `hasty`; refused,
  it has no Route. `HasAsked` says that what a Registration was told comes of a query of
  its own.
  `RegistrationRefuted` shows what fails without the exceptions.
- `SendBoxProofs`: `Spec => []SendInv`, from it `QueueShared`, and `Spec => FifoOutbox`.
  `Position` ties the queue to the history: it is the end of `accepted`, and the message
  in flight comes just before it. Each step then maps to a step of `Outbox` or to a
  stutter.
- `RecvLoopProofs`: `Spec => []RecvInv` and from it `InboxComplete` and
  `SilentOnlyWhenDone`. `CallbackHasLoop` adds that a running callback has the handler
  in place and an AIO that is not in use: without it `recv_start` could replace the
  handler under the callback, and the message would go to the wrong queue. Both
  properties except two receives on one AIO, as the run does.

  The same module proves `HeldMeansAlive` and `StatusGoesForward` of the life lock that
  keeps the handlers (`LockSpec`), for any number of threads and lifetimes. The invariant
  adds what the owner's place in `destroy` says of the status word and of the pointers
  that are left: that after the word says expired there is none, and that nobody is in
  the deleter before it is stored that the lock is retired.
- `ReplyServiceProofs`: `Spec => []ReplyInv`, from it `ContextsOwned`, and
  `Spec => RepliesInOrder`, that the outbox of replies implements `Outbox`. The
  invariant follows a context from place to place: every id in use was received
  (`IdsReceived`), a query that waits does so in one place (`WaitsOnce`), and the AIO is
  used only by whoever set `busy` (`AioStages`). It is proved for
  handlers that are life-locked and for those that are not: `DroppedIsQuiet` says that
  with the lock no callback runs on after the handler went, `FiledLate` that without it
  only late contexts are on file after the destructor closed the others.
- `RequestClientProofs`: `Spec => []RequestInv`, from it `PoolConsistent` and
  `ResponseMeetsItsPromise`, and `Spec => OwnFuture`. Ids are recycled with the Actions,
  so the invariant must say that a promise is filed under one id only (`FiledOnce`), that
  a call whose message is carried or whose promise is filed is not made again
  (`FiledIsMade`), and that an Action goes back to the pool without a promise
  (`CleanedUp`). `AloneCarries` makes the future the caller's own: while no other call
  has entered `request`, what is filed under its id is with the Action that carries its
  message.
- `HttpClientProofs`: `Spec => []HttpInv` and from it `QueriesConsistent`. Here ids are
  counted, so the invariant says that those in use are below the next and that no two
  active Actions share one (`IdsAreFresh`); exactly one Action then works for an open
  promise. `CleanedUp` says that an Action goes back to the pool without a connection or
  a promise, and that the box breaks what is left with its last pointer.
- `RequestRouterProofs`: `Spec => []RouterInv` and from it `RoutedOnceToMatch`. That
  every copy is counted in one place is not inductive: the invariant has instead that the
  six kinds of places are disjoint and that none has a copy twice, that only what was
  sent is under way, and that wherever a copy waits the path of the Route is a prefix of
  its URI.
- `ConnectorsProofs`: `Spec => []AllOrNothing`, for any number of sockets. `BundleInv`
  adds what a call that nothing overlapped has achieved so far: the sockets it has
  visited are connected if it connects and not if it disconnects (`LoneProgress`), and
  no other call is about its address (`AloneIsAlone`). `ClosedIsEmpty`, that a closed
  socket has no connector, is proved with it.

The assumptions are the named `ASSUME`s of the modules. Most say that `None` is no
element of the other sets, that a flag is a Boolean and that error codes and outcomes
are no names of states. A bound on ids, copies or lifetimes is a positive number. The
router's say that no message is both a request and a push and that paths and URIs
have lengths (`KindAssumption`, `PathAssumption`). TLC evaluates all of them in the
runs.

Only model-checked, all beyond the prover: liveness, because of fairness; and `HatTrie`
with `ArrayHash` and `Messages` with `MsgFormat` and `Addresses`, because what a
recursive definition computes for every input takes an induction over data. The
refinement proofs are of the safety of `Outbox`, which has no fairness.

Leaves that need neither arithmetic nor sequences name the prover Zenon. `RequestRouter`
defines `IsPrefix` itself, since `SequencesExt` with all it brings in slows every leaf of
its proofs.

## Not modelled

Logging and message wording; topics (NNG's); PAIR sockets; TLS; `httpConn_open`; the
`ServiceUnavailable` branches of routing, which cannot be reached while a Route owns
its outboxes; the leak of Routes at shutdown is visible in the model and not stated as
a property. Of messages: tabs, `setNNGHeader`, calling the writer
without a message. Of the prefix map: copies and moves, the bytes of a
bucket, exceptions of an element's type. Of addresses: comparison, which has no user
and takes two TCP hosts with the same port for equal. The compressed variant of
`life_lock` and the headers that nothing uses (deposits, queued sockets, remote
objects, UUIDs, sets). The parts without a module are in the table.

The lines that `ParsedFaithfully` excepts (`Unheld`): an empty one, one whose protocol or
status comes last and is empty, and a status of other than three characters before a
reason. A query whose method is empty
or CONNECT gets no reply from a Reactor, which `ReactorAnswers` excepts.
