------------------------------ MODULE Connectors ------------------------------
(***************************************************************************)
(* The dialers and listeners of Socket (socket.cpp), and the bundles that  *)
(* connect several sockets at once with the function templates Dial,       *)
(* Listen, Disconnect, DisconnectAll and Close (socket.h): Client_Base,    *)
(* Service_Base and Server::open.                                          *)
(*                                                                         *)
(* A call on a bundle calls each communicator in turn, in an order that    *)
(* C++ leaves open; each takes the mutex of its own Socket.  A dial or     *)
(* listen that fails half-way disconnects the address everywhere.  Pipe    *)
(* events come from NNG's threads and count connections without the mutex. *)
(*                                                                         *)
(* Left out: the choice of an NNG protocol, and the handler of pipe events *)
(* (ServiceRegistry has the one that does something).                      *)
(***************************************************************************)
EXTENDS Naturals, FiniteSets

CONSTANTS
  Comm,    \* the communicators of a bundle, each with its Socket
  Addr,    \* HostAddress::Base values
  Thread,  \* threads that use the bundle
  Pipe,    \* connections; the set bounds how many are ever made
  MaxCount,  \* largest value of _pipe_count, which is a uint32_t
  None

Connecting == {"dial", "listen"}
Everywhere == {"disconnectAll", "close"}
Operation == Connecting \cup Everywhere \cup {"disconnect", "rollback"}

(* What a thread may be doing with the bundle: the communicators still to  *)
(* be called, the one whose Socket is being closed, and whether no other   *)
(* call overlapped it.                                                     *)
Calls == [op : Operation, base : Addr \cup {None}, todo : SUBSET Comm,
          closing : Comm \cup {None}, alone : BOOLEAN]

(* A connection: its socket, where it is, and the count its callback read. *)
Connections == [comm : Comm, at : {"adding", "live", "leaving", "gone"}, read : 0 .. MaxCount]

ASSUME CountAssumption == MaxCount \in Nat \ {0}
ASSUME NoneAssumption == None \notin Comm \cup Addr \cup Connecting \cup Calls \cup Connections

VARIABLES
  open,        \* Socket::_socket is open
  connectors,  \* Socket::_connectors: what is kept for an address
  count,       \* Socket::_pipe_count
  pipe,        \* the connections made
  call,        \* what each thread is doing with the bundle
  torn         \* history: addresses whose last call was overlapped by another

vars == <<open, connectors, count, pipe, call, torn>>

(* The addresses that a call may connect or disconnect.                    *)
Touches(r) == IF r.op \in Everywhere THEN Addr ELSE {r.base}

(* Socket::_mtx is held across one step, and by close until NNG is done.   *)
MtxFree(c) == \A t \in Thread : call[t] # None => call[t].closing # c

(* A thread is to call communicator c for one of the operations ops.       *)
At(t, c, ops) ==
  /\ call[t] # None /\ call[t].closing = None
  /\ call[t].op \in ops /\ c \in call[t].todo
  /\ MtxFree(c)

Called(t, c) == call' = [call EXCEPT ![t].todo = @ \ {c}]

Init ==
  /\ open = [c \in Comm |-> TRUE]
  /\ connectors = [c \in Comm |-> [a \in Addr |-> None]]
  /\ count = [c \in Comm |-> 0]
  /\ pipe = [p \in Pipe |-> None]
  /\ call = [t \in Thread |-> None]
  /\ torn = {}

-----------------------------------------------------------------------------
(* A thread calls the bundle.                                              *)
Call(t, op, a) ==
  LET r == [op |-> op, base |-> a, todo |-> Comm, closing |-> None, alone |-> TRUE]
      others == {u \in Thread : call[u] # None /\ Touches(call[u]) \cap Touches(r) # {}}
  IN  /\ call[t] = None
      /\ a = None <=> op \in Everywhere
      /\ call' = [u \in Thread |->
                    CASE u = t         -> [r EXCEPT !.alone = others = {}]
                      [] u \in others -> [call[u] EXCEPT !.alone = FALSE]
                      [] OTHER        -> call[u]]
      /\ UNCHANGED <<open, connectors, count, pipe, torn>>

(***************************************************************************)
(* Socket::dial and Socket::listen.  A second listener at an address is    *)
(* refused by NNG; a second dialer is made, and dropped again because      *)
(* emplace keeps the entry that is there.                                  *)
(***************************************************************************)
Connect(t, c) ==
  /\ At(t, c, Connecting)
  /\ open[c]
  /\ call[t].op = "listen" => connectors[c][call[t].base] # "listen"
  /\ connectors' = [connectors EXCEPT ![c][call[t].base] = IF @ = None THEN call[t].op ELSE @]
  /\ Called(t, c)
  /\ UNCHANGED <<open, count, pipe, torn>>

(* The socket is closed, or NNG refuses.  Dial and Listen catch the        *)
(* exception, disconnect every communicator, and throw it again.           *)
ConnectFails_NoRollback(t, c) ==
  /\ At(t, c, Connecting)
  /\ call' = [call EXCEPT ![t].todo = {}]
  /\ UNCHANGED <<open, connectors, count, pipe, torn>>

ConnectFails(t, c) ==
  /\ At(t, c, Connecting)
  /\ call' = [call EXCEPT ![t].op = "rollback", ![t].todo = Comm]
  /\ UNCHANGED <<open, connectors, count, pipe, torn>>

Disconnect(t, c) ==
  /\ At(t, c, {"disconnect", "rollback"})
  /\ connectors' = [connectors EXCEPT ![c][call[t].base] = None]
  /\ Called(t, c)
  /\ UNCHANGED <<open, count, pipe, torn>>

DisconnectAll(t, c) ==
  /\ At(t, c, {"disconnectAll"})
  /\ connectors' = [connectors EXCEPT ![c] = [a \in Addr |-> None]]
  /\ Called(t, c)
  /\ UNCHANGED <<open, count, pipe, torn>>

(***************************************************************************)
(* Socket::close keeps the mutex while NNG closes the socket, which ends   *)
(* when no connection and no callback is left.                             *)
(***************************************************************************)
Close(t, c) ==
  /\ At(t, c, {"close"})
  /\ connectors' = IF open[c] THEN [connectors EXCEPT ![c] = [a \in Addr |-> None]]
                              ELSE connectors
  /\ call' = [call EXCEPT ![t].todo = @ \ {c}, ![t].closing = IF open[c] THEN c ELSE None]
  /\ UNCHANGED <<open, count, pipe, torn>>

Of(c) == {p \in Pipe : pipe[p] # None /\ pipe[p].comm = c /\ pipe[p].at # "gone"}

Closed(t) ==
  /\ call[t] # None /\ call[t].closing # None
  /\ Of(call[t].closing) = {}
  /\ open' = [open EXCEPT ![call[t].closing] = FALSE]
  /\ call' = [call EXCEPT ![t].closing = None]
  /\ UNCHANGED <<connectors, count, pipe, torn>>

(* The call returns or throws.                                             *)
Return(t) ==
  /\ call[t] # None /\ call[t].todo = {} /\ call[t].closing = None
  /\ call' = [call EXCEPT ![t] = None]
  /\ torn' = IF call[t].alone THEN torn \ Touches(call[t]) ELSE torn \cup Touches(call[t])
  /\ UNCHANGED <<open, connectors, count, pipe>>

-----------------------------------------------------------------------------
(***************************************************************************)
(* Socket::_pipeCallback for add_post and rem_post, which two of NNG's     *)
(* threads may run at once.  It takes no mutex: the count that ++ or --    *)
(* works on is the one found at first, or one that has changed meanwhile.  *)
(***************************************************************************)
InCallback(p) == pipe[p] # None /\ pipe[p].at \in {"adding", "leaving"}

Begin(p, c, at) ==
  /\ pipe' = [pipe EXCEPT ![p] = [comm |-> c, at |-> at, read |-> count[c]]]
  /\ UNCHANGED <<open, connectors, count, call, torn>>

PipeAdded(p, c) ==
  /\ pipe[p] = None
  /\ open[c] /\ \E a \in Addr : connectors[c][a] # None
  /\ Begin(p, c, "adding")

(* NNG refuses a connection that it announced with add_pre, for instance   *)
(* because the peer speaks another protocol: rem_post without add_post.    *)
PipeRefused(p, c) ==
  /\ pipe[p] = None
  /\ open[c] /\ \E a \in Addr : connectors[c][a] # None
  /\ Begin(p, c, "leaving")

PipeRemoved(p) ==
  /\ pipe[p] # None /\ pipe[p].at = "live"
  /\ Begin(p, pipe[p].comm, "leaving")

Increment(n) == IF n = MaxCount THEN 0 ELSE n + 1
Decrement(n) == IF n = 0 THEN MaxCount ELSE n - 1

EndCallback_Locks(p) ==
  /\ InCallback(p)
  /\ MtxFree(pipe[p].comm)
  /\ LET c == pipe[p].comm
     IN  \E n \in {pipe[p].read, count[c]} :
           count' = [count EXCEPT ![c] =
             IF pipe[p].at = "adding" THEN Increment(n)
             ELSE IF pipe[p].read > 0 THEN Decrement(n) ELSE @]
  /\ pipe' = [pipe EXCEPT ![p].at = IF @ = "adding" THEN "live" ELSE "gone"]
  /\ UNCHANGED <<open, connectors, call, torn>>

EndCallback(p) ==
  /\ InCallback(p)
  /\ LET c == pipe[p].comm
     IN  \E n \in {pipe[p].read, count[c]} :
           count' = [count EXCEPT ![c] =
             IF pipe[p].at = "adding" THEN Increment(n)
             ELSE IF pipe[p].read > 0 THEN Decrement(n) ELSE @]
  /\ pipe' = [pipe EXCEPT ![p].at = IF @ = "adding" THEN "live" ELSE "gone"]
  /\ UNCHANGED <<open, connectors, call, torn>>

-----------------------------------------------------------------------------
Step(t) ==
  \/ \E c \in Comm : Connect(t, c) \/ ConnectFails(t, c) \/ Disconnect(t, c)
                     \/ DisconnectAll(t, c) \/ Close(t, c)
  \/ Closed(t)
  \/ Return(t)

Next ==
  \/ \E t \in Thread, op \in Operation \ {"rollback"}, a \in Addr \cup {None} :
       Call(t, op, a)
  \/ \E t \in Thread : Step(t)
  \/ \E p \in Pipe, c \in Comm : PipeAdded(p, c) \/ PipeRefused(p, c)
  \/ \E p \in Pipe : PipeRemoved(p) \/ EndCallback(p)

Spec == Init /\ [][Next]_vars

(***************************************************************************)
(* Fairness.  The threads that call and NNG's own keep running, and NNG    *)
(* ends the connections of a socket that is being closed.                  *)
(***************************************************************************)
Fairness ==
  /\ \A t \in Thread : WF_vars(Step(t))
  /\ \A p \in Pipe : WF_vars(EndCallback(p))
  /\ \A p \in Pipe : WF_vars(PipeRemoved(p) /\ ~MtxFree(pipe[p].comm))

FairSpec == Spec /\ Fairness

-----------------------------------------------------------------------------
(***************************************************************************)
(* Correctness.                                                            *)
(***************************************************************************)

(* The types of the sockets, their connections and the calls.              *)
TypeOK ==
  /\ open \in [Comm -> BOOLEAN]
  /\ connectors \in [Comm -> [Addr -> Connecting \cup {None}]]
  /\ count \in [Comm -> 0 .. MaxCount]
  /\ pipe \in [Pipe -> Connections \cup {None}]
  /\ call \in [Thread -> Calls \cup {None}]
  /\ torn \subseteq Addr

(* A bundle is connected to an address with all its communicators or with  *)
(* none, whichever of them failed and whatever was there before, once the  *)
(* calls about the address are over and none overlapped the last of them.  *)
(* And the types are right.                                                *)
AllOrNothing ==
  /\ TypeOK
  /\ \A a \in Addr \ torn :
       \/ \E t \in Thread : call[t] # None /\ a \in Touches(call[t])
       \/ {c \in Comm : connectors[c][a] # None} \in {{}, Comm}

(* Every call on a bundle returns or throws.  Socket::close holds _mtx     *)
(* while it waits for NNG, which waits for the callbacks of the pipes: it  *)
(* is enough that these take no lock that close or a dial holds.           *)
CallsReturn == \A t \in Thread : call[t] # None ~> call[t] = None

(* connectionCount() is the number of live connections, between the events *)
(* of the pipes.                                                           *)
PipesCounted ==
  \A c \in Comm : (\A p \in Of(c) : ~InCallback(p)) => count[c] = Cardinality(Of(c))

(* The guard against zero keeps the count from wrapping round.             *)
CountNeverWraps == \A c \in Comm : count[c] <= Cardinality(Pipe)
=============================================================================
