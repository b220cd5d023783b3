------------------------------ MODULE Addresses ------------------------------
(***************************************************************************)
(* Where the sockets of a bundle meet: HostAddress and HostAddress::Base   *)
(* (include/telling/host_address.h), and the protocol that Protocol::Choose*)
(* (pattern.h) gives the socket at either end.  A name is a sequence of    *)
(* words and an address the record of HostAddress's members.               *)
(***************************************************************************)
EXTENDS Naturals, Sequences

CONSTANT None

(* PATTERN; PAIR is only for a socket that is not part of a bundle.        *)
Pattern == [REQ_REP |-> 0, PUB_SUB |-> 1, PUSH_PULL |-> 2, PAIR |-> 3]
Bundled == {"REQ_REP", "PUB_SUB", "PUSH_PULL"}

ClientSide(p) == [REQ_REP |-> "REQ", PUB_SUB |-> "SUB", PUSH_PULL |-> "PUSH", PAIR |-> None][p]
ServerSide(p) == [REQ_REP |-> "REP", PUB_SUB |-> "PUB", PUSH_PULL |-> "PULL", PAIR |-> None][p]

Choose(role, p) ==
  IF role = "CLIENT" THEN ClientSide(p)
  ELSE IF role \in {"SERVICE", "BROKER"} THEN ServerSide(p)
  ELSE IF role = "PEER" /\ p = "PAIR" THEN "PAIR" ELSE None

-----------------------------------------------------------------------------
Extension(p) ==
  [REQ_REP |-> <<".req">>, PUB_SUB |-> <<".sub">>, PUSH_PULL |-> <<".push">>, PAIR |-> None][p]

PortOffset_Wide(port, p) == port + Pattern[p]

(* The sum is converted to uint16_t.                                       *)
PortOffset(port, p) == (port + Pattern[p]) % 65536

(* Base::derived; None is the address without a transport.                 *)
derived(b, p) ==
  IF b.transport = "TCP" THEN [b EXCEPT !.number = PortOffset(@, p)]
  ELSE IF Extension(p) = None THEN None
  ELSE [b EXCEPT !.name = @ \o Extension(p)]

(* The digits that portstr collects, last first; zero has one.             *)
Digit == <<"0", "1", "2", "3", "4", "5", "6", "7", "8", "9">>
PortDigits[port \in Nat] ==
  (IF port < 10 THEN << >> ELSE PortDigits[port \div 10]) \o <<Digit[(port % 10) + 1]>>

(* HostAddress::operator std::string                                       *)
AddressText(a) ==
  IF a = None THEN <<"unknown">>
  ELSE IF a.transport = "INPROC" THEN <<"inproc://">> \o a.name
  ELSE IF a.transport = "IPC" THEN <<"ipc:///var/run/">> \o a.name
  ELSE <<"tcp://">> \o (IF a.name = << >> THEN <<"localhost">> ELSE a.name) \o <<":">>
         \o PortDigits[a.number]
=============================================================================
