------------------------------- MODULE Messages -------------------------------
(***************************************************************************)
(* MsgWriter (src/src/telling/msg_writer.cpp), which composes messages;    *)
(* the messages that arrive from elsewhere, the Reactor that answers them  *)
(* (service_reactor.cpp, msg_util.cpp) and the relay of reports            *)
(* (server_publish.cpp).  What a text means is in MsgFormat, and where it  *)
(* goes in Addresses.                                                      *)
(*                                                                         *)
(* The writer throws, and stays as the exception leaves it; its caller may *)
(* go on.  writeBody is noexcept: what it throws ends the program.         *)
(***************************************************************************)
EXTENDS MsgFormat, Integers
INSTANCE Addresses

CONSTANTS
  UriInput, ReasonInput, StatusInput, MethodInput,  \* arguments of start...
  HeaderInput,   \* headers <<name, value>>
  BodyInput,     \* what is written to a body at once
  LengthInput,   \* arguments of writeHeader_Length
  Incoming,      \* texts that arrive
  Prefix,        \* Reactor::_uri_prefix
  Allowed,       \* what the service's allowed() returns
  Path,          \* URIs to be taken apart
  Name, Port,    \* of hosts and services, in the addresses they listen at
  MaxHeaders, MaxBody,  \* bounds: headers and length of the body of a message
  MaxText               \* bound: length of a text that is still written to

VARIABLES
  protocol,  \* MsgWriter::protocol
  w,         \* the writer: msg (or None), p_body, and head's offset and size
  out,       \* the message last released, None if there is none
  told,      \* ghost: what the message was to say
  ready,     \* ghost: since the message's start nothing has been thrown, and
             \* the steps came in the order the header documents
  seen,      \* the text that arrived
  asks,      \* it came with a SendPrompt: a query, not a push
  handled,   \* which handler has had it: "none" if it was dropped, None before
  path,      \* a Uri, with what has been popped from its front and its back
  sockets,   \* one that listens and one that dials, and at which address
  ended      \* std::terminate was called

vars == <<protocol, w, out, told, ready, seen, asks, handled, path, sockets, ended>>
reactorVars == <<seen, asks, handled>>

Fresh == [msg |-> None, p_body |-> 0, lengthOffset |-> 0, lengthSize |-> 0]
Nothing == [type |-> "unknown", first |-> << >>, uri |-> << >>, status |-> 0,
            reason |-> << >>, headers |-> << >>, body |-> << >>]

Init ==
  /\ protocol \in {"T", "H"}
  /\ w = Fresh
  /\ out = None /\ told = Nothing /\ ready = TRUE
  /\ seen = None /\ asks = FALSE /\ handled = None
  /\ path \in {[full |-> u, uri |-> u, front |-> << >>, back |-> << >>] : u \in Path}
  /\ sockets = << >>
  /\ ended = FALSE

-----------------------------------------------------------------------------
(* preferred_newline                                                       *)
Newline(p) == IF p = "T" THEN <<NL>> ELSE <<CR, NL>>

Write(x, text) == [x EXCEPT !.msg = @ \o text]

(* startRequest, startReply and startReport: the start-line.               *)
StartLineText(p, m) ==
  (IF m.type = "request" THEN m.first \o <<SP>> \o m.uri \o <<SP, p>>
   ELSE (IF m.type = "report" THEN m.uri \o <<SP>> ELSE << >>)
        \o <<p, SP>> \o StatusText(m.status) \o <<SP>> \o m.reason)
  \o Newline(p)

HeaderText(p, name, value) == name \o <<":">> \o value \o Newline(p)

(* NumDigits and the digits themselves.                                    *)
RECURSIVE DecimalText(_)
DecimalText(n) ==
  (IF n < 10 THEN << >> ELSE DecimalText(n \div 10)) \o <<Digits[(n % 10) + 1]>>

(* _autoCloseHeaders: the empty line, and a parse of what there is.        *)
Closed(p, x) ==
  IF x.p_body # 0 THEN x
  ELSE [Write(x, Newline(p)) EXCEPT !.p_body = ParseMsg(x.msg \o Newline(p), "unknown").p_body]
Closes(p, x) == x.p_body # 0 \/ OK(ParseMsg(x.msg \o Newline(p), "unknown"))

(* release: the number goes where writeHeader_Length left room for it.     *)
Filled(x) ==
  LET digits == DecimalText(Len(x.msg) - x.p_body)
  IN  [i \in DOMAIN x.msg |->
        IF i - x.lengthOffset \in DOMAIN digits THEN digits[i - x.lengthOffset] ELSE x.msg[i]]

-----------------------------------------------------------------------------
Writing == w.msg # None /\ ~ended

(***************************************************************************)
(* STEP 1.  With a message in hand start... throws and changes nothing.    *)
(* What it finds wrong with its arguments it throws once the message has   *)
(* been made.                                                              *)
(***************************************************************************)
Start(m) ==
  LET good == /\ m.type = "request" => m.first # << >>
              /\ ~Has(m.uri, {SP, NL, CR})
              /\ ~Has(m.reason, {NL, CR})
  IN  /\ ~ended /\ w.msg = None
      /\ w' = [Fresh EXCEPT !.msg = IF good THEN StartLineText(protocol, m) ELSE << >>]
      /\ ready' = good
      /\ told' = m
      /\ out' = None
      /\ UNCHANGED <<protocol, reactorVars, path, sockets, ended>>

StartRequest ==
  \E u \in UriInput, g \in MethodInput :
    Start([Nothing EXCEPT !.type = "request", !.uri = u, !.first = g])
StartReply ==
  \E c \in StatusInput, r \in ReasonInput :
    Start([Nothing EXCEPT !.type = "reply", !.status = c, !.reason = r])
StartReport ==
  \E u \in UriInput, c \in StatusInput, r \in ReasonInput :
    Start([Nothing EXCEPT !.type = "report", !.uri = u, !.status = c, !.reason = r])

(* STEP 2.  Otherwise writeHeader throws and changes nothing.              *)
WriteHeader_AnyName ==
  \E h \in HeaderInput :
    /\ Writing /\ w.p_body = 0
    /\ ~Has(h[2], {NL, CR})
    /\ Len(told.headers) < MaxHeaders
    /\ w' = Write(w, HeaderText(protocol, h[1], h[2]))
    /\ told' = [told EXCEPT !.headers = Append(@, [name |-> h[1], value |-> h[2]])]
    /\ UNCHANGED <<protocol, out, ready, reactorVars, path, sockets, ended>>

WriteHeader ==
  \E h \in HeaderInput :
    /\ Writing /\ w.p_body = 0
    /\ ~Has(h[1], {NL, CR, ":"}) /\ ~Has(h[2], {NL, CR})
    /\ Len(told.headers) < MaxHeaders
    /\ w' = Write(w, HeaderText(protocol, h[1], h[2]))
    /\ told' = [told EXCEPT !.headers = Append(@, [name |-> h[1], value |-> h[2]])]
    /\ UNCHANGED <<protocol, out, ready, reactorVars, path, sockets, ended>>

(* writeHeader_Length does not ask whether the headers are still open, nor *)
(* whether the offset fits its 16 bits; a second one throws.               *)
WriteHeaderLength ==
  \E n \in LengthInput :
    /\ Writing /\ w.lengthSize = 0
    /\ Len(told.headers) < MaxHeaders
    /\ LET blanks == [i \in 1 .. Len(DecimalText(n)) |-> SP]
       IN  w' = [Write(w, HeaderText(protocol, <<"L">>, blanks))
                   EXCEPT !.lengthOffset = (Len(w.msg) + 2) % (MaxHead + 1),
                          !.lengthSize = Len(blanks)]
    /\ told' = [told EXCEPT !.headers = Append(@, [name |-> <<"L">>, value |-> None])]
    /\ ready' = (ready /\ w.p_body = 0)
    /\ UNCHANGED <<protocol, out, reactorVars, path, sockets, ended>>

(* STEP 3.                                                                 *)
WriteBody ==
  \E b \in BodyInput :
    /\ Writing
    /\ Len(told.body) + Len(b) <= MaxBody
    /\ IF Closes(protocol, w)
       THEN /\ w' = Write(Closed(protocol, w), b)
            /\ told' = [told EXCEPT !.body = @ \o b]
            /\ UNCHANGED ended
       ELSE ended' = TRUE /\ UNCHANGED <<w, told>>
    /\ UNCHANGED <<protocol, out, ready, reactorVars, path, sockets>>

(* STEP 4.  When the empty line or the number fails, the message stays.    *)
Release ==
  /\ Writing
  /\ Len(w.msg) <= MaxText
  /\ LET x == Closed(protocol, w)
         fits == x.lengthSize = 0 \/ Len(DecimalText(Len(x.msg) - x.p_body)) <= x.lengthSize
     IN  IF Closes(protocol, w) /\ fits
         THEN /\ out' = IF x.lengthSize = 0 THEN x.msg ELSE Filled(x)
              /\ w' = [Fresh EXCEPT !.p_body = x.p_body]
              /\ UNCHANGED ready
         ELSE w' = x /\ ready' = FALSE /\ UNCHANGED out
  /\ UNCHANGED <<protocol, told, reactorVars, path, sockets, ended>>

-----------------------------------------------------------------------------
Receive ==
  /\ w = Fresh /\ out = None /\ seen = None
  /\ seen' \in Incoming
  /\ asks' \in BOOLEAN
  /\ UNCHANGED <<protocol, w, out, told, ready, handled, path, sockets, ended>>

(* A reply of one header.                                                  *)
Reply(status, value, body) ==
  [Nothing EXCEPT !.type = "reply", !.status = status, !.reason = <<"x", SP, "x">>,
                  !.headers = <<[name |-> <<"x">>, value |-> value]>>, !.body = body]

(* replyWithError of MsgException and of the others, and what _handle      *)
(* writes about an exception that has no reply of its own.                 *)
ErrorReply(status) == Reply(status, <<"x", "/", "x">>, <<"x", CR, NL>>)

(* MsgException::replyStatus, for what _parse_msg says of a request.       *)
ReplyStatus(e) ==
  IF e = "ALREADY_WRITTEN" THEN 500
  ELSE IF e = "HEADER_TOO_BIG" THEN 431 ELSE 400

(* writeHeader_Allow: the methods in the order of their codes.             *)
AllowText(methods) ==
  LET some == SelectSeq(Methods, LAMBDA m : m \in methods)
  IN  FoldLeft(LAMBDA s, m : s \o (IF s = << >> THEN << >> ELSE <<",", SP>>) \o <<m>>, << >>, some)

AllowReply(status) == Reply(status, AllowText(Allowed), << >>)

(* SendPrompt: what is sent without one goes nowhere.                      *)
Send(m, handler) ==
  LET h == m.headers[1]
  IN  /\ handled' = handler
      /\ IF ~asks THEN UNCHANGED <<out, told>>
         ELSE /\ told' = m
              /\ out' = StartLineText("T", m) \o HeaderText("T", h.name, h.value)
                          \o Newline("T") \o m.body

(* Reactor::async_get is the service's own: it replies, leaves the reply   *)
(* for later, or throws.  The others are as the Reactor defines them.      *)
Dispatch(code) ==
  \/ /\ code \in {"None", "C"}
     /\ handled' = "none" /\ UNCHANGED <<out, told>>
  \/ /\ code = "G"
     /\ \/ Send(Reply(200, <<"x">>, <<"x">>), "async_get")
        \/ \E status \in {404, 500} : Send(ErrorReply(status), "async_get")
        \/ handled' = "deferred" /\ UNCHANGED <<out, told>>
  \/ code = "O" /\ Send(AllowReply(200), "async_options")
  \/ code = "R" /\ Send(Reply(200, <<"x">>, << >>), "async_trace")
  \/ code \in {"P", "Unknown"} /\ Send(AllowReply(501), "NotImplemented")

Handle_AnyPrefix ==
  /\ seen # None /\ handled = None
  /\ LET l == ParseMsg(seen, "request")
     IN  IF ~OK(l) THEN Send(ErrorReply(ReplyStatus(l.error)), "error")
         ELSE Dispatch(MethodCode(MethodString(seen, l)))
  /\ UNCHANGED <<protocol, w, ready, seen, asks, path, sockets, ended>>

(* Reactor::_handle                                                        *)
Handle ==
  /\ seen # None /\ handled = None
  /\ LET l == ParseMsg(seen, "request")
     IN  IF ~OK(l) THEN Send(ErrorReply(ReplyStatus(l.error)), "error")
         ELSE IF ~IsPrefix(Prefix, UriString(seen, l)) THEN Send(ErrorReply(502), "error")
         ELSE Dispatch(MethodCode(MethodString(seen, l)))
  /\ UNCHANGED <<protocol, w, ready, seen, asks, path, sockets, ended>>

(* Server::PubSub::async_recv: a report goes on to the publisher as it is. *)
Relay ==
  /\ seen # None /\ handled = None /\ ~asks
  /\ handled' = IF OK(ParseMsg(seen, "report")) THEN "published" ELSE "discarded"
  /\ UNCHANGED <<protocol, w, out, told, ready, seen, asks, path, sockets, ended>>

Pop ==
  /\ w = Fresh /\ seen = None
  /\ \/ LET r == FrontRange(path.uri)
        IN  /\ r[2] > 0
            /\ path' = [path EXCEPT !.uri = PopFront(@),
                          !.front = Append(@, Part(path.uri, r[1], r[2]))]
     \/ LET r == BackRange(path.uri)
        IN  /\ r[2] > 0
            /\ path' = [path EXCEPT !.uri = PopBack(@),
                          !.back = <<Part(path.uri, r[1], r[2])>> \o @]
  /\ UNCHANGED <<protocol, w, out, told, ready, reactorVars, sockets, ended>>

(* Socket::listen and dial at a Base: a service first, then a client.      *)
Base == [transport : {"INPROC", "IPC"}, name : Name, number : {0}]
        \cup [transport : {"TCP"}, name : Name, number : Port]

Attach ==
  /\ w = Fresh /\ seen = None /\ Len(sockets) < 2
  /\ \E b \in Base, p \in Bundled :
       LET role == IF sockets = << >> THEN "SERVICE" ELSE "CLIENT"
       IN  sockets' = Append(sockets, [base |-> b, pattern |-> p, protocol |-> Choose(role, p),
                                       uri |-> AddressText(derived(b, p))])
  /\ UNCHANGED <<protocol, w, out, told, ready, reactorVars, path, ended>>

(* The uses of the text have nothing in common: a behaviour composes, or   *)
(* answers what arrives, or takes a path apart, or connects.               *)
Composing ==
  /\ seen = None
  /\ \/ StartRequest \/ StartReply \/ StartReport
     \/ WriteHeader \/ WriteHeaderLength \/ WriteBody \/ Release

Next ==
  \/ path.full = << >> /\ sockets = << >> /\ (Composing \/ Receive \/ Handle \/ Relay)
  \/ Pop
  \/ path.full = << >> /\ out = None /\ Attach

Spec == Init /\ [][Next]_vars

-----------------------------------------------------------------------------
(***************************************************************************)
(* Correctness.                                                            *)
(***************************************************************************)
(* What the writer released, or the Reactor answered, a reader parses back *)
(* to what was told: the elements of the start-line, every header with its *)
(* value, the body with whatever newlines it begins with.  With a length   *)
(* among the headers the message is complete when all of the body is       *)
(* there, and not before.                                                  *)
Text(s, l) ==
  [type |-> MsgType(l), first |-> MethodString(s, l), uri |-> UriString(s, l),
   status |-> ParseStatus(StatusString(s, l)), reason |-> Reason(s, l),
   headers |-> Headers(s, l), body |-> BodyString(s, l)]

Said ==
  [told EXCEPT !.headers = [i \in DOMAIN @ |-> [@[i] EXCEPT !.value =
     IF @ = None THEN DecimalText(Len(told.body)) ELSE Trim(@)]]]

RoundTrip ==
  ready /\ out # None =>
    LET l == ParseMsg(out, told.type)
    IN  /\ OK(l) /\ Text(out, l) = Said
        /\ (\E i \in DOMAIN told.headers : told.headers[i].value = None) =>
             Complete(out, l) /\ (told.body # << >> => ~Complete(Front(out), l))

(* Whatever arrives, and as what it is parsed: if the parser accepts it,   *)
(* the accessors of MsgView yield the words of the start-line, none lost,  *)
(* none twice and none with a blank in it (but the reason, which goes on   *)
(* to the end), and the type that was asked for; unless the line is one    *)
(* that the layout is known not to hold.                                   *)
Joined(words) == FoldLeft(LAMBDA s, x : s \o <<SP>> \o x, words[1], Tail(words))

Accessors(s, l, type) ==
  (IF type = "request" THEN <<MethodString(s, l)>> ELSE << >>)
  \o (IF type # "reply" THEN <<UriString(s, l)>> ELSE << >>) \o <<ProtocolString(s, l)>>
  \o (IF type # "request" THEN <<StatusString(s, l), Reason(s, l)>> ELSE << >>)

Yields(words, line, type) ==
  LET plain == IF type = "request" THEN 3 ELSE Len(words) - 1
  IN  /\ \A i \in 1 .. plain : ~Has(words[i], {SP})
      /\ \E n \in DOMAIN words :
           /\ Joined(SubSeq(words, 1, n)) = line
           /\ \A i \in n + 1 .. Len(words) : words[i] = << >>

(* The lines that the layout does not hold: no word at all; a protocol or  *)
(* status that comes last and is empty (msg_layout.h: "_prt_rpos is 0 for  *)
(* "GET x ""); a status of other than three characters before a reason.    *)
Unheld(line, type) ==
  LET n == Len(ElementOffsets(line))
      last == [request |-> {3}, reply |-> {2}, report |-> {2, 3}, unknown |-> {}][type]
      status == IF type = "reply" THEN 2 ELSE 3
  IN  \/ line = << >>
      \/ n \in last /\ Element(line, n) = << >>
      \/ type # "request" /\ n > status /\ Len(Element(line, status)) # 3

(* It is those lines, and no other, that the view gets wrong.              *)
ParsedFaithfully ==
  seen # None =>
    LET line == Part(seen, 0, LineEnd(seen, 0))
    IN  \A asked \in {"unknown", "request", "reply", "report"} :
          LET type == IF asked = "unknown" THEN GuessType(line) ELSE asked
              l    == ParseMsg(seen, asked)
          IN  OK(l) =>
                /\ ~Unheld(line, type) <=>
                     MsgType(l) = type /\ Yields(Accessors(seen, l, type), line, type)
                /\ l.sl_len = Len(line) /\ l.p_body \in Len(line) + 2 .. Len(seen)

(* The same without the exception.                                         *)
AlwaysParsedFaithfully ==
  seen # None =>
    \A type \in {"request", "reply", "report"} :
      LET l == ParseMsg(seen, type)
      IN  OK(l) => Yields(Accessors(seen, l, type), Part(seen, 0, LineEnd(seen, 0)), type)

(* Popping from either end, in any order, yields the elements of the path, *)
(* none with a slash and none lost.                                        *)
PathElements(u) ==
  LET starts == SelectSeq([i \in DOMAIN u |-> i], LAMBDA i : u[i] # "/" /\ (i = 1 \/ u[i - 1] = "/"))
  IN  [k \in DOMAIN starts |-> Part(u, starts[k] - 1, FirstOf(u, {"/"}, starts[k] - 1) - starts[k] + 1)]

PopsEveryElement ==
  PathElements(path.full) = path.front \o PathElements(path.uri) \o path.back

(* The client meets the service, by the text of their addresses, exactly   *)
(* if it is at the same host and has the same pattern or, over TCP, a port *)
(* whose sum with the pattern is the same in 16 bits.                      *)
Meet == Len(sockets) = 2 /\ sockets[1].uri = sockets[2].uri
Host(b) == IF b.transport = "TCP" /\ b.name = << >> THEN <<"localhost">> ELSE b.name

MeetWhereMeant ==
  Len(sockets) = 2 =>
    LET a == sockets[1].base
        b == sockets[2].base
        ahead == a.number + Pattern[sockets[1].pattern] - b.number - Pattern[sockets[2].pattern]
    IN  Meet <=> /\ a.transport = b.transport /\ Host(a) = Host(b)
                 /\ IF a.transport = "TCP" THEN ahead \in {-65536, 0, 65536}
                    ELSE sockets[1].pattern = sockets[2].pattern

(* Where they meet, they speak the two sides of one protocol.              *)
PeersMeet ==
  Meet => {sockets[1].protocol, sockets[2].protocol}
            \in {{"REP", "REQ"}, {"PUB", "SUB"}, {"PULL", "PUSH"}}

(* What names a place is taken apart without loss: the path of a URI, from *)
(* either end, and the address of a socket.                                *)
PlacesKept == PopsEveryElement /\ MeetWhereMeant

(* The Reactor answers every query, whatever it says, but one that its     *)
(* service defers or whose method is missing or CONNECT; it answers no     *)
(* push.  The service's own handlers get only requests whose words, read   *)
(* straight from the line, are the method and a URI under the prefix.      *)
ReactorAnswers ==
  handled \notin {None, "published", "discarded"} =>
    LET line == Part(seen, 0, LineEnd(seen, 0))
        method == Element(line, 1)
        uri == IF Len(ElementOffsets(line)) > 1 THEN Element(line, 2) ELSE << >>
    IN  /\ out # None => asks
        /\ asks /\ out = None => handled = "deferred" \/ method \in {<< >>, <<"C">>}
        /\ handled \in {"async_get", "deferred"} => method = <<"G">> /\ IsPrefix(Prefix, uri)
        /\ handled # "error" => IsPrefix(Prefix, uri)

(* Of what is pushed, a method that demands a response is ignored.         *)
allowNoResponse(code) == code \notin {"G", "O", "C", "R"}

PushesIgnored ==
  handled \notin {None, "none", "error", "published", "discarded"} /\ ~asks =>
    allowNoResponse(MethodCode(MethodString(seen, ParseMsg(seen, "request"))))

(* Used in the documented order the writer never ends the program, as      *)
(* writeBody() noexcept promises.                                          *)
NeverEnds == ready => ~ended

(* After release the writer has been reset, ready for a new message, and   *)
(* what it releases parses.                                                *)
ReleasedParses == out # None => OK(ParseMsg(out, "unknown"))
=============================================================================
