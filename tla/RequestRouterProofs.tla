-------------------------- MODULE RequestRouterProofs --------------------------
(***************************************************************************)
(* For any messages, paths and Routes: a message is in one place, and what *)
(* gets it or answers it is registered under a prefix of its URI.          *)
(***************************************************************************)
EXTENDS RequestRouter, FiniteSetTheorems, SequenceTheorems, WellFoundedInduction, TLAPS

Reply == [copy : Copy, from : Path \cup {NotFound}]

(* The types, with the queues as sequences.                                *)
Typed ==
  /\ map \in [Path -> Route \cup {None}]
  /\ path \in [Route -> Path \cup {None}]
  /\ stage \in [Route -> {"none", "open", "closing", "deleted"}]
  /\ uri \in [Message -> Uri \cup {None}]
  /\ tries \in [Message -> 0 .. MaxTries]
  /\ inbound \in SUBSET Copy
  /\ ingest \in [Line -> Copy \cup {None}]
  /\ outbox \in [Route -> [Line -> Seq(Copy)]]
  /\ served \in [Route -> SUBSET Copy]
  /\ replies \in Seq(Reply)
  /\ answer \in [Request -> Path \cup {None, NotFound}]
  /\ lost \in SUBSET Copy
  /\ alive \in SUBSET ({"services"} \cup Line) /\ fault \in BOOLEAN

(* The directory lists open Routes under their paths, and a Route that is  *)
(* not made yet has nothing in it.                                         *)
TableSound ==
  /\ \A x \in Path : map[x] # None => path[map[x]] = x /\ stage[map[x]] = "open"
  /\ \A r \in Route :
       IF stage[r] = "none" THEN (\A l \in Line : outbox[r][l] = <<>>) /\ served[r] = {}
                            ELSE path[r] \in Path

(* The copies at each place of the path.                                   *)
Handling == {ingest[l] : l \in Line} \ {None}
Waiting == UNION {Held(r, l) : r \in Route, l \in Line}
Serving == UNION {served[r] : r \in Route}
Replying == {replies[i].copy : i \in 1 .. Len(replies)}

(* No place has a copy twice, and no two places have the same one.         *)
Distinct(q) == \A i, j \in 1 .. Len(q) : q[i] = q[j] => i = j

NoneTwice ==
  /\ \A l \in Line : ingest[l] # None => LineOf(ingest[l].msg) = l
  /\ \A r \in Route, l \in Line : Distinct(outbox[r][l])
  /\ \A r \in Route, l \in Line : \A c \in Held(r, l) : LineOf(c.msg) = l
  /\ \A r, s \in Route, l \in Line : r # s => Held(r, l) \cap Held(s, l) = {}
  /\ \A r, s \in Route : r # s => served[r] \cap served[s] = {}
  /\ \A i, j \in 1 .. Len(replies) : replies[i].copy = replies[j].copy => i = j

Apart(A, B, C, D, E, F) ==
  /\ A \cap (B \cup C \cup D \cup E \cup F) = {}
  /\ B \cap (C \cup D \cup E \cup F) = {}
  /\ C \cap (D \cup E \cup F) = {}
  /\ D \cap (E \cup F) = {}
  /\ E \cap F = {}

PlacesApart == Apart(inbound, Handling, Waiting, Serving, Replying, lost)

(* What is on its way, or answered, has been sent.                         *)
Underway == inbound \cup Handling \cup Waiting \cup Serving \cup Replying \cup lost
OnlySent ==
  /\ \A c \in Underway : c.try <= tries[c.msg]
  /\ \A m \in Message : tries[m] > 0 => uri[m] \in Uri
  /\ \A m \in Request : answer[m] # None => tries[m] > 0

(* Where a copy is, the service is one that matches its URI.               *)
Matched ==
  /\ \A r \in Route, l \in Line : \A c \in Held(r, l) : IsPrefix(path[r], uri[c.msg])
  /\ \A r \in Route : \A c \in served[r] : IsPrefix(path[r], uri[c.msg])
  /\ \A i \in 1 .. Len(replies) :
       replies[i].from # NotFound => IsPrefix(replies[i].from, uri[replies[i].copy.msg])
  /\ \A m \in Request : answer[m] \notin {None, NotFound} => IsPrefix(answer[m], uri[m])

RouterInv == Typed /\ TableSound /\ NoneTwice /\ PlacesApart /\ OnlySent /\ Matched

-----------------------------------------------------------------------------
USE NoneAssumption, TriesAssumption, KindAssumption

(* A queue with another element at its end.                                *)
LEMMA AppendHolds ==
  ASSUME NEW S, NEW q \in Seq(S), NEW e \in S
  PROVE  /\ {Append(q, e)[i] : i \in 1 .. Len(Append(q, e))} = {q[i] : i \in 1 .. Len(q)} \cup {e}
         /\ Distinct(q) /\ e \notin {q[i] : i \in 1 .. Len(q)} => Distinct(Append(q, e))
<1>1. /\ Append(q, e) \in Seq(S) /\ Len(Append(q, e)) = Len(q) + 1 /\ Len(q) \in Nat
      /\ \A i \in 1 .. Len(q) : Append(q, e)[i] = q[i]
      /\ Append(q, e)[Len(q) + 1] = e
  BY AppendProperties
<1> DEFINE a == Append(q, e)
<1> HIDE DEF a
<1>2. {a[i] : i \in 1 .. Len(a)} = {q[i] : i \in 1 .. Len(q)} \cup {e}
  <2>1. \A i \in 1 .. Len(a) : a[i] \in {q[j] : j \in 1 .. Len(q)} \cup {e}
    BY <1>1 DEF a
  <2>2. \A i \in 1 .. Len(q) : q[i] \in {a[j] : j \in 1 .. Len(a)}
    BY <1>1 DEF a
  <2>3. e \in {a[j] : j \in 1 .. Len(a)}
    BY <1>1 DEF a
  <2> QED
    BY <2>1, <2>2, <2>3, Zenon
<1>3. Distinct(q) /\ e \notin {q[i] : i \in 1 .. Len(q)} => Distinct(a)
  BY <1>1 DEF a, Distinct
<1> QED
  BY <1>2, <1>3 DEF a

(* A queue without its first element.                                      *)
LEMMA TailHolds ==
  ASSUME NEW S, NEW q \in Seq(S), q # <<>>
  PROVE  /\ Head(q) \in {q[i] : i \in 1 .. Len(q)}
         /\ {Tail(q)[i] : i \in 1 .. Len(Tail(q))} \subseteq {q[i] : i \in 1 .. Len(q)}
         /\ Distinct(q) => /\ Distinct(Tail(q))
                           /\ Head(q) \notin {Tail(q)[i] : i \in 1 .. Len(Tail(q))}
<1>1. /\ Head(q) = q[1] /\ Len(q) \in Nat /\ Len(q) > 0
      /\ Tail(q) \in Seq(S) /\ Len(Tail(q)) = Len(q) - 1
      /\ \A i \in 1 .. Len(Tail(q)) : Tail(q)[i] = q[i + 1]
  BY HeadTailProperties, EmptySeq
<1> DEFINE t == Tail(q)
<1> HIDE DEF t
<1>2. \A i \in 1 .. Len(t) : t[i] = q[i + 1] /\ i + 1 \in 2 .. Len(q)
  BY <1>1 DEF t
<1>3. Distinct(q) => Distinct(t) /\ \A i \in 1 .. Len(t) : t[i] # q[1]
  BY <1>1, <1>2 DEF Distinct
<1> QED
  BY <1>1, <1>2, <1>3 DEF t

(* Initially there are no messages and no services.                        *)
LEMMA RouterInit == Init => RouterInv
<1> SUFFICES ASSUME Init PROVE RouterInv
  OBVIOUS
<1>1. <<>> \in Seq(Copy) /\ <<>> \in Seq(Reply) /\ Len(<<>>) = 0
  OBVIOUS
<1>2. Typed
  <2>1. outbox \in [Route -> [Line -> Seq(Copy)]] /\ replies \in Seq(Reply)
    BY <1>1 DEF Init
  <2>2. fault \in BOOLEAN
    BY Zenon DEF Init
  <2> QED
    BY <2>1, <2>2 DEF Init, Typed, Line
<1>3. /\ \A r \in Route, l \in Line : outbox[r][l] = <<>> /\ Held(r, l) = {}
      /\ Handling = {} /\ Waiting = {} /\ Serving = {} /\ Replying = {}
      /\ inbound = {} /\ lost = {}
  <2>1. \A r \in Route, l \in Line : outbox[r][l] = <<>> /\ Held(r, l) = {}
    BY DEF Init, Held
  <2>2. Handling = {}
    BY DEF Init, Handling
  <2>3. Waiting = {} /\ Serving = {}
    BY <2>1 DEF Init, Waiting, Serving
  <2>4. Replying = {}
    BY DEF Init, Replying
  <2> QED
    BY <2>1, <2>2, <2>3, <2>4 DEF Init
<1>4. TableSound
  BY <1>3 DEF Init, TableSound
<1>5. NoneTwice
  BY <1>3 DEF Init, NoneTwice, Distinct
<1>6. PlacesApart /\ OnlySent
  BY <1>3 DEF Init, PlacesApart, Apart, OnlySent, Underway
<1>7. Matched
  BY <1>3 DEF Init, Matched
<1> QED
  BY <1>2, <1>4, <1>5, <1>6, <1>7 DEF RouterInv

(* A set of numbers has a least one.                                       *)
LEMMA LeastExists ==
  ASSUME NEW G \in SUBSET Nat, G # {}
  PROVE  \E n \in G : \A k \in G : n <= k
<1>1. PICK n \in G : \A k \in G : ~(<<k, n>> \in OpToRel(<, Nat))
  BY NatLessThanWellFounded, WFMin
<1>2. \A j, k \in Nat : j < k => <<j, k>> \in OpToRel(<, Nat)
  BY Zenon DEF OpToRel
<1>3. \A k \in G : ~(k < n) /\ k \in Nat /\ n \in Nat
  BY <1>1, <1>2, Zenon
<1> QED
  BY <1>3

(* PrefixMap::longest_prefix finds a longest one if there is any: the      *)
(* prefixes of a URI are not longer than the URI.                          *)
LEMMA LongestExists ==
  ASSUME Typed, NEW u \in Uri \ {Malformed}, Matching(u) # {}
  PROVE  /\ LongestPrefix(u) \in Matching(u)
         /\ \A y \in Matching(u) : Len(y) <= Len(LongestPrefix(u))
<1> DEFINE Gap(x) == Len(u) - Len(x)
           G == {Gap(x) : x \in Matching(u)}
<1>1. Len(u) \in Nat /\ \A x \in Matching(u) : Len(x) \in Nat /\ Len(x) <= Len(u)
  BY PathAssumption DEF Matching, IsPrefix
<1>2. G \subseteq Nat /\ G # {}
  BY <1>1
<1>3. PICK n \in G : \A k \in G : n <= k
  BY <1>2, LeastExists, Zenon
<1>4. \A y \in Matching(u) : n <= Gap(y)
  BY <1>3
<1>5. PICK x \in Matching(u) : n = Gap(x)
  BY <1>3
<1>6. \A y \in Matching(u) : Len(y) <= Len(x)
  BY <1>1, <1>4, <1>5
<1> QED
  BY <1>5, <1>6 DEF LongestPrefix

(* So RouteFound hands the message to a Route that is open, under a path   *)
(* that matches.                                                           *)
LEMMA FoundRoute ==
  ASSUME RouterInv, NEW l \in Line, Routing(l),
         Matching(uri[ingest[l].msg]) # {}
  PROVE  LET u == uri[ingest[l].msg]
             r == map[LongestPrefix(u)]
         IN  /\ ingest[l] \in Copy
             /\ r \in Route /\ stage[r] = "open" /\ path[r] = LongestPrefix(u)
             /\ IsPrefix(path[r], u)
<1> DEFINE u == uri[ingest[l].msg]
<1> USE DEF RouterInv
<1>1. ingest[l] \in Copy /\ u \in Uri \ {Malformed}
  <2>1. ingest[l] \in Copy /\ ingest[l] \in Handling
    BY DEF Routing, Typed, Handling
  <2>2. ingest[l].msg \in Message /\ tries[ingest[l].msg] \in Nat /\ ingest[l].try \in Nat \ {0}
    BY <2>1 DEF Copy, Typed
  <2>3. ingest[l].try <= tries[ingest[l].msg]
    BY <2>1 DEF OnlySent, Underway
  <2> QED
    BY <2>1, <2>2, <2>3 DEF OnlySent, Routing
<1> HIDE DEF u
<1>2. LongestPrefix(u) \in Matching(u)
  BY <1>1, LongestExists DEF u
<1>3. LongestPrefix(u) \in Path /\ map[LongestPrefix(u)] # None /\ IsPrefix(LongestPrefix(u), u)
  BY <1>2 DEF Matching
<1>4. map[LongestPrefix(u)] \in Route
  BY <1>3 DEF Typed
<1> QED
  BY <1>1, <1>2, <1>3, <1>4, Zenon DEF TableSound, u

(* Every step keeps the types.                                             *)
LEMMA TypedStep == RouterInv /\ Next => Typed'
<1> SUFFICES ASSUME RouterInv, Next PROVE Typed'
  OBVIOUS
<1>0. Typed
  BY DEF RouterInv
<1>1. ASSUME NEW m \in Message, NEW u \in Uri, Send(m, u) PROVE Typed'
  <2>1. [msg |-> m, try |-> 1] \in Copy
    BY DEF Copy
  <2> QED
    BY <1>0, <1>1, <2>1 DEF Send, Typed, tableVars
<1>2. ASSUME NEW m \in Request, Resend(m) PROVE Typed'
  <2>1. m \in Message /\ tries[m] \in 0 .. MaxTries /\ tries[m] + 1 \in 1 .. MaxTries
    BY <1>0, <1>2 DEF Typed, Message, Resend
  <2>2. [msg |-> m, try |-> tries[m] + 1] \in Copy
    BY <2>1 DEF Copy
  <2> QED
    BY <1>0, <1>2, <2>1, <2>2 DEF Resend, Typed, tableVars
<1>3. ASSUME NEW c \in inbound, Ingest(c) PROVE Typed'
  BY <1>0, <1>3, Zenon DEF Ingest, Typed, tableVars, clientVars
<1>4. ASSUME NEW l \in Line, IngestMalformed(l) PROVE Typed'
  BY <1>0, <1>4 DEF IngestMalformed, Done, Typed, tableVars, clientVars
<1>5. ASSUME NEW l \in Line, RouteFound(l) PROVE Typed'
  <2> DEFINE r == map[LongestPrefix(uri[ingest[l].msg])]
  <2>1. ingest[l] \in Copy /\ r \in Route
    BY <1>5, FoundRoute, Zenon DEF RouteFound
  <2> HIDE DEF r
  <2>2. outbox' = [outbox EXCEPT ![r][l] = Append(@, ingest[l])]
    BY <1>5, Zenon DEF RouteFound, r
  <2>3. Append(outbox[r][l], ingest[l]) \in Seq(Copy)
    BY <1>0, <2>1, AppendProperties DEF Typed
  <2>4. outbox' \in [Route -> [Line -> Seq(Copy)]]
    BY <1>0, <2>1, <2>2, <2>3 DEF Typed
  <2>5. ingest' \in [Line -> Copy \cup {None}]
    BY <1>0, <1>5, Zenon DEF Typed, RouteFound, Done
  <2> QED
    BY <1>0, <1>5, <2>4, <2>5, Zenon DEF RouteFound, Typed, tableVars, clientVars
<1>6. ASSUME NEW l \in Line, RouteNotFound(l) PROVE Typed'
  <2>1. ingest[l] \in Copy /\ ingest' \in [Line -> Copy \cup {None}]
    BY <1>0, <1>6 DEF RouteNotFound, Routing, Done, Typed
  <2>2. [copy |-> ingest[l], from |-> NotFound] \in Reply
    BY <2>1 DEF Reply
  <2>3. Append(replies, [copy |-> ingest[l], from |-> NotFound]) \in Seq(Reply)
    BY <1>0, <2>2, AppendProperties DEF Typed
  <2>4. replies' \in Seq(Reply) /\ lost' \in SUBSET Copy
    BY <1>0, <1>6, <2>1, <2>3, Zenon DEF RouteNotFound, Typed
  <2> QED
    BY <1>0, <1>6, <2>1, <2>4 DEF RouteNotFound, Typed, tableVars, clientVars
<1>7. ASSUME NEW l \in Line, RouteNowhere(l) PROVE Typed'
  <2>1. fault' \in BOOLEAN
    BY <1>7 DEF RouteNowhere
  <2> QED
    BY <1>0, <1>7, <2>1 DEF RouteNowhere, Typed, tableVars, clientVars
<1>8. ASSUME NEW r \in Route, NEW l \in Line, Forward(r, l) PROVE Typed'
  <2>1. outbox[r][l] \in Seq(Copy) /\ outbox[r][l] # <<>>
    BY <1>0, <1>8 DEF Forward, Typed
  <2>2. Head(outbox[r][l]) \in Copy /\ Tail(outbox[r][l]) \in Seq(Copy)
    BY <2>1, HeadTailProperties
  <2>3. outbox' \in [Route -> [Line -> Seq(Copy)]] /\ served' \in [Route -> SUBSET Copy]
    BY <1>0, <1>8, <2>2 DEF Forward, Typed
  <2> QED
    BY <1>0, <1>8, <2>3 DEF Forward, Typed, tableVars, clientVars
<1>9. ASSUME NEW r \in Route, NEW c \in Copy, Replied(r, c) PROVE Typed'
  <2>1. path[r] \in Path
    BY <1>9, Zenon DEF Replied, Open, RouterInv, TableSound
  <2>2. [copy |-> c, from |-> path[r]] \in Reply
    BY <2>1 DEF Reply
  <2>3. Append(replies, [copy |-> c, from |-> path[r]]) \in Seq(Reply)
    BY <1>0, <2>2, AppendProperties DEF Typed
  <2>4. replies' \in Seq(Reply) /\ served' \in [Route -> SUBSET Copy]
    BY <1>0, <1>9, <2>3 DEF Replied, Typed
  <2> QED
    BY <1>0, <1>9, <2>4 DEF Replied, Typed, tableVars, clientVars
<1>10. ASSUME Return PROVE Typed'
  <2>1. replies \in Seq(Reply) /\ replies # <<>>
    BY <1>0, <1>10 DEF Return, Typed
  <2>2. Head(replies) \in Reply /\ Tail(replies) \in Seq(Reply)
    BY <2>1, HeadTailProperties
  <2>3. Head(replies).from \in Path \cup {NotFound}
    BY <2>2 DEF Reply
  <2>4. answer' \in [Request -> Path \cup {None, NotFound}] /\ replies' \in Seq(Reply)
    BY <1>0, <1>10, <2>2, <2>3, Zenon DEF Return, Typed
  <2> QED
    BY <1>0, <1>10, <2>4, Zenon DEF Return, Typed, tableVars, clientVars
<1>11. ASSUME NEW x \in Path, NEW r \in Route, List(x, r) PROVE Typed'
  BY <1>0, <1>11 DEF List, Typed, clientVars
<1>12. ASSUME NEW x \in Path, Unlist(x) PROVE Typed'
  BY <1>0, <1>12 DEF Unlist, Typed, clientVars
<1>13. ASSUME NEW r \in Route, Delete(r) PROVE Typed'
  <2>1. /\ \A l \in Line : Held(r, l) \subseteq Copy
        /\ served[r] \subseteq Copy /\ <<>> \in Seq(Copy)
    <3>1. \A l \in Line : outbox[r][l] \in Seq(Copy)
      BY <1>0 DEF Typed
    <3>2. \A q \in Seq(Copy) : {q[i] : i \in 1 .. Len(q)} \subseteq Copy
      OBVIOUS
    <3> QED
      BY <1>0, <3>1, <3>2 DEF Held, Typed
  <2>2. UNION {Held(r, l) : l \in Line} \subseteq Copy
    BY <2>1
  <2>3. lost' \in SUBSET Copy
    <3> DEFINE A == UNION {Held(r, l) : l \in Line}
               B == {c \in served[r] : c.msg \in Request}
    <3>1. lost' = (lost \cup A) \cup B
      BY <1>13, Zenon DEF Delete
    <3>2. A \subseteq Copy /\ B \subseteq Copy /\ lost \subseteq Copy
      BY <1>0, <2>1, <2>2 DEF Typed
    <3> HIDE DEF A, B
    <3> QED
      BY <3>1, <3>2
  <2>4. outbox' \in [Route -> [Line -> Seq(Copy)]] /\ served' \in [Route -> SUBSET Copy]
    BY <1>0, <1>13, <2>1 DEF Delete, Typed
  <2> QED
    BY <1>0, <1>13, <2>3, <2>4 DEF Delete, Typed, clientVars
<1>14. ASSUME DestroyServices PROVE Typed'
  BY <1>0, <1>14 DEF DestroyServices, Typed, tableVars, clientVars
<1>15. ASSUME DestroyReply PROVE Typed'
  <2>1. \A i \in 1 .. Len(replies) : replies[i] \in Reply
    BY <1>0 DEF Typed
  <2>2. {replies[i].copy : i \in 1 .. Len(replies)} \subseteq Copy
    BY <2>1, Zenon DEF Reply
  <2>3. lost' \in SUBSET Copy
    BY <1>0, <1>15, <2>2, Zenon DEF DestroyReply, Typed
  <2>4. replies' \in Seq(Reply) /\ alive' \in SUBSET ({"services"} \cup Line)
    BY <1>15 DEF DestroyReply, Line
  <2> QED
    BY <1>0, <1>15, <2>3, <2>4 DEF DestroyReply, Typed, tableVars, clientVars
<1>16. ASSUME DestroyPull PROVE Typed'
  BY <1>0, <1>16 DEF DestroyPull, Typed, tableVars, clientVars
<1> QED
  BY <1>1, <1>2, <1>3, <1>4, <1>5, <1>6, <1>7, <1>8, <1>9, <1>10, <1>11, <1>12, <1>13, <1>14,
     <1>15, <1>16 DEF Next

-----------------------------------------------------------------------------
(* What a step does not touch holds what it held.                          *)
LEMMA SameQueues ==
  /\ outbox' = outbox => Waiting' = Waiting /\ \A r \in Route, l \in Line : Held(r, l)' = Held(r, l)
  /\ ingest' = ingest => Handling' = Handling
  /\ served' = served => Serving' = Serving
  /\ replies' = replies => Replying' = Replying
<1>1. outbox' = outbox => \A r \in Route, l \in Line : Held(r, l)' = Held(r, l)
  BY DEF Held
<1>2. outbox' = outbox => Waiting' = Waiting
  BY <1>1 DEF Waiting, Held
<1>3. ingest' = ingest => Handling' = Handling
  BY DEF Handling
<1>4. served' = served => Serving' = Serving
  BY DEF Serving
<1>5. replies' = replies => Replying' = Replying
  BY DEF Replying
<1> QED
  BY <1>1, <1>2, <1>3, <1>4, <1>5

(* The copies at the places are copies.                                    *)
LEMMA UnderwayType ==
  ASSUME Typed
  PROVE  /\ Underway \subseteq Copy
         /\ \A r \in Route, l \in Line : Held(r, l) \subseteq Waiting
         /\ \A r \in Route : served[r] \subseteq Serving
         /\ \A i \in 1 .. Len(replies) : replies[i] \in Reply /\ replies[i].copy \in Replying
         /\ \A l \in Line : ingest[l] # None => ingest[l] \in Handling
<1>1. \A r \in Route, l \in Line : Held(r, l) \subseteq Copy
  <2>1. \A r \in Route, l \in Line : outbox[r][l] \in Seq(Copy)
    BY DEF Typed
  <2>2. \A q \in Seq(Copy) : {q[i] : i \in 1 .. Len(q)} \subseteq Copy
    OBVIOUS
  <2> QED
    BY <2>1, <2>2 DEF Held
<1>2. Waiting \subseteq Copy /\ \A r \in Route, l \in Line : Held(r, l) \subseteq Waiting
  BY <1>1 DEF Waiting
<1>3. \A i \in 1 .. Len(replies) : replies[i] \in Reply
  BY DEF Typed
<1>4. Replying \subseteq Copy /\ \A i \in 1 .. Len(replies) : replies[i].copy \in Replying
  BY <1>3 DEF Replying, Reply
<1>5. Serving \subseteq Copy /\ \A r \in Route : served[r] \subseteq Serving
  BY DEF Serving, Typed
<1>6. Handling \subseteq Copy /\ \A l \in Line : ingest[l] # None => ingest[l] \in Handling
  BY DEF Handling, Typed
<1> QED
  BY <1>2, <1>3, <1>4, <1>5, <1>6 DEF Underway, Typed

(* A client sends a message, or sends it again: the copy is a new one, and *)
(* the URI of a message that is under way stays.                           *)
LEMMA SendKeeps ==
  ASSUME RouterInv, NEW m \in Message, tries[m] + 1 \in 1 .. MaxTries,
         tries' = [tries EXCEPT ![m] = @ + 1],
         inbound' = inbound \cup {[msg |-> m, try |-> tries[m] + 1]},
         \A k \in Message : tries[k] > 0 => uri'[k] = uri[k],
         uri'[m] \in Uri,
         UNCHANGED <<map, path, stage, ingest, outbox, served, replies, answer, lost>>
  PROVE  (TableSound /\ NoneTwice /\ PlacesApart /\ OnlySent /\ Matched)'
<1> DEFINE c == [msg |-> m, try |-> tries[m] + 1]
<1> USE DEF RouterInv
<1>1. c \in Copy /\ c.msg = m /\ c.try = tries[m] + 1 /\ tries[m] \in Nat
  BY DEF Copy, Typed
<1>2. /\ Waiting' = Waiting /\ \A r \in Route, l \in Line : Held(r, l)' = Held(r, l)
      /\ Handling' = Handling /\ Serving' = Serving /\ Replying' = Replying
  BY SameQueues
<1>3. /\ Underway \subseteq Copy
      /\ \A r \in Route, l \in Line : Held(r, l) \subseteq Waiting
      /\ \A r \in Route : served[r] \subseteq Serving
      /\ \A i \in 1 .. Len(replies) : replies[i] \in Reply /\ replies[i].copy \in Replying
  BY UnderwayType
<1>4. \A k \in Underway : k.msg \in Message /\ k.try \in Nat \ {0} /\ tries[k.msg] \in Nat
                          /\ k.try <= tries[k.msg]
  BY <1>3 DEF Copy, OnlySent, Typed
<1>5. c \notin Underway
  BY <1>1, <1>4
<1> HIDE DEF c
<1>6. Underway' = Underway \cup {c} /\ inbound' = inbound \cup {c}
  BY <1>2, Zenon DEF Underway, c
<1>7. TableSound'
  BY DEF TableSound
<1>8. NoneTwice'
  BY <1>2 DEF NoneTwice, Distinct
<1>9. PlacesApart'
  <2> USE DEF Apart
  <2>1. c \notin Handling \cup Waiting \cup Serving \cup Replying \cup lost
    BY <1>5 DEF Underway
  <2> QED
    BY <1>2, <1>6, <2>1 DEF PlacesApart
<1>10. \A k \in Message : tries'[k] \in Nat /\ tries'[k] >= tries[k] /\ (tries'[k] > 0 => uri'[k] \in Uri)
  BY DEF Typed, OnlySent
<1>11. OnlySent'
  <2>1. \A k \in Underway' : k.try <= tries'[k.msg]
    <3>1. c.try <= tries'[c.msg]
      BY <1>1 DEF Typed
    <3>2. \A k \in Underway : k.try <= tries'[k.msg]
      BY <1>4, <1>10
    <3> QED
      BY <1>6, <3>1, <3>2
  <2>2. \A k \in Request : answer'[k] # None => tries'[k] > 0
    BY <1>10 DEF OnlySent, Typed, Message
  <2> QED
    BY <1>10, <2>1, <2>2 DEF OnlySent
<1>12. \A k \in Underway : uri'[k.msg] = uri[k.msg]
  BY <1>4
<1>13. Matched'
  <2>1. \A k \in Waiting \cup Serving \cup Replying : uri'[k.msg] = uri[k.msg]
    BY <1>12 DEF Underway
  <2>2. \A r \in Route, l \in Line : \A k \in Held(r, l) : IsPrefix(path[r], uri'[k.msg])
    BY <1>3, <2>1, Zenon DEF Matched
  <2>3. \A r \in Route : \A k \in served[r] : IsPrefix(path[r], uri'[k.msg])
    BY <1>3, <2>1, Zenon DEF Matched
  <2>4. \A i \in 1 .. Len(replies) :
          replies[i].from # NotFound => IsPrefix(replies[i].from, uri'[replies[i].copy.msg])
    BY <1>3, <2>1, Zenon DEF Matched
  <2>5. \A k \in Request : answer[k] \notin {None, NotFound} => IsPrefix(answer[k], uri'[k])
    BY Zenon DEF Matched, OnlySent, Message
  <2> QED
    BY <1>2, <2>2, <2>3, <2>4, <2>5, Zenon DEF Matched
<1> QED
  BY <1>7, <1>8, <1>9, <1>11, <1>13

(* A step after which only copies that were under way are, and that leaves *)
(* the clients and their answers alone.                                    *)
LEMMA StillSent ==
  ASSUME OnlySent, UNCHANGED <<uri, tries, answer>>, Underway' \subseteq Underway
  PROVE  OnlySent'
  BY DEF OnlySent

(* A receive callback gets a copy.                                         *)
LEMMA IngestKeeps ==
  ASSUME RouterInv, NEW c \in inbound, Ingest(c)
  PROVE  (TableSound /\ NoneTwice /\ PlacesApart /\ OnlySent /\ Matched)'
<1> USE DEF RouterInv
<1>0. UNCHANGED <<map, path, stage, uri, tries, outbox, served, replies, answer, lost>>
  BY DEF Ingest, tableVars, clientVars
<1>1. /\ Waiting' = Waiting /\ \A r \in Route, l \in Line : Held(r, l)' = Held(r, l)
      /\ Serving' = Serving /\ Replying' = Replying
  BY <1>0, SameQueues
<1> DEFINE l == LineOf(c.msg)
<1>2. /\ l \in Line /\ c \in Copy /\ c # None /\ ingest[l] = None
      /\ ingest' = [ingest EXCEPT ![l] = c] /\ inbound' = inbound \ {c}
  BY DEF Ingest, Typed, Line, LineOf
<1>3. Handling' = Handling \cup {c}
  BY <1>2 DEF Handling, Typed
<1>4. TableSound' /\ Matched'
  <2>1. TableSound'
    BY <1>0, Zenon DEF TableSound
  <2>2. Matched'
    BY <1>0, <1>1, Zenon DEF Matched
  <2> QED
    BY <2>1, <2>2
<1>5. NoneTwice'
  <2>1. \A k \in Line : ingest'[k] # None => LineOf(ingest'[k].msg) = k
    BY <1>2, Zenon DEF NoneTwice, Typed
  <2> QED
    BY <1>0, <1>1, <2>1 DEF NoneTwice, Distinct
<1>6. PlacesApart'
  BY <1>0, <1>1, <1>2, <1>3 DEF PlacesApart, Apart
<1>7. Underway' \subseteq Underway
  BY <1>0, <1>1, <1>2, <1>3 DEF Underway
<1> QED
  BY <1>0, <1>4, <1>5, <1>6, <1>7, StillSent

(* A receive callback is done with its copy.                               *)
LEMMA DoneHandling ==
  ASSUME RouterInv, NEW l \in Line, ingest[l] # None, Done(l)
  PROVE  /\ ingest[l] \in Copy /\ ingest[l] \in Handling
         /\ Handling' = Handling \ {ingest[l]}
         /\ \A k \in Line : ingest'[k] # None => LineOf(ingest'[k].msg) = k
<1> USE DEF RouterInv
<1>1. ingest \in [Line -> Copy \cup {None}] /\ ingest' = [ingest EXCEPT ![l] = None]
  BY DEF Typed, Done
<1>2. \A k \in Line : ingest[k] # None => LineOf(ingest[k].msg) = k
  BY DEF NoneTwice
<1>3. \A k \in Line \ {l} : ingest'[k] = ingest[k] /\ ingest[k] # ingest[l]
  BY <1>1, <1>2
<1>4. ingest'[l] = None
  BY <1>1
<1>5. Handling' = Handling \ {ingest[l]}
  BY <1>3, <1>4 DEF Handling
<1> QED
  BY <1>1, <1>2, <1>3, <1>4, <1>5 DEF Handling

(* It discards the copy.                                                   *)
LEMMA DiscardKeeps ==
  ASSUME RouterInv, NEW l \in Line, ingest[l] # None, Done(l), lost' = lost \cup {ingest[l]},
         UNCHANGED <<map, path, stage, uri, tries, inbound, outbox, served, replies, answer>>
  PROVE  (TableSound /\ NoneTwice /\ PlacesApart /\ OnlySent /\ Matched)'
<1> USE DEF RouterInv
<1>1. /\ Waiting' = Waiting /\ \A r \in Route, k \in Line : Held(r, k)' = Held(r, k)
      /\ Serving' = Serving /\ Replying' = Replying
  BY SameQueues
<1>2. /\ ingest[l] \in Copy /\ ingest[l] \in Handling
      /\ Handling' = Handling \ {ingest[l]}
      /\ \A k \in Line : ingest'[k] # None => LineOf(ingest'[k].msg) = k
  BY DoneHandling
<1>3. TableSound'
  BY Zenon DEF TableSound
<1>4. Matched'
  BY <1>1, Zenon DEF Matched
<1>5. NoneTwice'
  BY <1>1, <1>2 DEF NoneTwice, Distinct
<1>6. PlacesApart'
  BY <1>1, <1>2 DEF PlacesApart, Apart
<1>7. Underway' \subseteq Underway
  BY <1>1, <1>2, Zenon DEF Underway
<1> QED
  BY <1>3, <1>4, <1>5, <1>6, <1>7, StillSent

(* A Route takes a copy into one of its outboxes.                          *)
LEMMA FoundKeeps ==
  ASSUME RouterInv, NEW l \in Line, RouteFound(l)
  PROVE  (TableSound /\ NoneTwice /\ PlacesApart /\ OnlySent /\ Matched)'
<1> USE DEF RouterInv
<1>0. /\ UNCHANGED <<map, path, stage, uri, tries, inbound, served, replies, answer, lost>>
      /\ ingest[l] # None /\ Done(l) /\ Routing(l) /\ Matching(uri[ingest[l].msg]) # {}
  BY Zenon DEF RouteFound, Routing, tableVars, clientVars
<1> DEFINE c == ingest[l]
<1>1. PICK r \in Route : /\ r = map[LongestPrefix(uri[c.msg])]
                         /\ stage[r] = "open" /\ IsPrefix(path[r], uri[c.msg])
  BY <1>0, FoundRoute, Zenon
<1>2. /\ c \in Copy /\ c \in Handling
      /\ Handling' = Handling \ {c}
      /\ \A k \in Line : ingest'[k] # None => LineOf(ingest'[k].msg) = k
      /\ LineOf(c.msg) = l
  BY <1>0, DoneHandling, Zenon DEF NoneTwice
<1>3. Serving' = Serving /\ Replying' = Replying
  BY <1>0, SameQueues, Zenon
<1>4. outbox' = [outbox EXCEPT ![r][l] = Append(@, c)] /\ outbox \in [Route -> [Line -> Seq(Copy)]]
  BY <1>1, Zenon DEF RouteFound, Typed
<1> HIDE DEF c
<1>5. /\ outbox'[r][l] = Append(outbox[r][l], c) /\ outbox[r][l] \in Seq(Copy)
      /\ \A s \in Route, k \in Line : s # r \/ k # l => outbox'[s][k] = outbox[s][k]
  BY <1>4
<1>6. c \notin Waiting
  BY <1>2, Zenon DEF PlacesApart, Apart
<1>7. \A s \in Route, k \in Line : Held(s, k) \subseteq Waiting
  BY UnderwayType
<1>8. Held(r, l)' = Held(r, l) \cup {c} /\ Distinct(outbox'[r][l])
  <2>1. Distinct(outbox[r][l]) /\ c \notin {outbox[r][l][i] : i \in 1 .. Len(outbox[r][l])}
    BY <1>6, <1>7, Zenon DEF NoneTwice, Held
  <2> QED
    BY <1>2, <1>5, <2>1, AppendHolds DEF Held
<1>9. ASSUME NEW s \in Route, NEW k \in Line, s # r \/ k # l
      PROVE  Held(s, k)' = Held(s, k)
  <2>1. outbox'[s][k] = outbox[s][k]
    BY <1>5, <1>9
  <2> QED
    BY <2>1, Zenon DEF Held
<1>10. Waiting' = Waiting \cup {c}
  <2>1. \A s \in Route, k \in Line : Held(s, k)' \subseteq Waiting \cup {c}
    BY <1>7, <1>8, <1>9, Zenon
  <2>2. \A s \in Route, k \in Line : Held(s, k) \subseteq Held(s, k)'
    BY <1>8, <1>9
  <2>3. Waiting' \subseteq Waiting \cup {c}
    BY <2>1 DEF Waiting
  <2>4. Waiting \subseteq Waiting'
    BY <2>2 DEF Waiting
  <2>5. c \in Waiting'
    BY <1>8 DEF Waiting
  <2> QED
    BY <2>3, <2>4, <2>5
<1>11. TableSound'
  <2>1. \A s \in Route, k \in Line : stage[s] = "none" => outbox'[s][k] = outbox[s][k]
    BY <1>1, <1>5, Zenon
  <2> QED
    BY <1>0, <2>1 DEF TableSound
<1>12. NoneTwice'
  <2>1. \A s \in Route, k \in Line : Distinct(outbox'[s][k])
    BY <1>5, <1>8, Zenon DEF NoneTwice
  <2>2. \A s \in Route, k \in Line : \A d \in Held(s, k)' : LineOf(d.msg) = k
    <3>1. \A s \in Route, k \in Line : \A d \in Held(s, k) : LineOf(d.msg) = k
      BY Zenon DEF NoneTwice
    <3>2. \A d \in Held(r, l)' : LineOf(d.msg) = l
      BY <1>2, <1>8, <3>1, Zenon
    <3> QED
      BY <1>9, <3>1, <3>2
  <2>3. \A s, t \in Route, k \in Line : s # t => Held(s, k)' \cap Held(t, k)' = {}
    <3>1. \A s, t \in Route, k \in Line : s # t => Held(s, k) \cap Held(t, k) = {}
      BY Zenon DEF NoneTwice
    <3>2. \A s \in Route, k \in Line : c \notin Held(s, k)
      BY <1>6, <1>7
    <3> SUFFICES ASSUME NEW s \in Route, NEW t \in Route, NEW k \in Line, s # t
                 PROVE  Held(s, k)' \cap Held(t, k)' = {}
      OBVIOUS
    <3>3. /\ Held(s, k)' = Held(s, k) \/ (s = r /\ k = l /\ Held(s, k)' = Held(s, k) \cup {c})
          /\ Held(t, k)' = Held(t, k) \/ (t = r /\ k = l /\ Held(t, k)' = Held(t, k) \cup {c})
      BY <1>8, <1>9, Zenon
    <3> QED
      BY <3>1, <3>2, <3>3
  <2> QED
    BY <1>0, <1>2, <2>1, <2>2, <2>3, Zenon DEF NoneTwice
<1>13. PlacesApart'
  BY <1>0, <1>2, <1>3, <1>10 DEF PlacesApart, Apart
<1>14. Underway' \subseteq Underway
  BY <1>0, <1>2, <1>3, <1>10, Zenon DEF Underway
<1>15. Matched'
  <2>1. \A s \in Route, k \in Line : \A d \in Held(s, k)' : IsPrefix(path[s], uri[d.msg])
    BY <1>1, <1>8, <1>9, Zenon DEF Matched, c
  <2> QED
    BY <1>0, <2>1, Zenon DEF Matched
<1> QED
  BY <1>0, <1>11, <1>12, <1>13, <1>14, <1>15, StillSent, Zenon

(* A reply is put in the outbox to the clients.                            *)
LEMMA ReplyQueued ==
  ASSUME Typed, NEW e \in Reply, replies' = Append(replies, e)
  PROVE  /\ Replying' = Replying \cup {e.copy}
         /\ \A i \in 1 .. Len(replies') :
              \/ i \in 1 .. Len(replies) /\ replies'[i] = replies[i]
              \/ i = Len(replies) + 1 /\ replies'[i] = e
         /\ (/\ e.copy \notin Replying
             /\ \A i, j \in 1 .. Len(replies) : replies[i].copy = replies[j].copy => i = j)
            => \A i, j \in 1 .. Len(replies') : replies'[i].copy = replies'[j].copy => i = j
<1>1. /\ replies \in Seq(Reply) /\ Len(replies') = Len(replies) + 1 /\ Len(replies) \in Nat
      /\ \A i \in 1 .. Len(replies) : replies'[i] = replies[i]
      /\ replies'[Len(replies) + 1] = e
  BY AppendProperties DEF Typed
<1>2. \A i \in 1 .. Len(replies') :
        \/ i \in 1 .. Len(replies) /\ replies'[i] = replies[i]
        \/ i = Len(replies) + 1 /\ replies'[i] = e
  BY <1>1
<1>3. Replying' \subseteq Replying \cup {e.copy}
  BY <1>2 DEF Replying
<1>4. \A i \in 1 .. Len(replies) : i \in 1 .. Len(replies')
  BY <1>1
<1>5. Replying \subseteq Replying'
  BY <1>1, <1>4, Zenon DEF Replying
<1>6. e.copy \in Replying'
  BY <1>1 DEF Replying
<1>7. ASSUME e.copy \notin Replying,
             \A i, j \in 1 .. Len(replies) : replies[i].copy = replies[j].copy => i = j
      PROVE  \A i, j \in 1 .. Len(replies') : replies'[i].copy = replies'[j].copy => i = j
  <2>1. \A i \in 1 .. Len(replies) : replies[i].copy # e.copy
    BY <1>7 DEF Replying
  <2> QED
    BY <1>2, <1>7, <2>1, Zenon
<1> QED
  BY <1>2, <1>3, <1>5, <1>6, <1>7, Zenon

(* A copy moves from the callback, or from a service, to the replies.      *)
LEMMA MovesToReplies ==
  ASSUME NEW A, NEW B, NEW C, NEW D, NEW E, NEW F, NEW c, NEW BB, NEW DD,
         Apart(A, B, C, D, E, F), c \in B \cup D,
         BB \subseteq B \ {c}, DD \subseteq D \ {c}
  PROVE  Apart(A, BB, C, DD, E \cup {c}, F)
<1>1. A \cap (BB \cup C \cup DD \cup (E \cup {c}) \cup F) = {}
  BY DEF Apart
<1>2. BB \cap (C \cup DD \cup (E \cup {c}) \cup F) = {}
  BY DEF Apart
<1>3. C \cap (DD \cup (E \cup {c}) \cup F) = {}
  BY DEF Apart
<1>4. DD \cap ((E \cup {c}) \cup F) = {}
  BY DEF Apart
<1>5. (E \cup {c}) \cap F = {}
  BY DEF Apart
<1> QED
  BY <1>1, <1>2, <1>3, <1>4, <1>5, Zenon DEF Apart

(* No service matches: the callback answers a request itself.              *)
LEMMA NotFoundKeeps ==
  ASSUME RouterInv, NEW l \in Line, RouteNotFound(l)
  PROVE  (TableSound /\ NoneTwice /\ PlacesApart /\ OnlySent /\ Matched)'
<1> USE DEF RouterInv
<1>0. /\ UNCHANGED <<map, path, stage, uri, tries, inbound, outbox, served, answer>>
      /\ ingest[l] # None /\ Done(l)
  BY Zenon DEF RouteNotFound, Routing, tableVars, clientVars
<1>1. CASE l # "request"
  BY <1>0, <1>1, DiscardKeeps, Zenon DEF RouteNotFound
<1>2. CASE l = "request"
  <2> DEFINE c == ingest[l]
             e == [copy |-> c, from |-> NotFound]
  <2>1. /\ c \in Copy /\ c \in Handling
        /\ Handling' = Handling \ {c}
        /\ \A k \in Line : ingest'[k] # None => LineOf(ingest'[k].msg) = k
    BY <1>0, DoneHandling, Zenon
  <2>2. replies' = Append(replies, e) /\ lost' = lost
    BY <1>2, Zenon DEF RouteNotFound
  <2>3. /\ Waiting' = Waiting /\ \A r \in Route, k \in Line : Held(r, k)' = Held(r, k)
        /\ Serving' = Serving
    BY <1>0, SameQueues
  <2> HIDE DEF c
  <2>4. e \in Reply /\ e.copy = c /\ e.from = NotFound
    BY <2>1 DEF Reply
  <2> HIDE DEF e
  <2>5. c \notin Replying
    BY <2>1 DEF PlacesApart, Apart
  <2>6. /\ Replying' = Replying \cup {c}
        /\ \A i \in 1 .. Len(replies') :
             \/ i \in 1 .. Len(replies) /\ replies'[i] = replies[i]
             \/ i = Len(replies) + 1 /\ replies'[i] = e
        /\ \A i, j \in 1 .. Len(replies') : replies'[i].copy = replies'[j].copy => i = j
    BY <2>2, <2>4, <2>5, ReplyQueued, Zenon DEF NoneTwice
  <2>7. TableSound'
    BY <1>0, Zenon DEF TableSound
  <2>8. NoneTwice'
    <3>1. \A r \in Route, k \in Line : Distinct(outbox'[r][k])
      BY <1>0, Zenon DEF NoneTwice
    <3>2. /\ \A r \in Route, k \in Line : \A d \in Held(r, k)' : LineOf(d.msg) = k
          /\ \A r, s \in Route, k \in Line : r # s => Held(r, k)' \cap Held(s, k)' = {}
      BY <2>3 DEF NoneTwice
    <3>3. \A r, s \in Route : r # s => served'[r] \cap served'[s] = {}
      BY <1>0, Zenon DEF NoneTwice
    <3> QED
      BY <2>1, <2>6, <3>1, <3>2, <3>3, Zenon DEF NoneTwice
  <2>9. PlacesApart'
    <3>1. Apart(inbound, Handling \ {c}, Waiting, Serving, Replying \cup {c}, lost)
      <4>1. c \notin Serving
        BY <2>1, Zenon DEF PlacesApart, Apart
      <4>2. c \in Handling \cup Serving /\ Serving \subseteq Serving \ {c}
        BY <2>1, <4>1
      <4> QED
        BY <4>2, MovesToReplies, Zenon DEF PlacesApart
    <3> QED
      BY <1>0, <2>1, <2>2, <2>3, <2>6, <3>1, Zenon DEF PlacesApart
  <2>10. Underway' \subseteq Underway
    BY <1>0, <2>1, <2>2, <2>3, <2>6, Zenon DEF Underway
  <2>11. Matched'
    <3>1. \A i \in 1 .. Len(replies') :
            replies'[i].from # NotFound => IsPrefix(replies'[i].from, uri[replies'[i].copy.msg])
      BY <2>4, <2>6, Zenon DEF Matched
    <3> QED
      BY <1>0, <2>3, <3>1, Zenon DEF Matched
  <2> QED
    BY <1>0, <2>7, <2>8, <2>9, <2>10, <2>11, StillSent
<1> QED
  BY <1>1, <1>2

(* An outbox hands its oldest copy to the service.                         *)
LEMMA ForwardKeeps ==
  ASSUME RouterInv, NEW r \in Route, NEW l \in Line, Forward(r, l)
  PROVE  (TableSound /\ NoneTwice /\ PlacesApart /\ OnlySent /\ Matched)'
<1> USE DEF RouterInv
<1>0. UNCHANGED <<map, path, stage, uri, tries, inbound, ingest, replies, answer, lost>>
  BY DEF Forward, tableVars, clientVars
<1> DEFINE c == Head(outbox[r][l])
<1>1. /\ outbox[r][l] \in Seq(Copy) /\ outbox[r][l] # <<>> /\ stage[r] # "none"
      /\ outbox'[r][l] = Tail(outbox[r][l])
      /\ \A s \in Route, k \in Line : s # r \/ k # l => outbox'[s][k] = outbox[s][k]
  BY DEF Forward, Open, Typed
<1>2. /\ served'[r] = served[r] \cup {c}
      /\ \A s \in Route \ {r} : served'[s] = served[s]
  BY Zenon DEF Forward, Typed
<1>3. Handling' = Handling /\ Replying' = Replying
  BY <1>0, SameQueues
<1>4. /\ c \in Held(r, l)
      /\ Held(r, l)' \subseteq Held(r, l) /\ c \notin Held(r, l)' /\ Distinct(outbox'[r][l])
  BY <1>1, TailHolds DEF NoneTwice, Held
<1> HIDE DEF c
<1>5. \A s \in Route, k \in Line : s # r \/ k # l => Held(s, k)' = Held(s, k)
  BY <1>1 DEF Held
<1>6. /\ \A s \in Route, k \in Line : Held(s, k) \subseteq Waiting
      /\ \A s \in Route : served[s] \subseteq Serving
  BY UnderwayType
<1>7. \A s \in Route, k \in Line : Held(s, k)' \subseteq Held(s, k) /\ c \notin Held(s, k)'
  <2>1. \A s \in Route, k \in Line : s # r \/ k # l => c \notin Held(s, k)
    <3>1. \A s \in Route : s # r => c \notin Held(s, l)
      BY <1>4, Zenon DEF NoneTwice
    <3>2. \A s \in Route, k \in Line : k # l => c \notin Held(s, k)
      BY <1>4, Zenon DEF NoneTwice
    <3> QED
      BY <3>1, <3>2
  <2> QED
    BY <1>4, <1>5, <2>1
<1>8. Waiting' \subseteq Waiting \ {c} /\ c \in Waiting
  <2>1. \A s \in Route, k \in Line : Held(s, k)' \subseteq Waiting \ {c}
    BY <1>6, <1>7, Zenon
  <2> QED
    BY <1>4, <1>6, <2>1 DEF Waiting
<1>9. Serving' = Serving \cup {c}
  BY <1>2, Zenon DEF Serving
<1>10. c \notin Serving
  BY <1>8 DEF PlacesApart, Apart
<1>11. TableSound'
  <2>1. \A s \in Route : stage[s] = "none" =>
          served'[s] = served[s] /\ \A k \in Line : outbox'[s][k] = outbox[s][k]
    BY <1>1, <1>2, Zenon
  <2> QED
    BY <1>0, <2>1 DEF TableSound
<1>12. NoneTwice'
  <2>1. \A s \in Route, k \in Line : Distinct(outbox'[s][k])
    BY <1>1, <1>4, Zenon DEF NoneTwice
  <2>2. \A s \in Route, k \in Line : \A d \in Held(s, k)' : LineOf(d.msg) = k
    BY <1>7, Zenon DEF NoneTwice
  <2>3. ASSUME NEW s \in Route, NEW t \in Route, NEW k \in Line, s # t
        PROVE  Held(s, k)' \cap Held(t, k)' = {}
    <3>1. Held(s, k)' \subseteq Held(s, k) /\ Held(t, k)' \subseteq Held(t, k)
      BY <1>7
    <3>2. Held(s, k) \cap Held(t, k) = {}
      BY <2>3, Zenon DEF NoneTwice
    <3> QED
      BY <3>1, <3>2
  <2>4. \A s, t \in Route : s # t => served'[s] \cap served'[t] = {}
    <3>1. \A s \in Route : c \notin served[s]
      BY <1>6, <1>10
    <3> QED
      BY <1>2, <3>1 DEF NoneTwice
  <2> QED
    BY <1>0, <2>1, <2>2, <2>3, <2>4, Zenon DEF NoneTwice
<1>13. PlacesApart'
  BY <1>0, <1>3, <1>8, <1>9 DEF PlacesApart, Apart
<1>14. Underway' \subseteq Underway
  BY <1>0, <1>3, <1>8, <1>9 DEF Underway
<1>15. Matched'
  <2>1. \A s \in Route, k \in Line : \A d \in Held(s, k)' : IsPrefix(path[s], uri[d.msg])
    BY <1>7, Zenon DEF Matched
  <2>2. \A s \in Route : \A d \in served'[s] : IsPrefix(path[s], uri[d.msg])
    BY <1>2, <1>4, Zenon DEF Matched
  <2> QED
    BY <1>0, <2>1, <2>2, Zenon DEF Matched
<1> QED
  BY <1>0, <1>11, <1>12, <1>13, <1>14, <1>15, StillSent

(* A service replies.                                                      *)
LEMMA RepliedKeeps ==
  ASSUME RouterInv, NEW r \in Route, NEW c \in Copy, Replied(r, c)
  PROVE  (TableSound /\ NoneTwice /\ PlacesApart /\ OnlySent /\ Matched)'
<1> USE DEF RouterInv
<1>0. UNCHANGED <<map, path, stage, uri, tries, inbound, ingest, outbox, answer, lost>>
  BY DEF Replied, tableVars, clientVars
<1> DEFINE e == [copy |-> c, from |-> path[r]]
<1>1. c \in served[r] /\ stage[r] # "none" /\ path[r] \in Path /\ IsPrefix(path[r], uri[c.msg])
  BY Zenon DEF Replied, Open, TableSound, Matched
<1>2. replies' = Append(replies, e)
  BY DEF Replied
<1>3. e \in Reply /\ e.copy = c /\ e.from = path[r]
  BY <1>1, Zenon DEF Reply
<1> HIDE DEF e
<1>4. /\ served'[r] = served[r] \ {c}
      /\ \A s \in Route \ {r} : served'[s] = served[s]
  BY Zenon DEF Replied, Typed
<1>5. /\ Waiting' = Waiting /\ \A s \in Route, k \in Line : Held(s, k)' = Held(s, k)
      /\ Handling' = Handling
  BY <1>0, SameQueues
<1>6. \A s \in Route : served'[s] \subseteq served[s] /\ c \notin served'[s]
  BY <1>1, <1>4, Zenon DEF NoneTwice
<1>7. Serving' \subseteq Serving \ {c} /\ c \in Serving
  BY <1>1, <1>6 DEF Serving
<1>8. c \notin Replying
  BY <1>7 DEF PlacesApart, Apart
<1>9. /\ Replying' = Replying \cup {c}
      /\ \A i \in 1 .. Len(replies') :
           \/ i \in 1 .. Len(replies) /\ replies'[i] = replies[i]
           \/ i = Len(replies) + 1 /\ replies'[i] = e
      /\ \A i, j \in 1 .. Len(replies') : replies'[i].copy = replies'[j].copy => i = j
  BY <1>2, <1>3, <1>8, ReplyQueued, Zenon DEF NoneTwice
<1>10. TableSound'
  <2>1. \A s \in Route : served[s] = {} => served'[s] = {}
    BY <1>6
  <2> QED
    BY <1>0, <2>1, Zenon DEF TableSound
<1>11. NoneTwice'
  <2>1. \A s, t \in Route : s # t => served'[s] \cap served'[t] = {}
    BY <1>6, Zenon DEF NoneTwice
  <2> QED
    BY <1>0, <1>5, <1>9, <2>1 DEF NoneTwice, Distinct
<1>12. PlacesApart'
  <2>1. Apart(inbound, Handling, Waiting, Serving', Replying \cup {c}, lost)
    <3>1. c \notin Handling
      BY <1>7, Zenon DEF PlacesApart, Apart
    <3>2. c \in Handling \cup Serving /\ Handling \subseteq Handling \ {c}
      BY <1>7, <3>1
    <3> QED
      BY <1>7, <3>2, MovesToReplies, Zenon DEF PlacesApart
  <2> QED
    BY <1>0, <1>5, <1>9, <2>1, Zenon DEF PlacesApart
<1>13. Underway' \subseteq Underway
  BY <1>0, <1>5, <1>7, <1>9, Zenon DEF Underway
<1>14. Matched'
  <2>1. \A s \in Route : \A d \in served'[s] : IsPrefix(path[s], uri[d.msg])
    BY <1>6, Zenon DEF Matched
  <2>2. \A i \in 1 .. Len(replies') :
          replies'[i].from # NotFound => IsPrefix(replies'[i].from, uri[replies'[i].copy.msg])
    BY <1>1, <1>3, <1>9, Zenon DEF Matched
  <2> QED
    BY <1>0, <1>5, <2>1, <2>2, Zenon DEF Matched
<1> QED
  BY <1>0, <1>10, <1>11, <1>12, <1>13, <1>14, StillSent

(* A reply leaves for its client.                                          *)
LEMMA ReturnKeeps ==
  ASSUME RouterInv, Return
  PROVE  (TableSound /\ NoneTwice /\ PlacesApart /\ OnlySent /\ Matched)'
<1> USE DEF RouterInv
<1>0. UNCHANGED <<map, path, stage, uri, tries, inbound, ingest, outbox, served, lost>>
  BY Zenon DEF Return, tableVars, clientVars
<1>1. /\ replies \in Seq(Reply) /\ Len(replies) \in Nat /\ Len(replies) > 0
      /\ Head(replies) = replies[1] /\ Len(replies') = Len(replies) - 1
      /\ \A i \in 1 .. Len(replies') : replies'[i] = replies[i + 1]
  BY HeadTailProperties, EmptySeq DEF Return, Typed
<1>2. \A i \in 1 .. Len(replies') : replies'[i] = replies[i + 1] /\ i + 1 \in 1 .. Len(replies)
  BY <1>1
<1>3. Replying' \subseteq Replying
  BY <1>2 DEF Replying
<1>4. /\ Waiting' = Waiting /\ \A s \in Route, k \in Line : Held(s, k)' = Held(s, k)
      /\ Handling' = Handling /\ Serving' = Serving
  BY <1>0, SameQueues
<1> DEFINE e == replies[1]
<1>5. e \in Reply /\ e.copy \in Copy /\ e.copy \in Underway
  BY <1>1, UnderwayType DEF Reply, Underway
<1>6. \A m \in Request : answer'[m] = answer[m] \/ (m = e.copy.msg /\ answer'[m] = e.from)
  BY <1>1, Zenon DEF Return, Typed
<1>7. tries[e.copy.msg] > 0
  <2>1. e.copy.try \in Nat \ {0} /\ tries[e.copy.msg] \in Nat /\ e.copy.try <= tries[e.copy.msg]
    BY <1>5 DEF Copy, Typed, OnlySent
  <2> QED
    BY <2>1
<1>8. e.from # NotFound => IsPrefix(e.from, uri[e.copy.msg])
  BY <1>1 DEF Matched
<1> HIDE DEF e
<1>9. TableSound'
  BY <1>0, Zenon DEF TableSound
<1>10. NoneTwice'
  <2>1. \A i, j \in 1 .. Len(replies') : replies'[i].copy = replies'[j].copy => i = j
    BY <1>1, <1>2 DEF NoneTwice
  <2> QED
    BY <1>0, <1>4, <2>1 DEF NoneTwice, Distinct
<1>11. PlacesApart'
  BY <1>0, <1>3, <1>4, Zenon DEF PlacesApart, Apart
<1>12. OnlySent'
  <2>1. Underway' \subseteq Underway
    BY <1>0, <1>3, <1>4 DEF Underway
  <2>2. \A m \in Request : answer'[m] # None => tries[m] > 0
    BY <1>6, <1>7, Zenon DEF OnlySent
  <2> QED
    BY <1>0, <2>1, <2>2, Zenon DEF OnlySent
<1>13. Matched'
  <2>1. \A i \in 1 .. Len(replies') :
          replies'[i].from # NotFound => IsPrefix(replies'[i].from, uri[replies'[i].copy.msg])
    BY <1>2, Zenon DEF Matched
  <2>2. \A m \in Request : answer'[m] \notin {None, NotFound} => IsPrefix(answer'[m], uri[m])
    BY <1>6, <1>8, Zenon DEF Matched
  <2> QED
    BY <1>0, <1>4, <2>1, <2>2, Zenon DEF Matched
<1> QED
  BY <1>9, <1>10, <1>11, <1>12, <1>13

(* The directory changes: a Route that is listed is new and has nothing    *)
(* yet, and one that is unlisted keeps its path.                           *)
LEMMA TableKeeps ==
  ASSUME RouterInv, UNCHANGED <<uri, tries, inbound, ingest, outbox, served, replies, answer, lost>>,
         TableSound', \A r \in Route : stage[r] # "none" => path'[r] = path[r]
  PROVE  (TableSound /\ NoneTwice /\ PlacesApart /\ OnlySent /\ Matched)'
<1> USE DEF RouterInv
<1>1. /\ Waiting' = Waiting /\ \A s \in Route, k \in Line : Held(s, k)' = Held(s, k)
      /\ Handling' = Handling /\ Serving' = Serving /\ Replying' = Replying
  BY SameQueues, Zenon
<1>2. NoneTwice'
  BY <1>1 DEF NoneTwice, Distinct
<1>3. PlacesApart' /\ Underway' \subseteq Underway
  BY <1>1, Zenon DEF PlacesApart, Apart, Underway
<1>4. Matched'
  <2>1. \A r \in Route : stage[r] = "none" => served[r] = {} /\ \A l \in Line : Held(r, l) = {}
    BY DEF TableSound, Held
  <2>2. \A r \in Route, l \in Line : \A c \in Held(r, l) : IsPrefix(path'[r], uri[c.msg])
    BY <2>1, Zenon DEF Matched
  <2>3. \A r \in Route : \A c \in served[r] : IsPrefix(path'[r], uri[c.msg])
    BY <2>1, Zenon DEF Matched
  <2> QED
    BY <1>1, <2>2, <2>3, Zenon DEF Matched
<1> QED
  BY <1>2, <1>3, <1>4, StillSent, Zenon

(* ~Route takes what is in its outboxes and the requests at its service.   *)
LEMMA DeleteKeeps ==
  ASSUME RouterInv, NEW r \in Route, Delete(r)
  PROVE  (TableSound /\ NoneTwice /\ PlacesApart /\ OnlySent /\ Matched)'
<1> USE DEF RouterInv
<1>0. UNCHANGED <<map, path, uri, tries, inbound, ingest, replies, answer>>
  BY DEF Delete, clientVars
<1> DEFINE Dropped == UNION {Held(r, l) : l \in Line}
           Cut == {c \in served[r] : c.msg \in Request}
<1>1. /\ \A l \in Line : outbox'[r][l] = <<>>
      /\ \A s \in Route \ {r}, l \in Line : outbox'[s][l] = outbox[s][l]
  BY Zenon DEF Delete, Typed
<1>2. /\ served'[r] = {c \in served[r] : c.msg \in Push}
      /\ \A s \in Route \ {r} : served'[s] = served[s]
  BY Zenon DEF Delete, Typed
<1>3. lost' = (lost \cup Dropped) \cup Cut
  BY Zenon DEF Delete
<1>4. Handling' = Handling /\ Replying' = Replying
  BY <1>0, SameQueues
<1>5. /\ \A l \in Line : Held(r, l)' = {}
      /\ \A s \in Route \ {r}, l \in Line : Held(s, l)' = Held(s, l)
  BY <1>1 DEF Held
<1>6. \A s \in Route, l \in Line : Held(s, l)' \subseteq Held(s, l)
  BY <1>5
<1>7. \A s \in Route \ {r}, l \in Line : Held(s, l) \cap Dropped = {}
  <2>1. ASSUME NEW s \in Route \ {r}, NEW l \in Line, NEW k \in Line, NEW c,
               c \in Held(s, l), c \in Held(r, k)
        PROVE  FALSE
    <3>1. LineOf(c.msg) = l /\ LineOf(c.msg) = k
      BY <2>1, Zenon DEF NoneTwice
    <3> QED
      BY <2>1, <3>1, Zenon DEF NoneTwice
  <2> QED
    BY <2>1
<1>8. Dropped \subseteq Waiting /\ Waiting' \subseteq Waiting /\ Waiting' \cap Dropped = {}
  <2>1. Dropped \subseteq Waiting
    BY DEF Waiting
  <2>2. Waiting' \subseteq Waiting
    BY <1>6 DEF Waiting
  <2>3. \A s \in Route, l \in Line : Held(s, l)' \cap Dropped = {}
    BY <1>5, <1>7
  <2> HIDE DEF Dropped
  <2>4. Waiting' \cap Dropped = {}
    BY <2>3 DEF Waiting
  <2> QED
    BY <2>1, <2>2, <2>4
<1>9. \A s \in Route : served'[s] \subseteq served[s] /\ served'[s] \cap Cut = {}
  <2>1. served'[r] \subseteq served[r] /\ served'[r] \cap Cut = {}
    BY <1>2
  <2>2. \A s \in Route \ {r} : served[s] \cap Cut = {}
    BY Zenon DEF NoneTwice
  <2> QED
    BY <1>2, <2>1, <2>2, Zenon
<1>10. Cut \subseteq Serving /\ Serving' \subseteq Serving /\ Serving' \cap Cut = {}
  BY <1>9, Zenon DEF Serving
<1> HIDE DEF Dropped, Cut
<1>11. TableSound'
  <2>1. /\ stage[r] = "closing" /\ stage'[r] = "deleted"
        /\ \A s \in Route \ {r} : stage'[s] = stage[s]
    BY Zenon DEF Delete, Typed
  <2>2. \A x \in Path : map[x] # None => map[x] \in Route \ {r}
    BY <2>1 DEF TableSound, Typed
  <2> QED
    BY <1>0, <1>1, <1>2, <2>1, <2>2 DEF TableSound
<1>12. NoneTwice'
  <2>1. \A s \in Route, l \in Line : Distinct(outbox'[s][l])
    BY <1>1 DEF NoneTwice, Distinct
  <2>2. /\ \A s \in Route, l \in Line : \A c \in Held(s, l)' : LineOf(c.msg) = l
        /\ \A s, t \in Route, l \in Line : s # t => Held(s, l)' \cap Held(t, l)' = {}
    BY <1>6 DEF NoneTwice
  <2>3. \A s, t \in Route : s # t => served'[s] \cap served'[t] = {}
    BY <1>9, Zenon DEF NoneTwice
  <2> QED
    BY <1>0, <2>1, <2>2, <2>3, Zenon DEF NoneTwice
<1>13. PlacesApart'
  BY <1>0, <1>3, <1>4, <1>8, <1>10, Zenon DEF PlacesApart, Apart
<1>14. Underway' \subseteq Underway
  BY <1>0, <1>3, <1>4, <1>8, <1>10 DEF Underway
<1>15. Matched'
  <2>1. \A s \in Route, l \in Line : \A c \in Held(s, l)' : IsPrefix(path[s], uri[c.msg])
    BY <1>6, Zenon DEF Matched
  <2>2. \A s \in Route : \A c \in served'[s] : IsPrefix(path[s], uri[c.msg])
    BY <1>9, Zenon DEF Matched
  <2> QED
    BY <1>0, <2>1, <2>2, Zenon DEF Matched
<1> QED
  BY <1>0, <1>11, <1>12, <1>13, <1>14, <1>15, StillSent

(* The outbox to the clients goes with the member reply.                   *)
LEMMA DestroyReplyKeeps ==
  ASSUME RouterInv, DestroyReply
  PROVE  (TableSound /\ NoneTwice /\ PlacesApart /\ OnlySent /\ Matched)'
<1> USE DEF RouterInv
<1>0. UNCHANGED <<map, path, stage, uri, tries, inbound, ingest, outbox, served, answer>>
  BY Zenon DEF DestroyReply, tableVars, clientVars
<1>1. /\ Waiting' = Waiting /\ \A s \in Route, k \in Line : Held(s, k)' = Held(s, k)
      /\ Handling' = Handling /\ Serving' = Serving
  BY <1>0, SameQueues
<1>2. lost' = lost \cup Replying /\ Len(replies') = 0 /\ Replying' = {}
  BY DEF DestroyReply, Replying
<1>3. TableSound'
  BY <1>0 DEF TableSound
<1>4. NoneTwice'
  BY <1>0, <1>1, <1>2 DEF NoneTwice, Distinct
<1>5. PlacesApart' /\ Underway' \subseteq Underway
  BY <1>0, <1>1, <1>2, Zenon DEF PlacesApart, Apart, Underway
<1>6. Matched'
  BY <1>0, <1>1, <1>2 DEF Matched
<1> QED
  BY <1>0, <1>3, <1>4, <1>5, <1>6, StillSent

(* Every step keeps the invariant.                                         *)
LEMMA RouterStep == RouterInv /\ [Next]_vars => RouterInv'
<1> SUFFICES ASSUME RouterInv, [Next]_vars
             PROVE  Typed' /\ (TableSound /\ NoneTwice /\ PlacesApart /\ OnlySent /\ Matched)'
  BY DEF RouterInv
<1> DEFINE Kept == (TableSound /\ NoneTwice /\ PlacesApart /\ OnlySent /\ Matched)'
<1>0. Typed /\ TableSound
  BY DEF RouterInv
<1>1. ASSUME NEW m \in Message, NEW u \in Uri, Send(m, u) PROVE Kept
  <2>1. /\ tries[m] = 0 /\ tries' = [tries EXCEPT ![m] = @ + 1] /\ uri'[m] = u
        /\ inbound' = inbound \cup {[msg |-> m, try |-> tries[m] + 1]}
        /\ \A k \in Message : tries[k] > 0 => uri'[k] = uri[k]
    BY <1>0, <1>1 DEF Send, Typed
  <2>2. tries[m] + 1 \in 1 .. MaxTries /\ uri'[m] \in Uri
    BY <2>1
  <2>3. UNCHANGED <<map, path, stage, ingest, outbox, served, replies, answer, lost>>
    BY <1>1, Zenon DEF Send, tableVars
  <2> QED
    BY <2>1, <2>2, <2>3, SendKeeps, Zenon
<1>2. ASSUME NEW m \in Request, Resend(m) PROVE Kept
  <2>1. m \in Message /\ tries[m] \in Nat /\ tries[m] > 0 /\ tries[m] + 1 \in 1 .. MaxTries
    BY <1>0, <1>2 DEF Message, Resend, Typed
  <2>2. uri'[m] \in Uri
    BY <1>2, <2>1, Zenon DEF Resend, RouterInv, OnlySent
  <2> QED
    BY <1>2, <2>1, <2>2, SendKeeps, Zenon DEF Resend, tableVars
<1>3. ASSUME NEW c \in inbound, Ingest(c) PROVE Kept
  BY <1>3, IngestKeeps
<1>4. ASSUME NEW l \in Line, IngestMalformed(l) PROVE Kept
  BY <1>4, DiscardKeeps, Zenon DEF IngestMalformed, tableVars, clientVars
<1>5. ASSUME NEW l \in Line, RouteFound(l) PROVE Kept
  BY <1>5, FoundKeeps
<1>6. ASSUME NEW l \in Line, RouteNotFound(l) PROVE Kept
  BY <1>6, NotFoundKeeps
<1>7. ASSUME UNCHANGED <<map, path, stage, uri, tries, inbound, ingest, outbox, served, replies,
                         answer, lost>>
      PROVE  Kept
  <2>1. TableSound'
    BY <1>0, <1>7, Zenon DEF TableSound
  <2> QED
    BY <1>7, <2>1, TableKeeps, Zenon
<1>8. ASSUME NEW r \in Route, NEW l \in Line, Forward(r, l) PROVE Kept
  BY <1>8, ForwardKeeps
<1>9. ASSUME NEW r \in Route, NEW c \in Copy, Replied(r, c) PROVE Kept
  BY <1>9, RepliedKeeps
<1>10. ASSUME Return PROVE Kept
  BY <1>10, ReturnKeeps
<1>11. ASSUME NEW x \in Path, NEW r \in Route, List(x, r) PROVE Kept
  <2>1. UNCHANGED <<uri, tries, inbound, ingest, outbox, served, replies, answer, lost>>
    BY <1>11, Zenon DEF List, clientVars
  <2>2. /\ stage[r] = "none"
        /\ map'[x] = r /\ path'[r] = x /\ stage'[r] = "open"
        /\ \A y \in Path \ {x} : map'[y] = map[y]
        /\ \A s \in Route \ {r} : path'[s] = path[s] /\ stage'[s] = stage[s]
    BY <1>0, <1>11, Zenon DEF List, Typed
  <2>3. \A y \in Path : map[y] # None => map[y] \in Route \ {r}
    BY <1>0, <2>2 DEF TableSound, Typed
  <2>4. TableSound'
    BY <1>0, <2>1, <2>2, <2>3 DEF TableSound
  <2>5. \A s \in Route : stage[s] # "none" => path'[s] = path[s]
    BY <2>2, Zenon
  <2> QED
    BY <2>1, <2>4, <2>5, TableKeeps, Zenon
<1>12. ASSUME NEW x \in Path, Unlist(x) PROVE Kept
  <2>1. UNCHANGED <<path, uri, tries, inbound, ingest, outbox, served, replies, answer, lost>>
    BY <1>12, Zenon DEF Unlist, clientVars
  <2>2. /\ map[x] # None /\ map'[x] = None
        /\ \A y \in Path \ {x} : map'[y] = map[y]
        /\ \A s \in Route \ {map[x]} : stage'[s] = stage[s]
        /\ stage'[map[x]] = "closing"
    BY <1>0, <1>12, Zenon DEF Unlist, Typed
  <2>3. \A y \in Path \ {x} : map[y] # None => map[y] \in Route \ {map[x]}
    BY <1>0, <2>2 DEF TableSound, Typed
  <2>4. TableSound'
    <3>1. \A y \in Path : map'[y] # None => path[map'[y]] = y /\ stage'[map'[y]] = "open"
      BY <1>0, <2>2, <2>3 DEF TableSound
    <3>2. map[x] \in Route /\ stage[map[x]] = "open" /\ path[map[x]] = x
      BY <1>0, <2>2 DEF TableSound, Typed
    <3>3. \A s \in Route :
            IF stage'[s] = "none" THEN (\A l \in Line : outbox[s][l] = <<>>) /\ served[s] = {}
                                  ELSE path[s] \in Path
      BY <1>0, <2>2, <3>2 DEF TableSound
    <3> QED
      BY <2>1, <3>1, <3>3, Zenon DEF TableSound
  <2> QED
    BY <2>1, <2>4, TableKeeps, Zenon
<1>13. ASSUME NEW r \in Route, Delete(r) PROVE Kept
  BY <1>13, DeleteKeeps
<1>14. ASSUME DestroyReply PROVE Kept
  BY <1>14, DestroyReplyKeeps
<1>15. CASE UNCHANGED vars
  <2>1. Typed'
    BY <1>0, <1>15, Zenon DEF Typed, vars
  <2> QED
    BY <1>7, <1>15, <2>1, Zenon DEF vars
<1>16. ASSUME DestroyServices \/ DestroyPull \/ \E l \in Line : RouteNowhere(l) PROVE Kept
  BY <1>7, <1>16, Zenon DEF DestroyServices, DestroyPull, RouteNowhere, tableVars, clientVars
<1>17. CASE Next
  <2>1. Typed'
    BY <1>17, TypedStep
  <2> HIDE DEF Kept
  <2>2. Kept
    BY <1>1, <1>2, <1>3, <1>4, <1>5, <1>6, <1>8, <1>9, <1>10, <1>11, <1>12, <1>13, <1>14,
       <1>16, <1>17, Zenon DEF Next
  <2> QED
    BY <2>1, <2>2 DEF Kept
<1> QED
  BY <1>15, <1>17

(* The inductive invariant holds in every reachable state.                 *)
THEOREM RouterInvariant == Spec => []RouterInv
  BY RouterInit, RouterStep, PTL DEF Spec

(* A set without two different members counts as none or one.              *)
LEMMA CountsOnce ==
  ASSUME NEW S, \A x, y \in S : x = y
  PROVE  IF S = {} THEN Cardinality(S) = 0 ELSE Cardinality(S) = 1
<1>1. CASE S = {}
  BY <1>1, FS_EmptySet
<1>2. CASE S # {}
  <2>1. PICK x \in S : TRUE
    BY <1>2
  <2>2. S = {x}
    BY <2>1
  <2> QED
    BY <1>2, <2>2, FS_Singleton, Zenon
<1> QED
  BY <1>1, <1>2

(* A copy is in at most one place, and the types are right.                *)
LEMMA InvOnePlace == RouterInv => OnePlace
<1> SUFFICES ASSUME RouterInv PROVE OnePlace
  OBVIOUS
<1> USE DEF RouterInv
<1>0. /\ Underway \subseteq Copy
      /\ \A r \in Route, l \in Line : Held(r, l) \subseteq Waiting
      /\ \A r \in Route : served[r] \subseteq Serving
      /\ \A i \in 1 .. Len(replies) : replies[i] \in Reply /\ replies[i].copy \in Replying
      /\ \A l \in Line : ingest[l] # None => ingest[l] \in Handling
  BY UnderwayType, Zenon
<1>1. TypeOK
  <2>1. \A r \in Route, l \in Line : Held(r, l) \subseteq {k \in Copy : LineOf(k.msg) = l}
    BY <1>0 DEF Underway, NoneTwice
  <2>2. \A i \in 1 .. Len(replies) :
          replies[i].copy \in Copy /\ replies[i].from \in Path \cup {NotFound}
    BY <1>0, Zenon DEF Reply
  <2> QED
    BY <2>1, <2>2, Zenon DEF TypeOK, Typed
<1>2. ASSUME NEW c \in Copy PROVE Places(c) <= 1
  <2> DEFINE B == {l \in Line : ingest[l] = c}
             C == {s \in Slots : outbox[s[1]][s[2]][s[3]] = c}
             D == {r \in Route : c \in served[r]}
             E == {i \in 1 .. Len(replies) : replies[i].copy = c}
  <2>1. (\A x, y \in B : x = y) /\ (B # {} => c \in Handling)
    BY <1>0, Zenon DEF NoneTwice
  <2>2. (\A x, y \in C : x = y) /\ (C # {} => c \in Waiting)
    <3>1. ASSUME NEW s \in C
          PROVE  \E r \in Route, l \in Line : \E i \in 1 .. Len(outbox[r][l]) :
                   s = <<r, l, i>> /\ outbox[r][l][i] = c
      BY DEF Slots
    <3>2. ASSUME NEW r \in Route, NEW l \in Line, NEW i \in 1 .. Len(outbox[r][l]),
                 NEW q \in Route, NEW k \in Line, NEW j \in 1 .. Len(outbox[q][k]),
                 outbox[r][l][i] = c, outbox[q][k][j] = c
          PROVE  r = q /\ l = k /\ i = j
      <4>1. c \in Held(r, l) /\ c \in Held(q, k)
        BY <3>2, Zenon DEF Held
      <4>2. l = k
        BY <4>1, Zenon DEF NoneTwice
      <4>3. r = q
        BY <4>1, <4>2, Zenon DEF NoneTwice
      <4> QED
        BY <3>2, <4>2, <4>3, Zenon DEF NoneTwice, Distinct
    <3>3. \A r \in Route, l \in Line : \A i \in 1 .. Len(outbox[r][l]) :
            outbox[r][l][i] = c => c \in Waiting
      BY <1>0, Zenon DEF Held
    <3> HIDE DEF C
    <3>4. ASSUME NEW s \in C, NEW t \in C PROVE s = t
      <4>1. PICK r \in Route, l \in Line : \E i \in 1 .. Len(outbox[r][l]) :
              s = <<r, l, i>> /\ outbox[r][l][i] = c
        BY <3>1, Zenon
      <4>2. PICK i \in 1 .. Len(outbox[r][l]) : s = <<r, l, i>> /\ outbox[r][l][i] = c
        BY <4>1, Zenon
      <4>3. PICK q \in Route, k \in Line : \E j \in 1 .. Len(outbox[q][k]) :
              t = <<q, k, j>> /\ outbox[q][k][j] = c
        BY <3>1, Zenon
      <4>4. PICK j \in 1 .. Len(outbox[q][k]) : t = <<q, k, j>> /\ outbox[q][k][j] = c
        BY <4>3, Zenon
      <4> QED
        BY <3>2, <4>2, <4>4
    <3> QED
      BY <3>1, <3>3, <3>4, Zenon
  <2>3. (\A x, y \in D : x = y) /\ (D # {} => c \in Serving)
    BY <1>0, Zenon DEF NoneTwice
  <2>4. (\A x, y \in E : x = y) /\ (E # {} => c \in Replying)
    BY <1>0, Zenon DEF NoneTwice
  <2> DEFINE One(S) == IF S = {} THEN Cardinality(S) = 0 ELSE Cardinality(S) = 1
  <2>5. One(B) /\ One(C) /\ One(D) /\ One(E)
    <3> HIDE DEF B, C, D, E
    <3> QED
      BY <2>1, <2>2, <2>3, <2>4, CountsOnce, Zenon
  <2>6. Places(c) = (IF c \in inbound THEN 1 ELSE 0) + Cardinality(B) + Cardinality(C)
                    + Cardinality(D) + Cardinality(E) + (IF c \in lost THEN 1 ELSE 0)
    BY Zenon DEF Places
  <2> HIDE DEF B, C, D, E
  <2> QED
    BY <2>1, <2>2, <2>3, <2>4, <2>5, <2>6 DEF PlacesApart, Apart
<1> QED
  BY <1>1, <1>2 DEF OnePlace

(* A copy of a message is in one place however services come and go, so it *)
(* is not answered twice nor answered and lost; and the service that gets  *)
(* or answers it is registered under a prefix of its URI.                  *)
THEOREM MessagesRoutedOnce == Spec => []RoutedOnceToMatch
<1>1. RouterInv => RoutedOnceToMatch
  BY InvOnePlace, Zenon DEF RoutedOnceToMatch, ServedByMatch, RouterInv, Matched
<1> QED
  BY <1>1, RouterInvariant, PTL
=============================================================================
