------------------------------ MODULE MsgFormat ------------------------------
(***************************************************************************)
(* The text of messages: MsgLayout and MsgView, which parse it             *)
(* (src/src/telling/msg_view.cpp, include/telling/msg_layout.h,            *)
(* msg_view.h, msg_headers.h, msg_util.h).                                 *)
(*                                                                         *)
(* A text is a sequence of symbols: the characters on which the parser     *)
(* decides, digits, "x" for any other, and one symbol for each whole word  *)
(* that it knows: "T" and "H" are the protocols Tell/0 and HTTP/1.1, "L"   *)
(* and "E" the names Content-Length and Transfer-Encoding, "K" the value   *)
(* chunked, and "G", "P", "O", "C" and "R" the methods GET, POST (which    *)
(* stands for HEAD, PUT, DELETE and PATCH too), OPTIONS, CONNECT and TRACE.*)
(***************************************************************************)
EXTENDS Naturals, Sequences, SequencesExt, FiniteSets

CONSTANTS
  None,
  MaxMethod, MaxProtocol, MaxReason,  \* the longest elements of a start-line
  MaxHead                             \* the largest uint16_t, 0xFFFF

ASSUME LimitsAssumption == {MaxMethod, MaxProtocol, MaxReason, MaxHead} \subseteq Nat

SP == " "
NL == "\n"
CR == "\r"

Part(s, from, len) == SubSeq(s, from + 1, from + len)
Has(s, chars) == \E i \in DOMAIN s : s[i] \in chars

(* The offset of the first of these characters at or after an offset, or   *)
(* the length.                                                             *)
FirstOf(s, chars, from) ==
  SelectInSubSeq(s \o <<CHOOSE c \in chars : TRUE>>, from + 1, Len(s) + 1, LAMBDA c : c \in chars) - 1

(* ConsumeLine: the offset where the line ends, and the next begins.       *)
LineEnd(s, from) == FirstOf(s, {NL, CR}, from)
NextLine(s, from) ==
  LET e == LineEnd(s, from)
  IN  IF e = Len(s) THEN e
      ELSE IF s[e + 1] = CR /\ e + 1 < Len(s) /\ s[e + 2] = NL THEN e + 2 ELSE e + 1

(* The offset after the empty line that ends the headers; 0 if the data    *)
(* end before.                                                             *)
RECURSIVE BodyOffset(_, _)
BodyOffset(s, from) ==
  IF LineEnd(s, from) = from THEN NextLine(s, from)
  ELSE IF NextLine(s, from) = Len(s) THEN 0
  ELSE BodyOffset(s, NextLine(s, from))

-----------------------------------------------------------------------------
(* Offsets of the up to four elements of the start-line.                   *)
ElementOffsets(line) ==
  LET spaces == SelectSeq([i \in DOMAIN line |-> i], LAMBDA i : line[i] = SP)
  IN  IF line = << >> THEN << >>
      ELSE <<0>> \o SubSeq(spaces, 1, IF Len(spaces) < 3 THEN Len(spaces) ELSE 3)

(* parts[k], empty if there is none.                                       *)
Element(line, k) ==
  LET at == ElementOffsets(line)
  IN  IF k > Len(at) THEN << >>
      ELSE IF k = 4 THEN Part(line, at[4], Len(line) - at[4])
      ELSE Part(line, at[k], FirstOf(line, {SP}, at[k]) - at[k])

IsProtocol(word) == word \in {<<"T">>, <<"H">>}

(* The type of a message that could be any: search backwards for a         *)
(* protocol, then for a first element that looks like one.                 *)
GuessType(line) ==
  LET n == Len(ElementOffsets(line))
  IN  IF n = 0 THEN "unknown"
      ELSE IF n = 1 THEN "report"
      ELSE IF n > 2 /\ IsProtocol(Element(line, 3)) THEN "request"
      ELSE IF IsProtocol(Element(line, 2)) THEN "report"
      ELSE IF Element(line, 1) = << >> \/ Has(Element(line, 1), {"/", "T", "H"}) THEN "reply"
      ELSE "request"

(* What _parse_msg leaves behind: the layout, or the error that it threw   *)
(* and the offset of the body if it had come that far.                     *)
Failed(e, body) == [error |-> e, p_body |-> body]
OK(l) == l.error = None

(***************************************************************************)
(* _setStartLine: the length of the line and of its end, the offset of the *)
(* URI, and the distance of the protocol and of the status from the end.   *)
(* A status is three characters if it comes last; with a reason after it   *)
(* the two are only known to be four.                                      *)
(***************************************************************************)
StatusFits_Unchecked(sts, reason) == TRUE

StatusFits(sts, reason) == sts = 0 \/ IF reason THEN sts >= 4 ELSE sts = 3

StartLine(line, eol, type, body) ==
  LET at == ElementOffsets(line)
      n  == Len(at)
      rpos(k) == IF k > n THEN 0 ELSE Len(line) - at[k]
      uri == IF type = "request" /\ n > 1 THEN at[2] ELSE 0
      prt == IF type = "request" THEN rpos(3) ELSE IF type = "reply" THEN Len(line) ELSE rpos(2)
      sts == IF type = "request" THEN 0       ELSE IF type = "reply" THEN rpos(2)   ELSE rpos(3)
      malformed ==
        \/ type = "unknown"
        \/ type = "request" /\ n \notin {2, 3}
        \/ type = "reply" /\ n < 2
  IN  IF Len(line \o eol) < 2 \/ Last(eol) # NL \/ malformed
      THEN Failed("START_LINE_MALFORMED", body)
      ELSE IF Len(line) > MaxHead \/ uri > MaxMethod + 1 \/ sts > MaxReason + 4 \/ prt > MaxReason + MaxProtocol + 5
      THEN Failed("HEADER_TOO_BIG", body)
      ELSE IF ~StatusFits(sts, n > (IF type = "reply" THEN 2 ELSE 3))
      THEN Failed("START_LINE_MALFORMED", body)
      ELSE [error |-> None, sl_len |-> Len(line), sl_nl |-> Len(eol),
            uri_pos |-> uri, prt_rpos |-> prt, sts_rpos |-> sts, p_body |-> body]

(* _parse_msg.  The start-line, and all before the body, are limited by    *)
(* the width of the offsets.                                               *)
ParseMsg(s, type) ==
  LET line == Part(s, 0, LineEnd(s, 0))
      head == NextLine(s, 0)
      body == BodyOffset(s, head)
  IN  IF Len(line) > MaxHead THEN Failed("HEADER_TOO_BIG", 0)
      ELSE IF s = << >> \/ head = Len(s) \/ body = 0 THEN Failed("HEADER_INCOMPLETE", 0)
      ELSE IF body > MaxHead THEN Failed("HEADER_TOO_BIG", 0)
      ELSE StartLine(line, Part(s, Len(line), head - Len(line)),
                     IF type = "unknown" THEN GuessType(line) ELSE type, body)

-----------------------------------------------------------------------------
(***************************************************************************)
(* MsgView: the ranges of the layout, and what the text has there.         *)
(***************************************************************************)
Less(a, b) == IF a > b THEN a - b ELSE 0
MsgType(l) ==
  IF l.uri_pos > 0 THEN "request"
  ELSE IF l.prt_rpos < l.sl_len THEN "report"
  ELSE IF l.prt_rpos >= l.sts_rpos + 1 THEN "reply" ELSE "unknown"

MethodString(s, l) == Part(s, 0, Less(l.uri_pos, 1))
UriString(s, l) ==
  IF l.prt_rpos >= l.sl_len THEN << >>
  ELSE Part(s, l.uri_pos, l.sl_len - l.uri_pos - l.prt_rpos - (IF l.prt_rpos > 0 THEN 1 ELSE 0))
ProtocolString(s, l) ==
  Part(s, l.sl_len - l.prt_rpos,
       IF l.prt_rpos = 0 THEN 0 ELSE l.prt_rpos - l.sts_rpos - (IF l.sts_rpos > 0 THEN 1 ELSE 0))
StatusString(s, l) == Part(s, l.sl_len - l.sts_rpos, IF l.sts_rpos > 0 THEN 3 ELSE 0)
Reason(s, l) == Part(s, l.sl_len + 4 - l.sts_rpos, Less(l.sts_rpos, 4))
BodyString(s, l) == Part(s, l.p_body, Len(s) - l.p_body)

(* parse_header: the name ends at the first colon, and blanks around the   *)
(* value are no part of it; without a colon all is value.                  *)
Trim(s) ==
  LET solid == {i \in DOMAIN s : s[i] # SP}
  IN  IF solid = {} THEN << >>
      ELSE SubSeq(s, CHOOSE i \in solid : \A j \in solid : i <= j,
                     CHOOSE i \in solid : \A j \in solid : i >= j)

ParseHeader(line) ==
  LET c == FirstOf(line, {":"}, 0)
  IN  IF c = Len(line) THEN [name |-> << >>, value |-> Trim(line)]
      ELSE [name |-> Part(line, 0, c), value |-> Trim(Part(line, c + 1, Len(line) - c - 1))]

(* headers(): the lines between the start-line and the empty line, whose   *)
(* end _string_rem_nl takes off.                                           *)
RECURSIVE HeadersFrom(_, _)
HeadersFrom(s, from) ==
  IF from >= Len(s) THEN << >>
  ELSE <<ParseHeader(Part(s, from, LineEnd(s, from) - from))>> \o HeadersFrom(s, NextLine(s, from))

Headers(s, l) ==
  LET text == Part(s, l.sl_len + l.sl_nl, l.p_body - l.sl_len - l.sl_nl)
      noNL == IF Last(text) = NL THEN Front(text) ELSE text
  IN  HeadersFrom(IF noNL # << >> /\ Last(noNL) = CR THEN Front(noNL) ELSE noNL, 0)

(* Status::toString and Parse; a status that is none has a text too.       *)
Digits == <<"0", "1", "2", "3", "4", "5", "6", "7", "8", "9">>
Decimal(s) ==
  FoldLeft(LAMBDA n, c : 10 * n + SelectInSeq(Digits, LAMBDA d : d = c) - 1, 0, s)
StatusText(code) ==
  IF code \notin 1 .. 999 THEN <<"x", "/", "x">>
  ELSE [i \in 1 .. 3 |-> Digits[((code \div 10^(3 - i)) % 10) + 1]]
ParseStatus(s) ==
  IF Len(s) = 3 /\ ToSet(s) \subseteq ToSet(Digits) THEN Decimal(s) ELSE 0

(* Method::Parse, and the codes in their order.                            *)
Methods == <<"G", "P", "O", "C", "R">>
MethodCode(word) ==
  IF word = << >> THEN "None"
  ELSE IF Len(word) = 1 /\ word[1] \in ToSet(Methods) THEN word[1] ELSE "Unknown"

(* MsgHeaderView::value_dec: the number the value begins with.             *)
ValueDec(s) == Decimal(SubSeq(s, 1, SelectInSeq(Append(s, SP), LAMBDA c : c \notin ToSet(Digits)) - 1))

(* completion(): whether the body is all there.  Of a chunked one without  *)
(* a length it never is.                                                   *)
Complete(s, l) ==
  LET lengths == SelectSeq(Headers(s, l), LAMBDA h : h.name = <<"L">>)
      chunked == \E i \in DOMAIN Headers(s, l) :
                   LET h == Headers(s, l)[i] IN h.name = <<"E">> /\ Has(h.value, {"K"})
  IN  IF lengths # << >> THEN Len(s) - l.p_body >= ValueDec(Last(lengths).value)
      ELSE ~chunked /\ ProtocolString(s, l) # <<"H">>

-----------------------------------------------------------------------------
(***************************************************************************)
(* Uri::front and back, the outermost elements of a path as offset and     *)
(* length, and what pop_front and pop_back leave of it.                    *)
(***************************************************************************)
FrontRange(u) ==
  LET beg == SelectInSeq(Append(u, "x"), LAMBDA c : c # "/") - 1
  IN  <<beg, FirstOf(u, {"/"}, beg) - beg>>

BackRange(u) ==
  LET end == SelectLastInSeq(u, LAMBDA c : c # "/")
      beg == SelectLastInSeq(SubSeq(u, 1, end), LAMBDA c : c = "/")
  IN  IF end = 0 THEN <<Len(u), 0>> ELSE <<beg, end - beg>>

PopFront(u) == LET r == FrontRange(u)
               IN  IF r[2] = 0 THEN u ELSE SubSeq(u, r[1] + r[2] + 1, Len(u))
PopBack(u)  == LET r == BackRange(u)
               IN  IF r[2] = 0 THEN u ELSE SubSeq(u, 1, r[1])
=============================================================================
