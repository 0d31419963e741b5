--------------------------- MODULE RequestParser ---------------------------
(***************************************************************************)
(* HttpRequestParser: the automaton of http/http11_parser.rl.cc, one       *)
(* definition for each group of states, and the callbacks and execute() of *)
(* http/http_parser.cpp that make a request of what it marks.              *)
(*                                                                         *)
(* A step takes the phase and a character to the next phase and the        *)
(* actions of the transition, in their order.  The states of a target      *)
(* exist twice: in a request line, and behind the "@" of a JSON message    *)
(* (j = TRUE), which has no query and no fragment.  on_request_uri and     *)
(* on_request_header_done are empty and left out.  The control characters  *)
(* 2 to 6, which the rules of IPv6address name where they mean a number of *)
(* repetitions, are not among the characters.                              *)
(***************************************************************************)
EXTENDS Http, FiniteSets

LOCAL U == INSTANCE Uri

Goto(ph) == [ph |-> ph, acts |-> <<>>]
Do(ph, acts) == [ph |-> ph, acts |-> acts]
Err == Goto(<<"error">>)
Pct(ph) == Goto(<<"pct", 2, ph>>)
Marked(act, step) == [step EXCEPT !.acts = <<act>> \o @]

-----------------------------------------------------------------------------
\* The first character; a method of at most 20 characters.
Start(c) ==
  CASE c \in Upper \cup Digit -> Do(<<"method", 1>>, <<"mark">>)
    [] c = "<"                -> Do(<<"xml">>, <<"mark">>)
    [] c = "@"                -> Do(<<"target", TRUE>>, <<"mark">>)
    [] OTHER                  -> Err

Method(c, n) ==
  CASE c = SP -> Do(<<"target", FALSE>>, <<"method">>)
    [] c \in Upper \cup Digit /\ n < 20 -> Goto(<<"method", n + 1>>)
    [] OTHER -> Err

\* Behind a path: the version or the data, the query, the fragment.
AfterPath(c, j) ==
  CASE c = SP         -> Do(IF j THEN <<"json0">> ELSE <<"http", 1>>, <<"path">>)
    [] c = "#" /\ ~j  -> Do(<<"fragment0">>, <<"path">>)
    [] c = "?" /\ ~j  -> Do(<<"query0">>, <<"path">>)
    [] OTHER          -> Err

\* The first character of a target, and a first segment that is no scheme.  The
\* mark of a JSON target is already set, at its "@".
Target(c, j) ==
  LET step == CASE c \in Alpha /\ ~j -> Goto(<<"scheme">>)
                [] c \in regchar \cup {"@"} /\ (j \/ c \notin Alpha) -> Goto(<<"segment", j>>)
                [] c = "/" -> Goto(<<"slash", j>>)
                [] c = "%" -> Pct(<<"segment", j>>)
                [] OTHER -> AfterPath(c, j)
  IN IF j \/ step = Err THEN step ELSE Marked("mark", step)

SegmentNzNc(c, j) ==
  CASE c \in regchar \cup {"@"} -> Goto(<<"segment", j>>)
    [] c = "/"                  -> Goto(<<"path", j>>)
    [] c = "%"                  -> Pct(<<"segment", j>>)
    [] OTHER                    -> AfterPath(c, j)

Scheme(c) ==
  CASE c \in Alpha \cup Digit \cup {"+", "-", "."} -> Goto(<<"scheme">>)
    [] c = ":" -> Goto(<<"hier">>)
    [] OTHER   -> SegmentNzNc(c, FALSE)

\* Behind "scheme:" the mark is set again: the path does not hold the scheme.
HierPart(c) ==
  LET step == CASE c \in pchar -> Goto(<<"path", FALSE>>)
                [] c = "/"     -> Goto(<<"slash", FALSE>>)
                [] c = "%"     -> Pct(<<"path", FALSE>>)
                [] OTHER       -> AfterPath(c, FALSE)
  IN IF step = Err THEN step ELSE Marked("mark", step)

Slash(c, j) ==
  CASE c \in pchar -> Goto(<<"path", j>>)
    [] c = "/"     -> Goto(<<"authority", j>>)
    [] c = "%"     -> Pct(<<"path", j>>)
    [] OTHER       -> AfterPath(c, j)

Path(c, j) ==
  CASE c \in pchar \cup {"/"} -> Goto(<<"path", j>>)
    [] c = "%"                -> Pct(<<"path", j>>)
    [] OTHER                  -> AfterPath(c, j)

\* Behind "?" and "#"; their first character sets the start.
Query(c) ==
  CASE c \in pchar \cup {"/", "?"} -> Goto(<<"query">>)
    [] c = "%"                     -> Pct(<<"query">>)
    [] c = SP                      -> Do(<<"http", 1>>, <<"query">>)
    [] c = "#"                     -> Do(<<"fragment0">>, <<"query">>)
    [] OTHER                       -> Err

Fragment(c) ==
  CASE c \in pchar \cup {"/", "?"} -> Goto(<<"fragment">>)
    [] c = "%"                     -> Pct(<<"fragment">>)
    [] c = SP                      -> Do(<<"http", 1>>, <<"fragment">>)
    [] OTHER                       -> Err

-----------------------------------------------------------------------------
\* An authority belongs to the path; only its syntax is looked at.
EndAuthority(c, j) == IF c = "/" THEN Goto(<<"path", j>>) ELSE AfterPath(c, j)

\* Behind "//": a name that is a host unless an "@" follows.
Authority(c, j, first) ==
  CASE c \in regchar      -> Goto(<<"name", j>>)
    [] c = "%"            -> Pct(<<"name", j>>)
    [] c = ":"            -> Goto(<<"colon", j>>)
    [] c = "@"            -> Goto(<<"at", j>>)
    [] c = "[" /\ first   -> Goto(<<"literal", j, <<"literal">>>>)
    [] OTHER              -> EndAuthority(c, j)

Colon(c, j) ==
  CASE c \in Digit                        -> Goto(<<"colon", j>>)
    [] c \in (regchar \ Digit) \cup {":"} -> Goto(<<"userinfo", j>>)
    [] c = "%"                            -> Pct(<<"userinfo", j>>)
    [] c = "@"                            -> Goto(<<"at", j>>)
    [] OTHER                              -> EndAuthority(c, j)

UserInfo(c, j) ==
  CASE c \in regchar \cup {":"} -> Goto(<<"userinfo", j>>)
    [] c = "%"                  -> Pct(<<"userinfo", j>>)
    [] c = "@"                  -> Goto(<<"at", j>>)
    [] OTHER                    -> Err

Host(c, j, first) ==
  CASE c \in regchar      -> Goto(<<"host", j>>)
    [] c = "%"            -> Pct(<<"host", j>>)
    [] c = ":"            -> Goto(<<"port", j>>)
    [] c = "[" /\ first   -> Goto(<<"literal", j, <<"literal">>>>)
    [] OTHER              -> EndAuthority(c, j)

Port(c, j) == IF c \in Digit THEN Goto(<<"port", j>>) ELSE EndAuthority(c, j)

\* "1" - "9" and "0" - "4" are differences of sets in the rule: "1" and "0".
dec_octet(t) ==
  /\ ToSet(t) \subseteq Digit
  /\ \/ Len(t) = 1
     \/ Len(t) \in {2, 3} /\ t[1] = "1"
     \/ Len(t) = 3 /\ t[1] = "2" /\ t[2] = "0"
     \/ t = <<"2", "5", "0">>

OctetPrefix(t) == dec_octet(t) \/ t \in {<<>>, <<"2", "0">>, <<"2", "5">>}

\* Nothing or enough groups in front of "::", and at most three behind it.
Behind(f) == {b \in 0 .. 3 : f = 0 \/ f + b >= 7}

LOCAL Ip == INSTANCE IpLiteral WITH Full <- 0

IpLiteral(at, c, j) ==
  LET ph == Ip!Step(at, c)
  IN CASE ph = Ip!End -> Goto(<<"literalEnd", j>>)
       [] ph = Ip!Bad -> Err
       [] OTHER       -> Goto(<<"literal", j, ph>>)

LiteralEnd(c, j) == IF c = ":" THEN Goto(<<"port", j>>) ELSE EndAuthority(c, j)

-----------------------------------------------------------------------------
\* "HTTP/1." and 0 or 1, then the end of the line.
Version(c, k) ==
  CASE k = 9 -> IF c = CR THEN Do(<<"lf">>, <<"version">>)
                ELSE IF c = LF THEN Do(<<"line">>, <<"version">>) ELSE Err
    [] k = 8 -> IF c \in {"0", "1"} THEN Goto(<<"http", 9>>) ELSE Err
    [] OTHER -> IF c = <<"H", "T", "T", "P", "/", "1", ".">>[k]
                THEN Do(<<"http", k + 1>>, IF k = 1 THEN <<"mark">> ELSE <<>>) ELSE Err

\* HTTP_CTL of the rules is the characters NUL and DEL: 0 - 31 is a difference.
Token(c) == c \notin Separator \cup {NUL, DEL, "NA"}

\* The start of a header line; behind its CR a name may still begin with it.
Line(c) ==
  CASE c = LF   -> Do(<<"done">>, <<"field_start">>)
    [] c = CR   -> Do(<<"line CR">>, <<"field_start">>)
    [] c \notin {LF, CR} /\ Token(c) -> Do(<<"name1">>, <<"field_start">>)
    [] OTHER    -> Err

LineCR(c) ==
  CASE c = LF  -> Goto(<<"done">>)
    [] c = ":" -> Do(<<"value0">>, <<"field_len">>)
    [] c # LF /\ Token(c) -> Goto(<<"name1">>)
    [] OTHER   -> Err

FieldName(c) ==
  CASE Token(c) -> Goto(<<"name1">>)
    [] c = ":"  -> Do(<<"value0">>, <<"field_len">>)
    [] OTHER    -> Err

FieldValue(c) ==
  CASE c = LF               -> Do(<<"line">>, <<"field">>)
    [] c = CR               -> Do(<<"lf">>, <<"field">>)
    [] c \in {NUL, DEL}     -> Err
    [] OTHER                -> Goto(<<"value">>)

\* White space in front of a value is skipped: it sets the mark again and again.
FieldValue0(c) ==
  LET step == IF c \in {SP, TAB} THEN Goto(<<"value0">>) ELSE FieldValue(c)
  IN IF step = Err THEN step ELSE Marked("mark", step)

-----------------------------------------------------------------------------
\* "<name ... >" and "@target { ... }", each with a NUL behind it.
Xml(c, first) ==
  CASE c \in Alpha \cup Digit \cup {"-", "."} -> Goto(<<"xml1">>)
    [] c \in {TAB, LF, CR, SP, "/", ">"} /\ ~first -> Do(<<"xml2">>, <<"path">>)
    [] OTHER -> Err

XmlData(c, closed) ==
  CASE c = ">"             -> Goto(<<"xml3">>)
    [] c = NUL /\ closed   -> Goto(<<"done">>)
    [] OTHER               -> Goto(<<"xml2">>)

Json0(c) == IF c = "{" THEN Do(<<"json1">>, <<"mark">>) ELSE Err

JsonData(c, closed) ==
  CASE c = "}"             -> Goto(<<"json2">>)
    [] c = NUL /\ closed   -> Goto(<<"done">>)
    [] OTHER               -> Goto(<<"json1">>)

\* The states of a target, in the copy of a request line and in that of a JSON
\* message.
InTarget(at, c, j) ==
  CASE at[1] = "target"     -> Target(c, j)
    [] at[1] = "segment"    -> SegmentNzNc(c, j)
    [] at[1] = "slash"      -> Slash(c, j)
    [] at[1] = "path"       -> Path(c, j)
    [] at[1] = "authority"  -> Authority(c, j, TRUE)
    [] at[1] = "name"       -> Authority(c, j, FALSE)
    [] at[1] = "colon"      -> Colon(c, j)
    [] at[1] = "userinfo"   -> UserInfo(c, j)
    [] at[1] = "at"         -> Host(c, j, TRUE)
    [] at[1] = "host"       -> Host(c, j, FALSE)
    [] at[1] = "port"       -> Port(c, j)
    [] at[1] = "literal"    -> IpLiteral(at[3], c, j)
    [] at[1] = "literalEnd" -> LiteralEnd(c, j)

LineTarget(at, c) == InTarget(at, c, FALSE)
JsonTarget(at, c) == InTarget(at, c, TRUE)

\* The switch over the states.
Step(at, c) ==
  CASE at[1] = "start"      -> Start(c)
    [] at[1] = "method"     -> Method(c, at[2])
    [] at[1] = "scheme"     -> Scheme(c)
    [] at[1] = "hier"       -> HierPart(c)
    [] at[1] = "query0"     -> Marked("query_start", Query(c))
    [] at[1] = "query"      -> Query(c)
    [] at[1] = "fragment0"  -> Marked("mark", Fragment(c))
    [] at[1] = "fragment"   -> Fragment(c)
    [] at[1] = "pct"        -> U!PctDigit(at, c)
    [] at[1] = "http"       -> Version(c, at[2])
    [] at[1] = "line"       -> Line(c)
    [] at[1] = "line CR"    -> LineCR(c)
    [] at[1] = "name1"      -> FieldName(c)
    [] at[1] = "value0"     -> FieldValue0(c)
    [] at[1] = "value"      -> FieldValue(c)
    [] at[1] = "lf"         -> IF c = LF THEN Goto(<<"line">>) ELSE Err
    [] at[1] = "xml"        -> Xml(c, TRUE)
    [] at[1] = "xml1"       -> Xml(c, FALSE)
    [] at[1] = "xml2"       -> XmlData(c, FALSE)
    [] at[1] = "xml3"       -> XmlData(c, TRUE)
    [] at[1] = "json0"      -> Json0(c)
    [] at[1] = "json1"      -> JsonData(c, FALSE)
    [] at[1] = "json2"      -> JsonData(c, TRUE)
    [] OTHER                -> IF at[2] THEN JsonTarget(at, c) ELSE LineTarget(at, c)

-----------------------------------------------------------------------------
\* The parser: the phase, the offsets in the buffer of the current call, m_error
\* and the request so far.
NewParser == [at |-> <<"start">>, mark |-> 0, field_start |-> 0, field_len |-> 0,
              query_start |-> 0, error |-> 0, throw |-> FALSE, data |-> NewHttpRequest]

\* on_request_version: strncmp over the length of the text, which may be 0.
VersionOf(t) ==
  CASE IsPrefix(t, Text("HTTP/1.1")) -> 11
    [] ~IsPrefix(t, Text("HTTP/1.1")) /\ IsPrefix(t, Text("HTTP/1.0")) -> 10
    [] OTHER -> 0

\* One action, with the character at offset p of buf: a mark or a callback.  Of an
\* offset behind p the length is negative and std::string throws.
Act(m, act, buf, p) ==
  LET From(o) == SubSeq(buf, o + 1, p)
      Set(f, v) == [m EXCEPT !.data[f] = v]
      v == VersionOf(From(m.mark))
      method == CharsToHttpMethod(SubSeq(buf, m.mark + 1, Len(buf)))
  IN CASE act = "mark"        -> [m EXCEPT !.mark = p]
       [] act = "field_start" -> [m EXCEPT !.field_start = p]
       [] act = "field_len"   -> [m EXCEPT !.field_len = p - m.field_start]
       [] act = "query_start" -> [m EXCEPT !.query_start = p]
       [] act = "method"      -> IF method = INVALID_METHOD THEN [m EXCEPT !.error = 1000]
                                 ELSE Set("method", method)
       [] act = "version"     -> IF v = 0 THEN [m EXCEPT !.error = 1001] ELSE Set("version", v)
       [] act = "query"       -> IF m.query_start > p THEN [m EXCEPT !.throw = TRUE]
                                 ELSE Set("query", From(m.query_start))
       [] act \in {"path", "fragment"} -> Set(act, From(m.mark))
       [] act = "field"       ->
            IF m.field_len = 0 THEN m
            ELSE Set("headers", setHeader(m.data.headers,
                                          SubSeq(buf, m.field_start + 1, m.field_start + m.field_len),
                                          From(m.mark)))


\* http_parser_execute forgets the offsets but query_start, and stops behind the
\* character that ends the message: the parser afterwards, and how much it took.
Reset(m) == [m EXCEPT !.mark = 0, !.field_start = 0, !.field_len = 0]

Stopped(m) == m.at[1] \in {"done", "error"} \/ m.throw

TakeChar(s, buf, p) ==
  IF Stopped(s.m) THEN s
  ELSE LET step == Step(s.m.at, buf[p])
           Run(w, act) == IF w.throw THEN w ELSE Act(w, act, buf, p - 1)
       IN [m |-> FoldLeft(Run, [s.m EXCEPT !.at = step.ph], step.acts),
           n |-> IF step.ph = <<"error">> THEN s.n ELSE s.n + 1]

execute(m, buf) ==
  LET Take(s, p) == TakeChar(s, buf, p) IN Loop(Take, [m |-> Reset(m), n |-> 0], Len(buf))

isFinished(m) == m.at = <<"done">>
hasError(m) == m.error # 0 \/ m.at = <<"error">>
getContentLength(m) == getHeaderAs(m.data.headers, LengthKey, 0)
=============================================================================
