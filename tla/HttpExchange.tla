---------------------------- MODULE HttpExchange ----------------------------
(***************************************************************************)
(* One exchange over HTTP: a client takes a URL apart and sends a request  *)
(* (HttpConnection::DoRequest), the server reads it piece by piece         *)
(* (HttpSession::recvRequest), chooses a servlet (ServletDispatch) and     *)
(* writes the response (sendResponse), which the client's parser takes.    *)
(*                                                                         *)
(* The network cuts the texts anywhere: a read returns any part of what is *)
(* on the wire, a write takes any part of what is left, and either may     *)
(* fail.  recvRequest has 4096 bytes for a read, more than a text of the   *)
(* model; the client's address, connect() and recvResponse() are left out. *)
(***************************************************************************)
EXTENDS ServletDispatch, Http, Integers

CONSTANTS
  Urls,        \* the URLs, as records of their parts
  Carried,     \* bound: those of them whose request is sent
  Calls,       \* [method, headers, body]: the other arguments of DoRequest
  Extra,       \* what the client sends behind the request
  Answer,      \* what a servlet sets in a response
  m_isKeepalive,
  MaxReads,    \* bound: reads of a header
  MaxWrites,   \* bound: writes of a response
  MaxErrors,   \* bound: reads and writes that fail with -1 inside a loop
  None         \* no value yet

VARIABLES
  pc,          \* idle, asked, recv, body, handle, send, closed, died
  url, made,   \* the URL and what Uri::Create made of it
  req,         \* the request that was sent
  wire, pos,   \* the text on its way, and how much of it has been read
  reads, safe, \* reads so far; none of them ended inside a token
  parser,      \* of recvRequest
  left, late,  \* bytes of the body that are missing; there were some
  got,         \* what recvRequest returned
  rsp,         \* the response
  out,         \* writeFixSize: [offset, left, text]
  writes, errs,
  seen         \* the client's parser when it has read the response

exchangeVars == <<pc, url, made, req, wire, pos, reads, safe, parser, left, late, got, rsp,
                  out, writes, errs, seen>>
vars == <<exchangeVars, dispatchVars>>

U == INSTANCE Uri
P == INSTANCE RequestParser
R == INSTANCE ResponseParser

\* A text of the characters S and of escapes.
Spelled(t, S) ==
  /\ t \in Seq(S \cup {"%"})
  /\ \A i \in 1 .. Len(t) : t[i] = "%" => i + 2 <= Len(t) /\ {t[i + 1], t[i + 2]} \subseteq XDigit

\* An address in brackets that the automaton for it takes.
Bracketed(t) ==
  LET at[i \in 1 .. Len(t)] == IF i = 1 THEN <<"literal">> ELSE U!Ip!Step(at[i - 1], t[i])
  IN /\ Len(t) > 1 /\ t \in Seq(XDigit \cup regchar \cup {"[", "]", ":"}) /\ t[1] = "["
     /\ \A i \in 1 .. Len(t) - 1 : at[i] \notin {U!Ip!End, U!Ip!Bad}
     /\ at[Len(t)] = U!Ip!End

IntMax == 2147483647

\* The parts have the characters RFC 3986 allows, and atoi can take the port.
ASSUME UrlAssumption ==
  \A u \in Urls :
    /\ u = [scheme |-> u.scheme, userinfo |-> u.userinfo, host |-> u.host, port |-> u.port,
            path |-> u.path, query |-> u.query, fragment |-> u.fragment]
    /\ u.scheme \in Seq(Alpha \cup Digit \cup {"+", "-", "."})
    /\ u.scheme = <<>> \/ u.scheme[1] \in Alpha
    /\ Spelled(u.userinfo, regchar \cup {":"})
    /\ Spelled(u.host, regchar) \/ Bracketed(u.host)
    /\ u.port \in Seq(Digit) /\ Number(u.port) <= IntMax
    /\ Spelled(u.path, pchar \cup {"/"}) /\ (u.path = <<>> \/ u.path[1] = "/")
    /\ Spelled(u.query, pchar \cup {"/", "?"}) /\ Spelled(u.fragment, pchar \cup {"/", "?"})

ExchangeInit ==
  /\ pc = "idle" /\ url = None /\ made = None /\ req = None /\ wire = <<>> /\ pos = 0
  /\ reads = 0 /\ safe = TRUE /\ parser = P!NewParser /\ left = 0 /\ late = FALSE /\ got = None
  /\ rsp = None /\ out = [offset |-> 0, left |-> 0, text |-> <<>>]
  /\ writes = 0 /\ errs = 0 /\ seen = None

Init == ExchangeInit /\ DispatchInit

-----------------------------------------------------------------------------
\* Mutated forms of the definitions below, one plausible slip each.
MutBodyOf(length, rest) == rest
MutMoved(s, n) == [s EXCEPT !.offset = @ + 1, !.left = @ - n]

-----------------------------------------------------------------------------
\* The text of a URL; the parts are texts, an empty part is left out.
UrlText(u) ==
  (IF u.scheme = <<>> THEN <<>> ELSE u.scheme \o <<":">>) \o <<"/", "/">>
    \o (IF u.userinfo = <<>> THEN <<>> ELSE u.userinfo \o <<"@">>)
    \o u.host \o U!After(":", u.port) \o u.path \o U!After("?", u.query) \o U!After("#", u.fragment)

\* DoRequest: the URL is taken apart; without a Uri the result is INVALID_URL.
MakeUri(u) ==
  /\ pc = "idle"
  /\ pc' = "asked" /\ url' = u /\ made' = U!Create(UrlText(u))
  /\ UNCHANGED <<req, wire, pos, reads, safe, parser, left, late, got, rsp, out, writes, errs, seen>>

\* The request of a Uri: a header Connection sets m_close, Host is added.
Built(uri, a) ==
  LET keeps == /\ ConnectionKey \in DOMAIN a.headers
               /\ Folded(a.headers[ConnectionKey]) = Text("keep-alive")
      given == delHeader(a.headers, ConnectionKey)
      hosts == getHeader(given, Text("host"), <<>>) # <<>>
  IN [NewHttpRequest EXCEPT
        !.path = U!getPath(uri), !.query = uri.query, !.fragment = uri.fragment,
        !.method = a.method, !.close = ~keeps, !.body = a.body,
        !.headers = IF hosts THEN given ELSE setHeader(given, Text("host"), uri.host)]

SendRequest(a, more) ==
  /\ pc = "asked" /\ url \in Carried /\ made.is = "uri"
  /\ req' = Built(made.uri, a)
  /\ wire' = RequestDump(req') \o more
  /\ pc' = "recv" /\ url' = None /\ made' = None
  /\ UNCHANGED <<pos, reads, safe, parser, left, late, got, rsp, out, writes, errs, seen>>

-----------------------------------------------------------------------------
\* A read that ends here cuts no token: every part of the request line has its
\* terminator, a header line its CR.
EndsToken(r, n) ==
  LET text == RequestDump(r)
  IN \/ n >= Len(text) - Len(r.body)
     \/ text[n] \in {CR, LF}
     \/ text[n] \in {SP, "?", "#"} /\ n <= Len(RequestLine(r))

\* The header is complete and rest follows it in the buffer: the body takes what is
\* there, and what is missing is read.
BodyOf(length, rest) == SubSeq(rest, 1, IF length >= Len(rest) THEN Len(rest) ELSE length)

Missing(length, rest) == IF length > Len(rest) THEN length - Len(rest) ELSE 0

\* One turn of the loop of recvRequest: n bytes arrive and are parsed.
Read(n) ==
  /\ pc = "recv" /\ reads < MaxReads
  /\ pos' = pos + n
  /\ reads' = reads + 1
  /\ safe' = (safe /\ EndsToken(req, pos + n))
  /\ \E r \in {P!execute(parser, SubSeq(wire, pos + 1, pos + n))} :
       LET rest == SubSeq(wire, pos + r.n + 1, pos + n)
           length == P!getContentLength(r.m)
           done == P!isFinished(r.m) /\ ~P!hasError(r.m) /\ ~r.m.throw
       IN /\ parser' = [r.m EXCEPT !.data.body =
                          IF done /\ length > 0 THEN BodyOf(length, rest) ELSE @]
          /\ left' = IF done THEN Missing(length, rest) ELSE 0
          /\ late' = (left' > 0)
          /\ got' = IF done /\ left' = 0 THEN parser'.data ELSE None
          /\ pc' = CASE r.m.throw -> "died"
                     [] ~r.m.throw /\ P!hasError(r.m) -> "closed"
                     [] done -> IF left' > 0 THEN "body" ELSE "handle"
                     [] OTHER -> "recv"
  /\ UNCHANGED <<url, made, req, wire, rsp, out, writes, errs, seen>>

\* read() returned 0 or -1: recvRequest returns nullptr and the session is closed.
ReadFails ==
  /\ pc \in {"recv", "body"}
  /\ pc' = "closed"
  /\ UNCHANGED <<url, made, req, wire, pos, reads, safe, parser, left, late, got, rsp, out,
                 writes, errs, seen>>

\* What a loop of Stream has left after a call that returned n: -1 is a size_t and
\* passes the test len <= 0.
Moved(s, n) == [s EXCEPT !.offset = @ + n, !.left = @ - n]

\* s with the bytes of t at the places behind at; what lies outside of s is not of it.
Overwritten(s, at, t) ==
  [i \in 1 .. Len(s) |-> IF i - at \in 1 .. Len(t) THEN t[i - at] ELSE s[i]]

\* readFixSize of the missing bytes, which go behind the end of the string and leave
\* its size alone.  After a -1 the next byte lands one place in front: on the last
\* byte that had arrived, or of an empty string outside of it, which is undefined.
ReadBody(n) ==
  LET s == Moved([offset |-> 0, left |-> left], n)
      body == parser.data.body
      at == P!getContentLength(parser) - left
  IN /\ pc = "body" /\ n <= left
     /\ n = -1 => errs < MaxErrors
     /\ pos' = IF n > 0 THEN pos + n ELSE pos
     /\ parser' = [parser EXCEPT !.data.body = Overwritten(body, at, SubSeq(wire, pos + 1, pos'))]
     /\ left' = s.left
     /\ errs' = IF n = -1 THEN errs + 1 ELSE errs
     /\ \/ IF s.left = 0 THEN got' = parser'.data /\ pc' = "handle" ELSE UNCHANGED <<got, pc>>
        \/ n > 0 /\ at < 0 /\ pc' = "died" /\ UNCHANGED got
     /\ UNCHANGED <<url, made, req, wire, reads, safe, late, rsp, out, writes, seen>>

-----------------------------------------------------------------------------
\* What a servlet does to the response it is given.
Served(slt, r) ==
  IF slt = NotFound
  THEN [r EXCEPT !.status = 404, !.body = Text("404"),
                 !.headers = setHeader(setHeader(@, Text("Server"), Text("fatdog")),
                                       Text("Content-Type"), Text("html"))]
  ELSE [r EXCEPT !.status = Answer[slt].status, !.reason = Answer[slt].reason,
                 !.body = Answer[slt].body]

\* The rest of a turn of handleClient: dispatch, and the first byte of sendResponse.
Handle ==
  LET close == got.close \/ ~m_isKeepalive
      fresh == [NewHttpResponse(got.version, close) EXCEPT
                  !.headers = setHeader(@, Text("Server"), Text("s"))]
  IN /\ pc = "handle"
     /\ rsp' = Served(getMatchedServlet(got.path), fresh)
     /\ out' = [offset |-> 0, left |-> Len(ResponseDump(rsp')), text |-> <<>>]
     /\ pc' = "send"
     /\ req' = None /\ wire' = <<>> /\ pos' = 0 /\ reads' = 0 /\ safe' = TRUE
     /\ parser' = P!NewParser /\ late' = FALSE /\ got' = None /\ errs' = 0
     /\ UNCHANGED <<url, made, left, writes, seen>>

\* The bytes from o on; what lies outside of the text is not of the response.
Bytes(text, o, n) == [i \in 1 .. n |-> IF o + i \in 1 .. Len(text) THEN text[o + i] ELSE "CTL"]

\* One turn of the loop of writeFixSize.
Write(n) ==
  /\ pc = "send" /\ out.left > 0 /\ n <= out.left
  /\ IF n = -1 THEN errs < MaxErrors ELSE writes < MaxWrites
  /\ out' = [Moved(out, n) EXCEPT
               !.text = @ \o (IF n > 0 THEN Bytes(ResponseDump(rsp), out.offset, n) ELSE <<>>)]
  /\ IF n = -1 THEN errs' = errs + 1 /\ UNCHANGED writes ELSE writes' = writes + 1 /\ UNCHANGED errs
  /\ UNCHANGED <<pc, url, made, req, wire, pos, reads, safe, parser, left, late, got, rsp, seen>>

\* The response is written, or write() returned 0: the session goes on or is closed,
\* as Handle told the response.
Sent ==
  /\ pc = "send"
  /\ pc' = IF ~rsp.close THEN "recv" ELSE "closed"
  /\ seen' = IF out.left = 0 THEN R!execute(R!NewParser, out.text) ELSE None
  /\ UNCHANGED <<url, made, req, wire, pos, reads, safe, parser, left, late, got, rsp, out,
                 writes, errs>>

ExchangeNext ==
  \/ \E u \in Urls : MakeUri(u)
  \/ \E a \in Calls, more \in Extra : SendRequest(a, more)
  \/ \E n \in 1 .. Len(wire) - pos : (reads + 1 < MaxReads \/ n = Len(wire) - pos) /\ Read(n)
  \/ ReadFails
  \/ \E n \in {-1} \cup 1 .. Len(wire) - pos : ReadBody(n)
  \/ Handle
  \/ \E n \in {-1} \cup 1 .. out.left : (writes + 1 < MaxWrites \/ n \in {-1, out.left}) /\ Write(n)
  \/ Sent

\* The table is changed between the parse of a request and its dispatch; at other
\* times nobody looks at it.
Next ==
  \/ ExchangeNext /\ UNCHANGED dispatchVars
  \/ pc = "handle" /\ DispatchNext /\ UNCHANGED exchangeVars

Spec == Init /\ [][Next]_vars

-----------------------------------------------------------------------------
\* What Create keeps of the user information: a digit behind its first ":" might
\* begin a port and sets the mark anew, so that what is in front of it is lost.
Kept(t) ==
  LET colons == {i \in 1 .. Len(t) : t[i] = ":"}
      first == CHOOSE i \in colons : \A k \in colons : i <= k
  IN IF colons # {} /\ first < Len(t) /\ t[first + 1] \in Digit
     THEN SubSeq(t, first + 1, Len(t)) ELSE t

\* What dump() changes in a Uri: its path is what getPath returns, a default port is
\* left out.
Redone(u) ==
  LET pathed == [u EXCEPT !.path = U!getPath(u)]
  IN  IF U!isDefaultPort(u) THEN [pathed EXCEPT !.port = 0] ELSE pathed

\* Uri::Create finds in a URL the parts it was put together from (of a reference
\* without a scheme not the path), and Uri::dump writes a URL with the same parts,
\* the default port and path aside.
UrlIsTakenApart ==
  pc = "asked" =>
    LET u == made.uri
        again == U!Create(U!dump(u))
    IN /\ made.is = "uri"
       /\ u.scheme = url.scheme /\ u.host = url.host
       /\ u.userinfo = Kept(url.userinfo)
       /\ u.port = Number(url.port)
       /\ u.path = (IF url.scheme = <<>> THEN <<>> ELSE url.path)
       /\ u.query = url.query /\ u.fragment = url.fragment
       /\ url.scheme # <<>> /\ Kept(u.userinfo) = u.userinfo =>
            again = [is |-> "uri", uri |-> Redone(u)]

\* The headers dump() writes for the request that was sent.
SentHeaders ==
  LET added == setHeader(req.headers, ConnectionKey,
                         IF req.close THEN Text("close") ELSE Text("keep-alive"))
  IN IF req.body = <<>> THEN added ELSE setHeader(added, LengthKey, U!Decimal(Len(req.body)))

\* If no read ended inside a token (http_parser_execute forgets where the token
\* began: CutsOnlyShorten), recvRequest returns the request the client dumped, with
\* the headers dump() adds.  Of a body that did not come with the end of the header
\* it has a part, and each read that failed with -1 may have cost one more byte.
ServerSeesRequest ==
  pc = "handle" /\ safe =>
    /\ got.method = req.method /\ got.version = req.version
    /\ got.path = req.path /\ got.query = req.query /\ got.fragment = req.fragment
    /\ got.headers = SentHeaders
    /\ IsPrefix(SubSeq(got.body, 1, Len(got.body) - errs), req.body)
    /\ late \/ got.body = req.body


\* If no write failed, the client's parser makes of the bytes that were written the
\* response the servlet set, however the writes were cut.
ResponseArrives ==
  pc = "closed" /\ seen # None /\ errs = 0 =>
    LET d == seen.m.data
        added == setHeader(rsp.headers, ConnectionKey,
                           IF rsp.close THEN Text("close") ELSE Text("keep-alive"))
    IN /\ R!isFinished(seen.m) /\ ~R!hasError(seen.m)
       /\ d.status = rsp.status /\ d.version = rsp.version
       /\ d.reason = (IF rsp.reason = <<>> THEN HttpStatusToString(rsp.status) ELSE rsp.reason)
       /\ d.headers = (IF rsp.body = <<>> THEN added
                       ELSE setHeader(added, LengthKey, U!Decimal(Len(rsp.body))))
       /\ seen.m.close = rsp.close /\ ~seen.m.chunked
       /\ SubSeq(out.text, seen.n + 1, Len(out.text)) = rsp.body
=============================================================================
