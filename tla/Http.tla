-------------------------------- MODULE Http --------------------------------
(***************************************************************************)
(* HttpRequest and HttpResponse of http/http.cpp: the fields, the headers  *)
(* (a map whose keys differ only in more than the case of their letters),  *)
(* and the text dump() writes.  Texts are sequences of characters; the     *)
(* version 0x11 is 11, 0x10 is 10.  The maps of parameters and cookies     *)
(* are written by nobody and left out.                                     *)
(***************************************************************************)
EXTENDS Chars, SequencesExt

LOCAL U == INSTANCE Uri

\* HTTP_METHOD_MAP, in its order; the number of a method is its place less one.
Methods ==
  [i \in 1 .. 34 |-> Text(
    <<"DELETE", "GET", "HEAD", "POST", "PUT", "CONNECT", "OPTIONS", "TRACE", "COPY", "LOCK",
      "MKCOL", "MOVE", "PROPFIND", "PROPPATCH", "SEARCH", "UNLOCK", "BIND", "REBIND", "UNBIND",
      "ACL", "REPORT", "MKACTIVITY", "CHECKOUT", "MERGE", "M - SEARCH", "NOTIFY", "SUBSCRIBE",
      "UNSUBSCRIBE", "PATCH", "PURGE", "MKCALENDAR", "LINK", "UNLINK", "SOURCE">>[i])]
GET == Text("GET")
POST == Text("POST")
INVALID_METHOD == <<>>

\* CharsToHttpMethod: the first name that the text begins with.
CharsToHttpMethod(t) ==
  LET fits == {i \in 1 .. Len(Methods) : IsPrefix(Methods[i], t)}
  IN IF fits = {} THEN INVALID_METHOD
     ELSE Methods[CHOOSE i \in fits : \A k \in fits : i <= k]

\* HttpStatusToString of the statuses the models use.
HttpStatusToString(s) ==
  CASE s = 200 -> Text("OK")
    [] s = 404 -> Text("Not Found")

-----------------------------------------------------------------------------
\* A map of headers from the names in lower case to the values.
NoHeaders == [k \in {} |-> <<>>]
setHeader(h, k, v) == [x \in DOMAIN h \cup {Folded(k)} |-> IF x = Folded(k) THEN v ELSE h[x]]
delHeader(h, k) == [x \in DOMAIN h \ {Folded(k)} |-> h[x]]
getHeader(h, k, def) == IF Folded(k) \in DOMAIN h THEN h[Folded(k)] ELSE def

\* getAs<uint64_t>: lexical_cast of the whole value, the default if it is no number.
getHeaderAs(h, k, def) ==
  LET v == getHeader(h, k, <<>>)
  IN IF v # <<>> /\ DigitsOf(v) = Len(v) THEN Number(v) ELSE def

NewHttpRequest == [method |-> GET, version |-> 11, close |-> TRUE, path |-> <<"/">>,
                   query |-> <<>>, fragment |-> <<>>, headers |-> NoHeaders, body |-> <<>>]

NewHttpResponse(version, close) ==
  [status |-> 200, version |-> version, close |-> close, reason |-> <<>>,
   headers |-> NoHeaders, body |-> <<>>]

-----------------------------------------------------------------------------
CRLF == <<CR, LF>>
ConnectionKey == Text("connection")
LengthKey == Text("content-length")

VersionText(v) == Text("HTTP/1.") \o (IF v = 11 THEN <<"1">> ELSE <<"0">>)
ConnectionText(close) ==
  Text("connection: ") \o (IF close THEN Text("close") ELSE Text("keep-alive")) \o CRLF

\* The headers but Connection, behind each name the text sep, in some order: a map
\* is ordered by its keys, which no reader of the text looks at.
HeaderText(h, sep) ==
  LET keys == SetToSeq(DOMAIN h \ {ConnectionKey})
      Line(k) == k \o sep \o h[k] \o CRLF
  IN FlattenSeq([i \in 1 .. Len(keys) |-> Line(keys[i])])

BodyText(body) ==
  IF body = <<>> THEN CRLF
  ELSE Text("content-length: ") \o U!Decimal(Len(body)) \o CRLF \o CRLF \o body

\* HttpRequest::dump, the start line and the rest.
RequestLine(r) ==
  r.method \o <<SP>> \o r.path \o U!After("?", r.query) \o U!After("#", r.fragment)
    \o <<SP>> \o VersionText(r.version) \o CRLF

RequestDump(r) ==
  RequestLine(r) \o ConnectionText(r.close) \o HeaderText(r.headers, <<":">>) \o BodyText(r.body)

\* HttpResponse::dump.
ResponseDump(r) ==
  VersionText(r.version) \o <<SP>> \o U!Decimal(r.status) \o <<SP>>
    \o (IF r.reason = <<>> THEN HttpStatusToString(r.status) ELSE r.reason) \o CRLF
    \o HeaderText(r.headers, <<":", SP>>) \o ConnectionText(r.close) \o BodyText(r.body)
=============================================================================
