--------------------------- MODULE MCHttpExchange ---------------------------
(* The instance of HttpExchange for TLC. *)
EXTENDS HttpExchange

MCUrls ==
  [scheme: {Text("http"), Text("https"), <<>>},
   userinfo: {<<>>, Text("u"), Text("u:p"), Text("%40:1")},
   host: {Text("h"), Text("10.0.0.1"), Text("[::1]"), Text("[1:2:3:4:5:6:7:8]")},
   port: {<<>>, Text("80"), Text("8080")},
   path: {<<>>, Text("/a/b")},
   query: {<<>>, Text("q=%2f?")},
   fragment: {<<>>, Text("f")}]

\* Of these the requests are sent: with every part, and with the least.
MCCarried ==
  {[scheme |-> Text("http"), userinfo |-> <<>>, host |-> Text("h"), port |-> <<>>,
    path |-> Text("/a/b"), query |-> <<>>, fragment |-> <<>>],
   [scheme |-> Text("http"), userinfo |-> <<>>, host |-> Text("h"), port |-> <<>>,
    path |-> <<>>, query |-> Text("q=%2f?"), fragment |-> Text("f")]}

MCCalls ==
  {[method |-> GET, headers |-> NoHeaders, body |-> <<>>],
   [method |-> POST, headers |-> setHeader(NoHeaders, ConnectionKey, Text("Keep-Alive")),
    body |-> Text("xyz")]}

\* A read that ends in front of it is one of a client that sends no more.
MCExtra == {Text("G")}
MCUris == {Text("/")}
MCPatterns == {Text("/*"), Text("*b")}
MCPaths == MCUris \cup {u.path : u \in MCCarried}
MCServlets == {"s1", "s2"}
MCNotFound == "notFound"
MCAnswer == [s1 |-> [status |-> 200, reason |-> <<>>, body |-> Text("ok")],
             s2 |-> [status |-> 404, reason |-> Text("Gone"), body |-> <<>>]]

\* When the servlet has been chosen nobody looks at the table or changes it any more:
\* two states that differ only in it go on alike.
MCView == <<exchangeVars, IF pc \in {"send", "closed", "died"} THEN <<>> ELSE dispatchVars>>
=============================================================================
