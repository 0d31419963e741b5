-------------------------------- MODULE Uri --------------------------------
(***************************************************************************)
(* Uri::Create of fatdog/uri.rl.cc, the parser Ragel generates from        *)
(* uri.rl, one definition for each group of states, and the accessors of   *)
(* class Uri.  A step takes the phase and a character to the next phase    *)
(* and the actions the transition runs, in their order.                    *)
(*                                                                         *)
(* There are two copies of the states of an authority: the one behind      *)
(* "scheme:" saves the path that follows, the one of a relative reference  *)
(* does not (a = TRUE is the first).                                       *)
(***************************************************************************)
EXTENDS Chars

Null == 0    \* the null pointer; p and mark count from 1

Goto(ph) == [ph |-> ph, acts |-> <<>>]
Do(ph, acts) == [ph |-> ph, acts |-> acts]
Err == Goto(<<"error">>)

Seg == pchar \ {":"}
Ends == {"/", "?", "#", "EOF"}

-----------------------------------------------------------------------------
\* Mutated forms of the definitions below, one plausible slip each.
MutQuery(c) == IF c \in pchar \cup {"/"} THEN Goto(<<"query">>) ELSE Err

-----------------------------------------------------------------------------
\* %xx; a phase <<"pct", k, ph>> still needs k digits to be back in ph.
Pct(ph) == Goto(<<"pct", 2, ph>>)
PctDigit(at, c) == IF c \notin XDigit THEN Err
                   ELSE IF at[2] = 2 THEN Goto(<<"pct", 1, at[3]>>) ELSE Goto(at[3])

\* "?" and "#" behind a part, and the end of the text.
Rest(c, acts) ==
  CASE c = "?"   -> Do(<<"query0">>, acts)
    [] c = "#"   -> Do(<<"fragment0">>, acts)
    [] c = "EOF" -> Do(<<"final">>, acts)
    [] OTHER     -> Err

\* The first character, and a first segment that cannot be a scheme.
Start(c) ==
  CASE c \in Alpha        -> Do(<<"scheme">>, <<"mark">>)
    [] c \in Seg \ Alpha  -> Goto(<<"segment">>)
    [] c = "/"            -> Goto(<<"slash">>)
    [] c = "%"            -> Pct(<<"segment">>)
    [] OTHER              -> Rest(c, <<>>)

SegmentNzNc(c) ==
  CASE c \in Seg -> Goto(<<"segment">>)
    [] c = "/"   -> Goto(<<"path">>)
    [] c = "%"   -> Pct(<<"segment">>)
    [] OTHER     -> Rest(c, <<>>)

Scheme(c) ==
  IF c \in Alpha \cup Digit \cup {"+", "-", "."} THEN Goto(<<"scheme">>)
  ELSE IF c = ":" THEN Do(<<"hier">>, <<"scheme">>)
  ELSE SegmentNzNc(c)

\* Behind "scheme:", behind its first "/", and behind a leading "/".
HierPart(c) ==
  CASE c \in pchar -> Goto(<<"path">>)
    [] c = "/"     -> Goto(<<"hier/">>)
    [] c = "%"     -> Pct(<<"path">>)
    [] OTHER       -> Rest(c, <<>>)

Slash(c, a) ==
  CASE c \in pchar -> Goto(<<"path">>)
    [] c = "/"     -> Goto(<<"auth", a>>)
    [] c = "%"     -> Pct(<<"path">>)
    [] OTHER       -> Rest(c, <<>>)

\* A path whose text is not saved, and the one that is.
Path(c) ==
  CASE c \in pchar \cup {"/"} -> Goto(<<"path">>)
    [] c = "%"                -> Pct(<<"path">>)
    [] OTHER                  -> Rest(c, <<>>)

PathAbempty(c) ==
  CASE c \in pchar \cup {"/"} -> Goto(<<"abempty">>)
    [] c = "%"                -> Pct(<<"abempty">>)
    [] OTHER                  -> Rest(c, <<"path">>)

Query(c) ==
  CASE c \in pchar \cup {"/", "?"} -> Goto(<<"query">>)
    [] c = "%"                     -> Pct(<<"query">>)
    [] OTHER                       -> Rest(c, <<"query">>)

Fragment(c) ==
  CASE c \in pchar \cup {"/", "?"} -> Goto(<<"fragment">>)
    [] c = "%"                     -> Pct(<<"fragment">>)
    [] c = "EOF"                   -> Do(<<"final">>, <<"fragment">>)
    [] OTHER                       -> Err

\* The first character of a query or a fragment sets the mark, even if it ends it.
Marked(step) == [step EXCEPT !.acts = <<"mark">> \o @]

-----------------------------------------------------------------------------
\* An authority ends with the actions acts; with a scheme the path begins here.
EndAuthority(c, a, acts) ==
  IF ~a THEN IF c = "/" THEN Do(<<"path">>, acts) ELSE Rest(c, acts)
  ELSE IF c = "/" THEN Do(<<"abempty">>, acts \o <<"mark">>)
  ELSE Rest(c, acts \o <<"mark", "path">>)

\* The same behind an empty port: save_port clears the mark the path has just set.
EndEmptyPort(c, a) ==
  IF ~a THEN EndAuthority(c, a, <<"mark", "port">>)
  ELSE IF c = "/" THEN Do(<<"abempty">>, <<"mark", "port">>)
  ELSE Rest(c, <<"mark", "port", "path">>)

\* Behind "//": user information or a host.
Authority(c, a) ==
  CASE c \in regchar -> Do(<<"name", a>>, <<"mark">>)
    [] c = "%"       -> Marked(Pct(<<"name", a>>))
    [] c = ":"       -> Do(<<"colon", a>>, <<"mark", "host">>)
    [] c = "@"       -> Do(<<"at", a>>, <<"mark", "user">>)
    [] c = "["       -> Do(<<"literal", a, <<"literal">>>>, <<"mark">>)
    [] OTHER         -> EndAuthority(c, a, <<"mark", "host">>)

\* A name that is a host unless an "@" follows.
Name(c, a) ==
  CASE c \in regchar -> Goto(<<"name", a>>)
    [] c = "%"       -> Pct(<<"name", a>>)
    [] c = ":"       -> Do(<<"colon", a>>, <<"host">>)
    [] c = "@"       -> Do(<<"at", a>>, <<"user">>)
    [] OTHER         -> EndAuthority(c, a, <<"host">>)

\* Behind its ":": a port, or more of the user information.  A digit may be both,
\* and sets the mark for the port.
Colon(c, a) ==
  CASE c \in Digit                    -> Do(<<"digits", a>>, <<"mark">>)
    [] c \in (regchar \ Digit) \cup {":"} -> Goto(<<"userinfo", a>>)
    [] c = "%"                        -> Pct(<<"userinfo", a>>)
    [] c = "@"                        -> Do(<<"at", a>>, <<"user">>)
    [] OTHER                          -> EndEmptyPort(c, a)

Digits(c, a) ==
  CASE c \in Digit                    -> Goto(<<"digits", a>>)
    [] c \in (regchar \ Digit) \cup {":"} -> Goto(<<"userinfo", a>>)
    [] c = "%"                        -> Pct(<<"userinfo", a>>)
    [] c = "@"                        -> Do(<<"at", a>>, <<"user">>)
    [] OTHER                          -> EndAuthority(c, a, <<"port">>)

UserInfo(c, a) ==
  CASE c \in regchar \cup {":"} -> Goto(<<"userinfo", a>>)
    [] c = "%"                  -> Pct(<<"userinfo", a>>)
    [] c = "@"                  -> Do(<<"at", a>>, <<"user">>)
    [] OTHER                    -> Err

\* Behind "@": the host.
At(c, a) ==
  CASE c \in regchar -> Do(<<"host", a>>, <<"mark">>)
    [] c = "%"       -> Marked(Pct(<<"host", a>>))
    [] c = ":"       -> Do(<<"port0", a>>, <<"mark", "host">>)
    [] c = "["       -> Do(<<"literal", a, <<"literal">>>>, <<"mark">>)
    [] OTHER         -> EndAuthority(c, a, <<"mark", "host">>)

Host(c, a) ==
  CASE c \in regchar -> Goto(<<"host", a>>)
    [] c = "%"       -> Pct(<<"host", a>>)
    [] c = ":"       -> Do(<<"port0", a>>, <<"host">>)
    [] OTHER         -> EndAuthority(c, a, <<"host">>)

Port0(c, a) == IF c \in Digit THEN Do(<<"port", a>>, <<"mark">>) ELSE EndEmptyPort(c, a)
Port(c, a) == IF c \in Digit THEN Goto(<<"port", a>>) ELSE EndAuthority(c, a, <<"port">>)

-----------------------------------------------------------------------------
\* What the rules of uri.rl make of an octet (its 200 to 249 need the character 2),
\* and the number of groups behind "::", which the number in front fixes.
dec_octet(t) ==
  /\ t \in Seq(Digit)
  /\ \/ Len(t) = 1
     \/ Len(t) = 2 /\ t[1] # "0"
     \/ Len(t) = 3 /\ t[1] = "1"
     \/ Len(t) = 3 /\ t[1] = "2" /\ t[2] = "5" /\ Value(t[3]) <= 5

OctetPrefix(t) == t = <<>> \/ dec_octet(t)

Behind(f) == IF f = 0 THEN 0 .. 7 ELSE {7 - f}

Ip == INSTANCE IpLiteral WITH Full <- 8

\* Inside the brackets nothing is saved.
IpLiteral(at, c, a) ==
  LET ph == Ip!Step(at, c)
  IN CASE ph = Ip!End -> Goto(<<"literalEnd", a>>)
       [] ph = Ip!Bad -> Err
       [] OTHER       -> Goto(<<"literal", a, ph>>)

LiteralEnd(c, a) ==
  IF c = ":" THEN Do(<<"port0", a>>, <<"host">>) ELSE EndAuthority(c, a, <<"host">>)

-----------------------------------------------------------------------------
\* The states of an authority, in the copy without and the one with a scheme.
InAuthority(at, c, a) ==
  CASE at[1] = "auth"       -> Authority(c, a)
    [] at[1] = "name"       -> Name(c, a)
    [] at[1] = "colon"      -> Colon(c, a)
    [] at[1] = "digits"     -> Digits(c, a)
    [] at[1] = "userinfo"   -> UserInfo(c, a)
    [] at[1] = "at"         -> At(c, a)
    [] at[1] = "host"       -> Host(c, a)
    [] at[1] = "port0"      -> Port0(c, a)
    [] at[1] = "port"       -> Port(c, a)
    [] at[1] = "literal"    -> IpLiteral(at[3], c, a)
    [] at[1] = "literalEnd" -> LiteralEnd(c, a)

Relative(at, c) == InAuthority(at, c, FALSE)
Absolute(at, c) == InAuthority(at, c, TRUE)

\* The switch over the states.
Step(at, c) ==
  CASE at[1] = "start"      -> Start(c)
    [] at[1] = "segment"    -> SegmentNzNc(c)
    [] at[1] = "scheme"     -> Scheme(c)
    [] at[1] = "hier"       -> HierPart(c)
    [] at[1] = "hier/"      -> Slash(c, TRUE)
    [] at[1] = "slash"      -> Slash(c, FALSE)
    [] at[1] = "path"       -> Path(c)
    [] at[1] = "abempty"    -> PathAbempty(c)
    [] at[1] = "query0"     -> Marked(Query(c))
    [] at[1] = "query"      -> Query(c)
    [] at[1] = "fragment0"  -> Marked(Fragment(c))
    [] at[1] = "fragment"   -> Fragment(c)
    [] at[1] = "pct"        -> PctDigit(at, c)
    [] OTHER                -> IF at[2] THEN Absolute(at, c) ELSE Relative(at, c)

NewUri == [scheme |-> <<>>, userinfo |-> <<>>, host |-> <<>>, port |-> 0, path |-> <<>>,
           query |-> <<>>, fragment |-> <<>>]

\* The variables of Create: the Uri, mark and the state.
Run(uri, mark, at) == [uri |-> uri, mark |-> mark, at |-> at]

\* A part is saved, from the mark on; only save_host leaves the mark as it is.
Saved(m, part, it) ==
  CASE part = "host"     -> Run([m.uri EXCEPT !.host = it], m.mark, m.at)
    [] part = "user"     -> Run([m.uri EXCEPT !.userinfo = it], Null, m.at)
    [] part = "scheme"   -> Run([m.uri EXCEPT !.scheme = it], Null, m.at)
    [] part = "path"     -> Run([m.uri EXCEPT !.path = it], Null, m.at)
    [] part = "query"    -> Run([m.uri EXCEPT !.query = it], Null, m.at)
    [] part = "fragment" -> Run([m.uri EXCEPT !.fragment = it], Null, m.at)

\* One action at position p of the text.
Act(m, act, text, p) ==
  LET port == Number(SubSeq(text, m.mark, Len(text)))
  IN CASE act = "mark" -> Run(m.uri, p, m.at)
       [] act = "port" -> Run(IF p = m.mark THEN m.uri ELSE [m.uri EXCEPT !.port = port],
                              Null, m.at)
       [] OTHER -> IF m.mark # Null THEN Saved(m, act, SubSeq(text, m.mark, p - 1))
                   ELSE IF act \in {"host", "user"} THEN m
                   ELSE Run(m.uri, Null, <<"throw">>)

\* The actions of a transition; what is behind one that throws is left out.
RunActs(m, acts, text, p) ==
  LET w[k \in 0 .. Len(acts)] ==
        IF k = 0 THEN m
        ELSE IF w[k - 1].at[1] = "throw" THEN w[k - 1] ELSE Act(w[k - 1], acts[k], text, p)
  IN  w[Len(acts)]

CharAt(text, p) == IF p <= Len(text) THEN text[p] ELSE "EOF"

TakeChar(m, text, p) ==
  IF m.at[1] \in {"error", "throw"} THEN m
  ELSE LET s == Step(m.at, CharAt(text, p))
       IN RunActs(Run(m.uri, m.mark, s.ph), s.acts, text, p)

\* The loop over the text and its end.
Parsed(text) ==
  LET Take(m, p) == TakeChar(m, text, p)
  IN  Loop(Take, Run(NewUri, Null, <<"start">>), Len(text) + 1)

\* Uri::Create: "null", "throw" (std::string of a null pointer) or the Uri.
Create(text) ==
  LET end == Parsed(text)
  IN IF end.at[1] = "final" THEN [is |-> "uri", uri |-> end.uri]
     ELSE [is |-> IF end.at[1] = "throw" THEN "throw" ELSE "null", uri |-> NewUri]

-----------------------------------------------------------------------------
HttpScheme == <<"h", "t", "t", "p">>
HttpsScheme == <<"h", "t", "t", "p", "s">>

\* Uri::isDefaultPort, getPath, getPort.
isDefaultPort(u) ==
  \/ u.port = 0
  \/ u.scheme = HttpScheme /\ u.port = 80
  \/ u.scheme = HttpsScheme /\ u.port = 443

getPath(u) == IF u.path = <<>> THEN <<"/">> ELSE u.path

getPort(u) == CASE u.port # 0 -> u.port
                [] u.port = 0 /\ u.scheme = HttpScheme -> 80
                [] u.port = 0 /\ u.scheme = HttpsScheme -> 443
                [] OTHER -> 0

\* The decimal digits std::to_string writes.
Decimal(n) ==
  LET digit == <<"0", "1", "2", "3", "4", "5", "6", "7", "8", "9">>
      d[k \in 0 .. n] == IF k < 10 THEN <<digit[k + 1]>>
                         ELSE Append(d[k \div 10], digit[(k % 10) + 1])
  IN  d[n]

\* A part behind its delimiter, left out when it is empty.
After(d, t) == IF t = <<>> THEN <<>> ELSE <<d>> \o t

\* Uri::dump.
dump(u) ==
  u.scheme \o <<":", "/", "/">>
    \o u.userinfo \o (IF u.userinfo = <<>> THEN <<>> ELSE <<"@">>)
    \o u.host
    \o (IF isDefaultPort(u) THEN <<>> ELSE <<":">> \o Decimal(u.port))
    \o getPath(u) \o After("?", u.query) \o After("#", u.fragment)
=============================================================================
