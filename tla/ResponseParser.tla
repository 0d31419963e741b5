--------------------------- MODULE ResponseParser ---------------------------
(***************************************************************************)
(* HttpResponseParser: the automaton of http/httpclient_parser.rl.cc, one  *)
(* definition for each group of states, and the callbacks and execute() of *)
(* http/http_parser.cpp.  The parser takes a status line with its headers, *)
(* or the header of a chunk.                                               *)
(*                                                                         *)
(* Three headers are looked at: Connection (kind "conn"), Content-Length   *)
(* ("len") and Transfer-Encoding ("enc").  Their rules let white space,    *)
(* line ends included, stand in front of the value, so that behind an      *)
(* empty one of them the next line may be the value or a header.  The      *)
(* callbacks on_response_chunk, _last_chunk and _header_done are empty.    *)
(***************************************************************************)
EXTENDS Http

Goto(ph) == [ph |-> ph, acts |-> <<>>]
Do(ph, acts) == [ph |-> ph, acts |-> acts]
Err == Goto(<<"error">>)
With(acts, step) == IF step = Err THEN Err ELSE [step EXCEPT !.acts = acts \o @]

Blank == {SP, TAB, "VT", "FF"}
Token(c) == c \notin Separator \cup {NUL, DEL, "NA", "CTL", "VT", "FF", CR, LF}

Kind(name) ==
  CASE name = Text("connection")        -> "conn"
    [] name = Text("content-length")    -> "len"
    [] name = Text("transfer-encoding") -> "enc"
    [] OTHER                            -> "any"

\* The value that a header of kind k is looked at for, and the beginnings of it.
Word(k) == CASE k = "conn" -> Text("close") [] k = "enc" -> Text("chunked") [] OTHER -> <<>>
IsWord(k, t) == IF k = "len" THEN t # <<>> /\ ToSet(t) \subseteq Digit
                ELSE t # <<>> /\ t = Word(k)
IsWordPrefix(k, t) == IF k = "len" THEN ToSet(t) \subseteq Digit ELSE IsPrefix(t, Word(k))

-----------------------------------------------------------------------------
\* A line ends with c, CR or LF: the actions at c, and the phase behind the line.
EndLine(c, acts, k) == IF c = LF THEN Do(<<"line", k>>, acts) ELSE Do(<<"lf", k>>, acts)

\* The value of a header of kind k ended and was its word: Content-Length is stored
\* at once, close with the next character, chunked with the LF.
EndWord(c, k, field) ==
  CASE k = "len"  -> EndLine(c, <<"content_len">> \o field, "any")
    [] k = "conn" -> EndLine(c, field, "close")
    [] k = "enc"  -> IF c = LF THEN Do(<<"line", "any">>, <<"chunked">> \o field)
                     ELSE Do(<<"lf", "chunked">>, field)

Start(c) ==
  CASE c \in XDigit -> Do(<<"size">>, <<"mark">>)
    [] c = "H"      -> Do(<<"http", 2>>, <<"mark">>)
    [] OTHER        -> Err

\* The header of a chunk: its size and its extensions.
EndChunk(c, acts) ==
  CASE c = LF  -> Do(<<"done", TRUE>>, acts)
    [] c = CR  -> Do(<<"done CR">>, acts)
    [] c = ";" -> Do(<<"extension">>, acts)
    [] OTHER   -> Err

ChunkSize(c) == IF c \in XDigit THEN Goto(<<"size">>) ELSE EndChunk(c, <<"chunk_size">>)

Extension(c) == IF Token(c) THEN Do(<<"extension1">>, <<"field_start">>) ELSE Err

ExtensionName(c) ==
  CASE Token(c) -> Goto(<<"extension1">>)
    [] c = "="  -> Do(<<"extvalue">>, <<"field_len", "mark">>)
    [] OTHER    -> EndChunk(c, <<"field_len", "mark", "field">>)

ExtensionValue(c, first) ==
  CASE Token(c) -> Do(<<"extvalue1">>, IF first THEN <<"mark">> ELSE <<>>)
    [] ~Token(c) /\ ~first -> EndChunk(c, <<"field">>)
    [] OTHER -> Err

-----------------------------------------------------------------------------
\* "HTTP/" digits "." digits, the status and the reason.
Version(c, k) ==
  CASE k < 6 -> IF c = <<"H", "T", "T", "P", "/">>[k] THEN Goto(<<"http", k + 1>>) ELSE Err
    [] k = 6 -> IF c \in Digit THEN Goto(<<"http", 7>>) ELSE Err
    [] k = 7 -> IF c \in Digit THEN Goto(<<"http", 7>>)
                ELSE IF c = "." THEN Goto(<<"http", 8>>) ELSE Err
    [] k = 8 -> IF c \in Digit THEN Goto(<<"http", 9>>) ELSE Err
    [] k = 9 -> IF c \in Digit THEN Goto(<<"http", 9>>)
                ELSE IF c = SP THEN Do(<<"status0">>, <<"version">>) ELSE Err

Status(c, first) ==
  CASE c \in Digit -> Do(<<"status">>, IF first THEN <<"mark">> ELSE <<>>)
    [] c = SP /\ ~first -> Do(<<"reason0">>, <<"status">>)
    [] OTHER -> Err

Reason(c, first) ==
  CASE c # LF /\ (first \/ c # CR) -> Do(<<"reason">>, IF first THEN <<"mark">> ELSE <<>>)
    [] c \in {CR, LF} /\ ~first -> EndLine(c, <<"reason">>, "any")
    [] OTHER -> Err

-----------------------------------------------------------------------------
\* White space, then the word of kind k and the end of its line.
Folded0(c, k, t) ==
  CASE c \in Blank \cup {CR, LF} /\ t = <<>> -> Goto(<<"folded", k, t>>)
    [] c \in {CR, LF} /\ IsWord(k, t) ->
         EndWord(c, k, IF k = "conn" THEN <<>> ELSE <<"field">>)
    [] c \notin Blank \cup {CR, LF} /\ IsWordPrefix(k, Append(t, ToLower(c))) ->
         Do(<<"folded", k, Append(t, ToLower(c))>>,
            IF t = <<>> /\ k # "conn" THEN <<"mark">> ELSE <<>>)
    [] OTHER -> Err

\* The start of a header line.  Behind an empty value of kind k, a name that is its
\* word may still become the value.
Line(c, k) ==
  CASE k = "close" -> With(<<"close">>,
                           CASE c = LF -> Goto(<<"done", TRUE>>)
                             [] c = CR -> Goto(<<"done CR">>)
                             [] Token(c) -> Do(<<"name", "any", <<ToLower(c)>>>>, <<"field_start">>)
                             [] OTHER -> Err)
    [] c = LF /\ k # "close" -> Goto(<<"done", k = "any">>)
    [] c = CR /\ k # "close" -> IF k = "any" THEN Goto(<<"done CR">>) ELSE Goto(<<"empty CR", k>>)
    [] c \in Blank /\ k \in {"conn", "len", "enc"} -> Folded0(c, k, <<>>)
    [] Token(c) /\ k # "close" ->
         Do(<<"name", k, <<ToLower(c)>>>>,
            IF k \in {"enc", "len"} /\ IsWordPrefix(k, <<ToLower(c)>>)
            THEN <<"mark", "field_start">> ELSE <<"field_start">>)
    [] OTHER -> Err

FieldName(c, k, t) ==
  CASE Token(c) -> Goto(<<"name", k, Append(t, ToLower(c))>>)
    [] c = ":"  -> Do(<<"value0", Kind(t)>>, <<"field_len">>)
    [] c \in {CR, LF} /\ k # "any" /\ IsWord(k, t) ->
         EndWord(c, k, IF k = "conn" THEN <<>> ELSE <<"field">>)
    [] OTHER -> Err

FieldValue(c, k, t) ==
  CASE c \in {CR, LF} -> IF k # "any" /\ IsWord(k, t) THEN EndWord(c, k, <<"field">>)
                         ELSE EndLine(c, <<"field">>, IF t = <<>> THEN k ELSE "any")
    [] OTHER -> Goto(IF k # "any" /\ IsWordPrefix(k, Append(t, ToLower(c)))
                     THEN <<"value", k, Append(t, ToLower(c))>> ELSE <<"value", "any", <<"x">>>>)

FieldValue0(c, k) ==
  With(<<"mark">>, IF c \in Blank THEN Goto(<<"value0", k>>) ELSE FieldValue(c, k, <<>>))

\* Behind a CR: of a line, of an empty value of kind k, and of an empty line behind it.
AfterCR(c, k) ==
  CASE c = LF -> Do(<<"line", IF k = "chunked" THEN "any" ELSE k>>,
                    IF k = "chunked" THEN <<"chunked">> ELSE <<>>)
    [] c # LF /\ k \in {"conn", "len", "enc"} -> Folded0(c, k, <<>>)
    [] OTHER -> Err

EmptyCR(c, k) == IF c = LF THEN Goto(<<"done", FALSE>>) ELSE Folded0(c, k, <<>>)

\* The switch over the states; only one of the final states counts as finished.
Step(at, c) ==
  CASE at[1] = "start"      -> Start(c)
    [] at[1] = "size"       -> ChunkSize(c)
    [] at[1] = "extension"  -> Extension(c)
    [] at[1] = "extension1" -> ExtensionName(c)
    [] at[1] = "extvalue"   -> ExtensionValue(c, TRUE)
    [] at[1] = "extvalue1"  -> ExtensionValue(c, FALSE)
    [] at[1] = "done CR"    -> IF c = LF THEN Goto(<<"done", TRUE>>) ELSE Err
    [] at[1] = "http"       -> Version(c, at[2])
    [] at[1] = "status0"    -> Status(c, TRUE)
    [] at[1] = "status"     -> Status(c, FALSE)
    [] at[1] = "reason0"    -> Reason(c, TRUE)
    [] at[1] = "reason"     -> Reason(c, FALSE)
    [] at[1] = "line"       -> Line(c, at[2])
    [] at[1] = "name"       -> FieldName(c, at[2], at[3])
    [] at[1] = "value0"     -> FieldValue0(c, at[2])
    [] at[1] = "value"      -> FieldValue(c, at[2], at[3])
    [] at[1] = "lf"         -> AfterCR(c, at[2])
    [] at[1] = "empty CR"   -> EmptyCR(c, at[2])
    [] at[1] = "folded"     -> Folded0(c, at[2], at[3])

-----------------------------------------------------------------------------
\* content_len is -1 until a header sets it; the response closes by default.
NewParser == [at |-> <<"start">>, mark |-> 0, field_start |-> 0, field_len |-> 0, error |-> 0,
              chunked |-> FALSE, close |-> FALSE, content_len |-> "none",
              data |-> NewHttpResponse(11, TRUE)]

HexValue(c) == IF c \in Digit THEN Value(c)
               ELSE 9 + CHOOSE d \in 1 .. 6 : Text("abcdef")[d] = ToLower(c)
HexNumber(t) ==
  LET n[i \in 0 .. Len(t)] == IF i = 0 THEN 0 ELSE 16 * n[i - 1] + HexValue(t[i]) IN n[Len(t)]

Least(a, b) == IF a < b THEN a ELSE b

VersionOf(t) == CASE t = Text("HTTP/1.1") -> 11 [] t = Text("HTTP/1.0") -> 10 [] OTHER -> 0

\* One action, with the character at offset p of buf.  Behind an empty Content-Length
\* or Transfer-Encoding the name may be that of the next line with the length of the
\* last: what it holds of the memory behind the buffer is left out.
Act(m, act, buf, p) ==
  LET it == SubSeq(buf, m.mark + 1, p)
      Set(f, v) == [m EXCEPT !.data[f] = v]
  IN CASE act = "mark"        -> [m EXCEPT !.mark = p]
       [] act = "field_start" -> [m EXCEPT !.field_start = p]
       [] act = "field_len"   -> [m EXCEPT !.field_len = p - m.field_start]
       [] act = "version"     -> IF VersionOf(it) = 0 THEN [m EXCEPT !.error = 1001]
                                 ELSE Set("version", VersionOf(it))
       [] act = "status"      -> Set("status", Number(it))
       [] act = "reason"      -> Set("reason", it)
       [] act = "content_len" -> [m EXCEPT !.content_len = Number(it)]
       [] act = "chunked"     -> [m EXCEPT !.chunked = TRUE]
       [] act = "close"       -> [m EXCEPT !.close = TRUE]
       [] act = "chunk_size"  -> [m EXCEPT !.chunked = TRUE, !.content_len = HexNumber(it)]
       [] act = "field"       ->
            IF m.field_len = 0 THEN [m EXCEPT !.error = 1002]
            ELSE Set("headers", setHeader(m.data.headers,
                                          SubSeq(buf, m.field_start + 1,
                                                 Least(m.field_start + m.field_len, Len(buf))),
                                          it))

TakeChar(s, buf, p) ==
  IF s.m.at[1] \in {"done", "error"} THEN s
  ELSE LET step == Step(s.m.at, buf[p])
           Run(w, act) == Act(w, act, buf, p - 1)
       IN [m |-> FoldLeft(Run, [s.m EXCEPT !.at = step.ph], step.acts),
           n |-> IF step.ph = <<"error">> THEN s.n ELSE s.n + 1]

\* The whole of a response that is in the buffer, in one call.
execute(m, buf) ==
  LET Take(s, p) == TakeChar(s, buf, p) IN Loop(Take, [m |-> m, n |-> 0], Len(buf))

isFinished(m) == m.at = <<"done", TRUE>>
hasError(m) == m.error # 0 \/ m.at = <<"error">>
getContentLength(m) == getHeaderAs(m.data.headers, LengthKey, 0)
=============================================================================
