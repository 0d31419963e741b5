---------------------------- MODULE LogFormatter ----------------------------
(***************************************************************************)
(* LogFormatter::init of fatdog/log.cpp: a pattern is taken apart into     *)
(* literal texts and directives "%x" and "%x{format}".  What an item       *)
(* writes of an event is left out.                                         *)
(***************************************************************************)
EXTENDS Chars

\* s_format_items: the letters that have an item.
s_format_items == {"m", "p", "r", "c", "t", "n", "d", "f", "l", "T", "F", "N"}

Literal(str) == [type |-> 0, str |-> str, fmt |-> <<>>]
Directive(str, fmt) == [type |-> 1, str |-> str, fmt |-> fmt]

\* The first place from i on that holds c, one behind the end if there is none.
FindFrom(t, c, i) ==
  LET at == {k \in i .. Len(t) : t[k] = c}
  IN IF at = {} THEN Len(t) + 1 ELSE CHOOSE k \in at : \A j \in at : k <= j

\* The literal text that is pending goes in front of what follows it.
Flush(vec, nstr) == IF nstr = <<>> THEN vec ELSE Append(vec, Literal(nstr))

\* The loop over the pattern t: the place it is at, the literal text that is pending,
\* and what it leaves in vec and m_error.
Start == [at |-> 1, nstr |-> <<>>, vec |-> <<>>, error |-> FALSE]

\* A directive at the "%" of place r.at, with a letter or nothing behind it.
Take(t, r) ==
  LET i == r.at
      braced == i + 2 <= Len(t) /\ t[i + 2] = "{"
      close == FindFrom(t, "}", i + 3)
      next == FindFrom(t, "%", i + 1)
      Goes(k, item) == [r EXCEPT !.at = k, !.nstr = <<>>, !.vec = Append(Flush(@, r.nstr), item)]
  IN CASE i = Len(t) -> Goes(i + 1, Directive(<<>>, <<>>))
       [] i < Len(t) /\ ~braced -> Goes(i + 2, Directive(<<t[i + 1]>>, <<>>))
       [] braced /\ close <= Len(t) ->
            Goes(close + 1, Directive(<<t[i + 1]>>, SubSeq(t, i + 3, close - 1)))
       [] braced /\ close > Len(t) ->
            [at |-> next, nstr |-> <<>>, error |-> TRUE,
             vec |-> Append(r.vec, Literal(r.nstr \o SubSeq(t, i, next - 1)))]

\* One round of the loop.
Round(t, r) ==
  LET i == r.at
      plain == FindFrom(t, "%", i)
      next == FindFrom(t, "%", i + 1)
  IN CASE i > Len(t) -> r
       [] i <= Len(t) /\ t[i] # "%" ->
            [r EXCEPT !.at = plain, !.nstr = @ \o SubSeq(t, i, plain - 1)]
       [] i < Len(t) /\ t[i] = "%" /\ t[i + 1] = "%" ->
            [r EXCEPT !.at = i + 2, !.nstr = Append(@, "%")]
       [] i < Len(t) /\ t[i] = "%" /\ t[i + 1] \notin Alpha \cup {"%"} ->
            [r EXCEPT !.at = next, !.nstr = @ \o SubSeq(t, i, next - 1)]
       [] OTHER -> Take(t, r)

\* The whole loop: every round moves on.  Literal text at the end stays in nstr and
\* is lost.
Scan(t) ==
  LET after[k \in 0 .. Len(t)] == IF k = 0 THEN Start ELSE Round(t, after[k - 1])
  IN  after[Len(t)]

\* The items: an unknown letter becomes the text of an error message.
Item(v) ==
  IF v.type = 1 /\ (v.str = <<>> \/ v.str[1] \notin s_format_items)
  THEN [type |-> 0, str |-> <<"error_format">> \o v.str, fmt |-> <<>>] ELSE v

init(pattern) ==
  LET end == Scan(pattern)
  IN [items |-> [k \in 1 .. Len(end.vec) |-> Item(end.vec[k])], isError |-> end.error]
=============================================================================
