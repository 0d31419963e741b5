----------------------------- MODULE IpLiteral -----------------------------
(***************************************************************************)
(* An IP literal in brackets, one definition for each group of states.     *)
(* uri.rl and http11_parser.rl have the same rules IP_literal, IPv6address *)
(* and IPvFuture but for what their authors made of the repetitions; that  *)
(* difference is in the constants:                                         *)
(*   dec_octet(t), OctetPrefix(t)  t is an octet, the beginning of one     *)
(*   Behind(f)   how many 16 bit groups may follow "::" behind f groups    *)
(*   Full        the number of groups of an address without "::"           *)
(* A step takes the phase and a character to the next phase.  Phases are   *)
(*   <<"literal">>, <<"colon">>  behind "[" and "[:"                       *)
(*   <<"future", s>>             behind "v", digits, ".", characters       *)
(*   <<"front", f, t>>           in a group with f groups in front of it   *)
(*   <<"sep", f>>                behind the ":" that ends group f          *)
(*   <<"back", f, b, t>>         behind "::" and b more groups             *)
(***************************************************************************)
EXTENDS Chars, FiniteSets

CONSTANTS dec_octet(_), OctetPrefix(_), Behind(_), Full

End == <<"end">>
Bad == <<"error">>

h16(t) == Len(t) \in 1 .. 4 /\ t \in Seq(XDigit)

\* The pieces of t between the separators s.
SplitAt(t, s) ==
  LET ends == {0, Len(t) + 1} \cup {i \in 1 .. Len(t) : t[i] = s}
      At(k) == CHOOSE e \in ends : Cardinality({x \in ends : x < e}) = k
  IN [k \in 1 .. Cardinality(ends) - 1 |-> SubSeq(t, At(k - 1) + 1, At(k) - 1)]

IPv4address(t) ==
  LET o == SplitAt(t, ".") IN Len(o) = 4 /\ \A k \in 1 .. 4 : dec_octet(o[k])

IPv4Prefix(t) ==
  LET o == SplitAt(t, ".")
      n == Len(o)
  IN n <= 4 /\ OctetPrefix(o[n]) /\ \A k \in 1 .. n - 1 : dec_octet(o[k])

-----------------------------------------------------------------------------
\* Behind "[" and behind "[:".
First(c) ==
  CASE c \in XDigit -> <<"front", 0, <<c>>>>
    [] c = ":"      -> <<"colon">>
    [] c = "v"      -> <<"future", 0>>
    [] OTHER        -> Bad

Colon(c) == IF c = ":" THEN <<"back", 0, 0, <<>>>> ELSE Bad

IPvFuture(s, c) ==
  CASE s \in {0, 1} /\ c \in XDigit               -> <<"future", 1>>
    [] s = 1 /\ c = "."                           -> <<"future", 2>>
    [] s \in {2, 3} /\ c \in regchar \cup {":"}   -> <<"future", 3>>
    [] s = 3 /\ c = "]"                           -> End
    [] OTHER                                      -> Bad

\* A group in front of "::", or of an address that has none.  Where two groups are
\* left, an IPv4 address may stand for them.
EndsInFront(f, t) == \/ f + 1 = Full /\ h16(t)
                     \/ f + 2 = Full /\ IPv4address(t)
GrowsInFront(f, t) == \/ h16(t)
                      \/ f + 2 = Full /\ IPv4Prefix(t)

GroupInFront(f, t, c) ==
  CASE c = ":" /\ h16(t) /\ (Full = 0 \/ f + 1 < Full) -> <<"sep", f + 1>>
    [] c = "]" /\ EndsInFront(f, t) -> End
    [] c \in XDigit \cup {"."} /\ GrowsInFront(f, Append(t, c)) -> <<"front", f, Append(t, c)>>
    [] OTHER -> Bad

Sep(f, c) ==
  CASE c = ":"      -> <<"back", f, 0, <<>>>>
    [] c \in XDigit -> <<"front", f, <<c>>>>
    [] OTHER        -> Bad

\* Behind "::", with b groups complete and t of the next one: the address may end,
\* another group may follow, the group may go on as t.
EndsBehind(f, b, t) ==
  \/ t = <<>> /\ b = 0 /\ 0 \in Behind(f)
  \/ h16(t) /\ b + 1 \in Behind(f)
  \/ IPv4address(t) /\ b + 2 \in Behind(f)
MoreBehind(f, b, t) == h16(t) /\ \E k \in Behind(f) : k > b + 1
GrowsBehind(f, b, t) ==
  \/ h16(t) /\ \E k \in Behind(f) : k > b
  \/ IPv4Prefix(t) /\ b + 2 \in Behind(f)

GroupBehind(f, b, t, c) ==
  CASE c = "]" /\ EndsBehind(f, b, t) -> End
    [] c = ":" /\ MoreBehind(f, b, t) -> <<"back", f, b + 1, <<>>>>
    [] c \in XDigit \cup {"."} /\ GrowsBehind(f, b, Append(t, c)) -> <<"back", f, b, Append(t, c)>>
    [] OTHER -> Bad

\* The states between the brackets.
Step(at, c) ==
  CASE at[1] = "literal" -> First(c)
    [] at[1] = "colon"   -> Colon(c)
    [] at[1] = "future"  -> IPvFuture(at[2], c)
    [] at[1] = "front"   -> GroupInFront(at[2], at[3], c)
    [] at[1] = "sep"     -> Sep(at[2], c)
    [] at[1] = "back"    -> GroupBehind(at[2], at[3], at[4], c)
=============================================================================
