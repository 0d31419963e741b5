------------------------------- MODULE Chars -------------------------------
(***************************************************************************)
(* The character classes the generated parsers of fatdog test: a character *)
(* is a string of length one; the control characters no rule names are     *)
(* represented by "CTL", the bytes above 127 by "NA".                      *)
(***************************************************************************)
EXTENDS Naturals, Sequences

\* A TLA+ string as the sequence of its characters.
Text(s) == [i \in 1 .. Len(s) |-> SubSeq(s, i, i)]

SP == " "
TAB == "\t"
CR == "\r"
LF == "\n"
NUL == "NUL"
DEL == "DEL"

Upper == {"A", "B", "C", "D", "E", "F", "G", "H", "I", "J", "K", "L", "M", "N",
          "O", "P", "Q", "R", "S", "T", "U", "V", "W", "X", "Y", "Z"}
Lower == {"a", "b", "c", "d", "e", "f", "g", "h", "i", "j", "k", "l", "m", "n",
          "o", "p", "q", "r", "s", "t", "u", "v", "w", "x", "y", "z"}
LowerOf == [c \in Upper |->
  Text("abcdefghijklmnopqrstuvwxyz")
    [CHOOSE i \in 1 .. 26 : Text("ABCDEFGHIJKLMNOPQRSTUVWXYZ")[i] = c]]
Digit == {"0", "1", "2", "3", "4", "5", "6", "7", "8", "9"}
Alpha == Upper \cup Lower
XDigit == Digit \cup {"A", "B", "C", "D", "E", "F", "a", "b", "c", "d", "e", "f"}

\* tolower of a character and of a text.
ToLower(c) == IF c \in Upper THEN LowerOf[c] ELSE c
Folded(t) == [i \in 1 .. Len(t) |-> ToLower(t[i])]

\* The rules unreserved, sub_delims and pchar (without pct_encoded) of uri.rl and
\* http11_parser.rl; uri_relaxed is never set.
unreserved == Alpha \cup Digit \cup {"-", ".", "_", "~"}
sub_delims == {"!", "$", "&", "'", "(", ")", "*", "+", ",", ";", "="}
pchar == {"NA", ":", "@"} \cup unreserved \cup sub_delims
regchar == unreserved \cup sub_delims

\* HTTP_separator of http11_parser.rl, tspecials of httpclient_parser.rl.
Separator == {"(", ")", "<", ">", "@", ",", ";", ":", "\\", "\"", "/", "[", "]", "?", "=",
              "{", "}", SP, TAB}

\* What a digit is worth, and atoi / stoul of the digits at the head of s.
Value(c) == CHOOSE d \in 0 .. 9 : <<"0", "1", "2", "3", "4", "5", "6", "7", "8", "9">>[d + 1] = c
DigitsOf(s) == CHOOSE n \in 0 .. Len(s) :
                 /\ \A i \in 1 .. n : s[i] \in Digit
                 /\ n < Len(s) => s[n + 1] \notin Digit
Number(s) ==
  LET n[i \in 0 .. DigitsOf(s)] == IF i = 0 THEN 0 ELSE 10 * n[i - 1] + Value(s[i])
  IN n[DigitsOf(s)]

-----------------------------------------------------------------------------
\* The loop of a parser: Body(.. Body(Body(s, 1), 2) .., n).  It is cut into pieces,
\* each of which begins when the one in front of it has a value, so that TLC need not
\* nest the evaluation n deep.
Piece == 12
Loop(Body(_, _), s, n) ==
  LET Turns(r, lo, hi) ==
        LET f[k \in lo .. hi] == IF k = lo THEN r ELSE Body(f[k - 1], k) IN f[hi]
      End(j) == IF Piece * j < n THEN Piece * j ELSE n
      g[j \in 0 .. (n \div Piece) + 1] ==
        IF j = 0 THEN s
        ELSE CHOOSE r \in {Turns(h, End(j - 1), End(j)) : h \in {g[j - 1]}} : TRUE
  IN  g[(n \div Piece) + 1]
=============================================================================
