----------------------------- MODULE ByteBuffer ------------------------------
(***************************************************************************)
(* What fatdog::ByteArray promises its users: a flat sequence of bytes     *)
(* with one position for reading and writing.  Nodes, capacity and the     *)
(* node under the position are no part of the promise.                     *)
(*                                                                         *)
(* io is the last call: its kind and the bytes that went in or out.        *)
(***************************************************************************)
EXTENDS Integers, Sequences

VARIABLES content, position, io

vars == <<content, position, io>>

\* s with the bytes of buf from index p on, longer than s if need be.
Overwritten(s, p, buf) ==
  [i \in 1 .. (IF Len(s) > p + Len(buf) THEN Len(s) ELSE p + Len(buf)) |->
     IF i \in p + 1 .. p + Len(buf) THEN buf[i - p] ELSE s[i]]

Rest == SubSeq(content, position + 1, Len(content))

Init == content = <<>> /\ position = 0 /\ io = [op |-> "none", data |-> <<>>]

\* The bytes go in at the position.
Write ==
  /\ io'.op = "write"
  /\ content' = Overwritten(content, position, io'.data)
  /\ position' = position + Len(io'.data)

\* The bytes come from the position, which moves behind them.
Read ==
  /\ io'.op = "read"
  /\ position' = position + Len(io'.data)
  /\ position' <= Len(content)
  /\ io'.data = SubSeq(content, position + 1, position')
  /\ UNCHANGED content

\* What is left is looked at, from the position on.
Peek ==
  /\ io'.op = "peek"
  /\ Len(io'.data) <= Len(Rest)
  /\ io'.data = SubSeq(Rest, 1, Len(io'.data))
  /\ UNCHANGED <<content, position>>

\* There are too few bytes: an exception, at the latest behind the last one.
Throw ==
  /\ io'.op = "throw"
  /\ position' \in position .. Len(content)
  /\ UNCHANGED content

\* The position moves; behind the end the bytes between are unspecified.
Seek ==
  /\ io'.op = "seek"
  /\ position' >= 0
  /\ Len(content') = IF position' > Len(content) THEN position' ELSE Len(content)
  /\ SubSeq(content', 1, Len(content)) = content

Clear ==
  /\ io'.op = "clear"
  /\ content' = <<>> /\ position' = 0

\* Calls that neither move nor change anything a reader sees.
Silent ==
  /\ io'.op \in {"silent", "dump"}
  /\ UNCHANGED <<content, position>>

Next == Write \/ Read \/ Peek \/ Throw \/ Seek \/ Clear \/ Silent

Spec == Init /\ [][Next]_vars
==============================================================================
