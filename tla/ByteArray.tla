------------------------------ MODULE ByteArray ------------------------------
(***************************************************************************)
(* fatdog/bytearray.cpp: a growing array of bytes kept in a list of nodes  *)
(* of m_baseSize bytes, with the typed reads and writes on top of it, and  *)
(* the way SocketStream receives into it and sends from it.                *)
(*                                                                         *)
(* An array is a record; an operation of the class is an operator on it.   *)
(* The loops that copy node by node are written in closed form: the k-th   *)
(* byte from offset off of a node lies (off + k) \div BaseSize nodes on.   *)
(* Following next behind the last node dereferences nullptr: ok is FALSE   *)
(* from then on and the process is gone.                                   *)
(*                                                                         *)
(* A byte has ByteBits bits and an integer IntBits (8 and 16, 32 or 64 in  *)
(* the code), so that TLC can enumerate them.  The host is little-endian.  *)
(***************************************************************************)
EXTENDS Integers, Sequences, FiniteSetsExt

CONSTANTS
  BaseSize,     \* m_baseSize
  ByteBits,     \* bits of a byte
  IntBits,      \* bits of the integers, a multiple of ByteBits
  Values,       \* the unsigned integers the user writes
  Texts,        \* the strings the user writes, as sequences of bytes
  Fills,        \* what new char[] may contain
  MaxCapacity,  \* bound: the user writes only what ends below it
  MaxOps        \* bound: calls altogether

ASSUME ByteArrayAssumption ==
  /\ BaseSize \in Nat \ {0}
  /\ ByteBits \in Nat \ {0, 1}
  /\ IntBits \in Nat \ {0}
  /\ IntBits % ByteBits = 0
  /\ Values \subseteq 0 .. 2^IntBits - 1
  /\ Texts \subseteq Seq(Nat)
  /\ Fills \subseteq Nat /\ Fills # {}
  /\ MaxCapacity \in Nat
  /\ MaxOps \in Nat

\* What ^ means, for the powers that occur: TLC evaluates it and the provers do
\* not know it.
ASSUME PowersDouble == 2^0 = 1 /\ \A n \in 0 .. IntBits + ByteBits : 2^(n + 1) = 2 * 2^n

VARIABLES
  a,        \* the ByteArray
  file,     \* what writeToFile() left in the file
  io,       \* the last call and the bytes that went in or out
  written,  \* the items written and not overwritten since
  ops

vars == <<a, file, io, written, ops>>

Null == -1
Offsets == 0 .. BaseSize - 1
IntBytes == IntBits \div ByteBits
Group == ByteBits - 1                                  \* payload of a varint byte
Groups == (IntBits + Group - 1) \div Group             \* bytes of the longest one

-----------------------------------------------------------------------------
\* Mutated forms of the definitions below, one plausible slip each.
MutAfter(x, node, off, n) ==
  LET k == node + (off + n - 1) \div BaseSize IN IF k < x.nodes THEN k ELSE Null
MutCleared(x) ==
  [x EXCEPT !.m_position = 0, !.m_capacity = BaseSize, !.m_cur = 0, !.nodes = 1,
            !.mem = [p \in {0} \X Offsets |-> x.mem[p]]]
MutZigzag(v) == IF v < 0 THEN (2 * (-v)) % 2^IntBits ELSE (2 * v) % 2^IntBits
MutChunk(rest, off) == (IF rest > BaseSize THEN BaseSize - 1 ELSE rest) - off

-----------------------------------------------------------------------------
\* ByteArray::ByteArray; the bytes of a new node are whatever the heap holds.
New(fill) ==
  [m_position |-> 0, m_capacity |-> BaseSize, m_size |-> 0, m_cur |-> 0,
   m_endian |-> "big", nodes |-> 1, ok |-> TRUE,
   mem |-> [p \in {0} \X Offsets |-> fill]]

getReadSize(x) == x.m_size - x.m_position
getCapacity(x) == x.m_capacity - x.m_position

Crashed(x) == [x EXCEPT !.ok = FALSE]

\* addCapacity: how many nodes it adds.
NodesToAdd(size, old_cap) ==
  LET rest == size - old_cap
  IN  rest \div BaseSize + (IF rest % BaseSize > old_cap THEN 1 ELSE 0)

addCapacity(x, size, fill) ==
  LET old_cap == getCapacity(x)
      count == NodesToAdd(size, old_cap)
  IN  IF old_cap >= size THEN x
      ELSE [x EXCEPT
             !.nodes = @ + count,
             !.m_capacity = @ + count * BaseSize,
             !.mem = [p \in (0 .. x.nodes + count - 1) \X Offsets |->
                        IF p[1] < x.nodes THEN x.mem[p] ELSE fill],
             !.m_cur = IF old_cap # 0 THEN @ ELSE IF count > 0 THEN x.nodes ELSE Null]

\* A loop over n bytes from offset off of the node stays within the nodes.
Reaches(x, node, off, n) ==
  node # Null /\ (n = 0 \/ node + (off + n - 1) \div BaseSize < x.nodes)

\* The node such a loop ends at; a node that is used up is left.
After(x, node, off, n) ==
  LET k == node + (off + n) \div BaseSize IN IF k < x.nodes THEN k ELSE Null

\* The bytes such a loop passes.
Span(x, node, off, n) ==
  [k \in 1 .. n |->
     x.mem[<<node + (off + k - 1) \div BaseSize, (off + k - 1) % BaseSize>>]]

Offset(x) == x.m_position % BaseSize

\* The n bytes from the position on.
Ahead(x, n) == Span(x, x.m_cur, Offset(x), n)

\* x with the bytes of buf in memory from the position on.
Stored(x, buf) ==
  LET index(p) == (p[1] - x.m_cur) * BaseSize + p[2] - Offset(x) + 1
  IN  [x EXCEPT !.mem = [p \in DOMAIN x.mem |->
        IF index(p) \in 1 .. Len(buf) THEN buf[index(p)] ELSE x.mem[p]]]

\* x with the position moved n bytes on by a copying loop.
Moved(x, n) ==
  [x EXCEPT !.m_cur = After(x, @, Offset(x), n), !.m_position = @ + n]

Grown(x) == [x EXCEPT !.m_size = IF x.m_position > @ THEN x.m_position ELSE @]

\* write(buf, size).
Write(x, buf, fill) ==
  LET y == addCapacity(x, Len(buf), fill)
  IN  IF ~x.ok \/ buf = <<>> THEN x
      ELSE IF Reaches(y, y.m_cur, Offset(y), Len(buf))
      THEN Grown(Moved(Stored(y, buf), Len(buf)))
      ELSE Crashed(x)

\* clear(): the first node stays as it is.
Cleared(x) ==
  [x EXCEPT !.m_position = 0, !.m_size = 0, !.m_capacity = BaseSize, !.m_cur = 0,
            !.nodes = 1, !.mem = [p \in {0} \X Offsets |-> x.mem[p]]]

\* setPosition(v) for a v that is not out of range: the node v lies in.
NodeOf(x, v) == IF v \div BaseSize < x.nodes THEN v \div BaseSize ELSE Null

setPosition(x, v) == Grown([x EXCEPT !.m_position = v, !.m_cur = NodeOf(x, v)])

\* What a reading call leaves: the array, what it returns, whether it threw.
Result(x, data, thrown) == [a |-> x, data |-> data, thrown |-> thrown]

\* read(buf, size).
Read(x, n) ==
  IF n > getReadSize(x) THEN Result(x, <<>>, TRUE)
  ELSE IF Reaches(x, x.m_cur, Offset(x), n) THEN Result(Moved(x, n), Ahead(x, n), FALSE)
  ELSE Result(Crashed(x), <<>>, FALSE)

-----------------------------------------------------------------------------
\* The place of the k-th byte of a fixed-size integer; byteswap reverses them.
Place(k, endian) == IF endian = "little" THEN k - 1 ELSE IntBytes - k

\* The bytes of the fixed-size integer v in memory.
Fixed(v, endian) ==
  [k \in 1 .. IntBytes |-> (v \div 2^(ByteBits * Place(k, endian))) % 2^ByteBits]

\* The sums of the first 0 .. n numbers of s.
Sums(s, n) == LET sum[k \in 0 .. n] == IF k = 0 THEN 0 ELSE sum[k - 1] + s[k] IN sum

Unfixed(s, endian) ==
  Sums([k \in 1 .. IntBytes |-> s[k] * 2^(ByteBits * Place(k, endian))], IntBytes)[IntBytes]

\* writeUint32, writeUint64: groups of bits, low ones first; all bytes but the
\* last have the top bit set.
Varint(v) ==
  LET n == Min({m \in 1 .. Groups : m = Groups \/ v < 2^(Group * m)})
  IN  [k \in 1 .. n |-> ((v \div 2^(Group * (k - 1))) % 2^Group)
                          + (IF k < n THEN 2^Group ELSE 0)]

\* readUint32, readUint64: what the bytes s stand for.
Unvarint(s) ==
  Sums([k \in 1 .. Len(s) |-> (s[k] % 2^Group) * 2^(Group * (k - 1))], Len(s))[Len(s)]
    % 2^IntBits

\* EncodeZigzag32, EncodeZigzag64; the negation and the product wrap around.
Zigzag(v) == IF v < 0 THEN (2 * (-v) - 1) % 2^IntBits ELSE (2 * v) % 2^IntBits

\* The signed integer with the bits of u.
Signed(u) == IF u < 2^(IntBits - 1) THEN u ELSE u - 2^IntBits

\* DecodeZigzag32, DecodeZigzag64: the exclusive or with all ones or none.
Unzigzag(u) ==
  Signed(IF u % 2 = 0 THEN u \div 2 ELSE 2^IntBits - 1 - u \div 2)

\* readUint32, readUint64: byte by byte up to one without the top bit, at most
\* Groups; the bytes before a missing one are consumed.
ReadUint(x) ==
  LET most  == IF getReadSize(x) < Groups THEN getReadSize(x) ELSE Groups
      s     == Ahead(x, most)
      last  == {k \in 1 .. most : s[k] < 2^Group}
      n     == IF last = {} THEN most ELSE Min(last)
      short == last = {} /\ most < Groups
  IN  Result(Moved(x, n), Unvarint(SubSeq(s, 1, n)), short)

\* What user code writes: a byte, a fixed-size integer, float or double, an
\* unsigned or signed varint, a string behind a fixed or a varint length.
Items ==
  [kind : {"byte"}, value : {v \in Values : v < 2^ByteBits}]
    \cup [kind : {"fixed", "uint"}, value : Values]
    \cup [kind : {"int"}, value : {Signed(v) : v \in Values}]
    \cup [kind : {"stringF", "stringVint"}, value : Texts]

Kinds == {"byte", "fixed", "uint", "int", "stringF", "stringVint"}

\* The two calls of write() an item leads to, the second one for strings.
Parts(it, endian) ==
  CASE it.kind = "byte"       -> <<<<it.value>>, <<>>>>
    [] it.kind = "fixed"      -> <<Fixed(it.value, endian), <<>>>>
    [] it.kind = "uint"       -> <<Varint(it.value), <<>>>>
    [] it.kind = "int"        -> <<Varint(Zigzag(it.value)), <<>>>>
    [] it.kind = "stringF"    -> <<Fixed(Len(it.value), endian), it.value>>
    [] it.kind = "stringVint" -> <<Varint(Len(it.value)), it.value>>

\* The bytes of a string whose length was read with result r.
Text(r) == IF r.thrown THEN r ELSE Read(r.a, r.data)

\* Result r with value v for its bytes, unless the call threw.
Decoded(r, v) == IF r.thrown THEN r ELSE [r EXCEPT !.data = v]

ReadFixed(x) ==
  LET r == Read(x, IntBytes) IN Decoded(r, Unfixed(r.data, x.m_endian))

\* readFint8 ... readStringVint.
ReadItem(x, kind) ==
  CASE kind = "byte"       -> Decoded(Read(x, 1), Read(x, 1).data[1])
    [] kind = "fixed"      -> ReadFixed(x)
    [] kind = "uint"       -> ReadUint(x)
    [] kind = "int"        -> Decoded(ReadUint(x), Unzigzag(ReadUint(x).data))
    [] kind = "stringF"    -> Text(ReadFixed(x))
    [] kind = "stringVint" -> Text(ReadUint(x))

-----------------------------------------------------------------------------
\* writeToFile: how many bytes of a node one round of the loop writes.
Chunk(rest, off) == (IF rest > BaseSize THEN BaseSize ELSE rest) - off

\* writeToFile: pos, read_size and the file before the loop, and after a round that
\* is at the given node; a negative count makes the stream bad and nothing is
\* written any more.
ToDump(x) == [pos |-> x.m_position, rest |-> getReadSize(x), data |-> <<>>, bad |-> FALSE]

DumpNode(x, node, r) ==
  LET off == r.pos % BaseSize
      len == Chunk(r.rest, off)
      bad == r.bad \/ len < 0
  IN  IF r.rest <= 0 THEN r
      ELSE [pos |-> r.pos + len, rest |-> r.rest - len, bad |-> bad,
            data |-> IF bad THEN r.data ELSE r.data \o Span(x, node, off, len)]

\* The nodes from the current one on, and the loop over them.
NodesLeft(x) == IF x.m_cur = Null THEN 0 ELSE x.nodes - x.m_cur

Dumping(x) ==
  LET round[k \in 0 .. NodesLeft(x)] ==
        IF k = 0 THEN ToDump(x) ELSE DumpNode(x, x.m_cur + k - 1, round[k - 1])
  IN  round

Dumped(x) == Dumping(x)[NodesLeft(x)]

\* readFromFile: the file is written in pieces of BaseSize bytes.
Pieces(s) == (Len(s) + BaseSize - 1) \div BaseSize

PiecesEnd(s, k) == IF k * BaseSize < Len(s) THEN k * BaseSize ELSE Len(s)

Piece(s, k) == SubSeq(s, PiecesEnd(s, k - 1) + 1, PiecesEnd(s, k))

Loading(x, s, fill) ==
  LET after[k \in 0 .. Pieces(s)] ==
        IF k = 0 THEN x ELSE Write(after[k - 1], Piece(s, k), fill)
  IN  after

Loaded(x, s, fill) == Loading(x, s, fill)[Pieces(s)]

-----------------------------------------------------------------------------
Init ==
  /\ \E fill \in Fills : a = New(fill)
  /\ file = <<>>
  /\ io = [op |-> "none", data |-> <<>>]
  /\ written = {}
  /\ ops = 0

Call ==
  /\ a.ok
  /\ ops < MaxOps
  /\ ops' = ops + 1

\* The call went through as op; the bytes are those the position moved over.
Did(op, bytes) == io' = [op |-> op, data |-> SubSeq(bytes, 1, a'.m_position - a.m_position)]
Said(op, bytes) == io' = [op |-> op, data |-> bytes]

\* The items no byte of which lies in the bytes written now.
Kept == {e \in written : e.to <= a.m_position \/ e.from >= a'.m_position}

\* writeFint8 ... writeStringVint.
WriteItem(it, fill) ==
  LET p == Parts(it, a.m_endian) IN
  /\ Call
  /\ a.m_position + Len(p[1]) + Len(p[2]) <= MaxCapacity
  /\ a' = Write(Write(a, p[1], fill), p[2], fill)
  /\ Did("write", p[1] \o p[2])
  /\ written' = Kept \cup {[item |-> it, endian |-> a.m_endian,
                            from |-> a.m_position, to |-> a'.m_position]}
  /\ UNCHANGED file

\* write, writeStringWithoutLength.
WriteBytes(buf, fill) ==
  /\ Call
  /\ a.m_position + Len(buf) <= MaxCapacity
  /\ a' = Write(a, buf, fill)
  /\ Did("write", buf)
  /\ written' = Kept
  /\ UNCHANGED file

ReadFromFile(fill) ==
  /\ Call
  /\ a.m_position + Len(file) <= MaxCapacity
  /\ a' = Loaded(a, file, fill)
  /\ Did("write", file)
  /\ written' = Kept
  /\ UNCHANGED file

\* readFint8 ... readStringVint, whatever the bytes at the position are.
ReadAny(kind) ==
  LET r == ReadItem(a, kind) IN
  /\ Call
  /\ a' = r.a
  /\ Did(IF r.thrown THEN "throw" ELSE "read", Ahead(a, getReadSize(a)))
  /\ UNCHANGED <<file, written>>

\* toString, toHexString and getReadBuffers(buffers, n).
Peek(n) ==
  /\ Call
  /\ n <= getReadSize(a)
  /\ a' = IF n = 0 \/ Reaches(a, a.m_cur, Offset(a), n) THEN a ELSE Crashed(a)
  /\ Said("peek", Ahead(a, n))
  /\ UNCHANGED <<file, written>>

\* setPosition.
SetPosition(v) ==
  /\ Call
  /\ IF v > a.m_capacity
     THEN a' = a /\ Said("throw", <<>>)
     ELSE a' = setPosition(a, v) /\ Said("seek", <<>>)
  /\ UNCHANGED <<file, written>>

Clear ==
  /\ Call
  /\ a' = Cleared(a)
  /\ Said("clear", <<>>)
  /\ written' = {}
  /\ UNCHANGED file

SetIsLittleEndian(val) ==
  /\ Call
  /\ a' = [a EXCEPT !.m_endian = IF val THEN "little" ELSE "big"]
  /\ Said("silent", <<>>)
  /\ UNCHANGED <<file, written>>

\* writeToFile.
WriteToFile ==
  LET d == Dumped(a) IN
  /\ Call
  /\ a' = IF d.rest > 0 THEN Crashed(a) ELSE a
  /\ file' = IF d.rest > 0 THEN file ELSE d.data
  /\ Said("dump", <<>>)
  /\ UNCHANGED written

\* SocketStream::read(ba, length): getWriteBuffers, then recv() of some bytes
\* into them; nothing is received if it fails.
Receive(length, bytes, fill) ==
  LET y == addCapacity(a, length, fill) IN
  /\ Call
  /\ Len(bytes) <= length
  /\ a.m_position + length <= MaxCapacity
  /\ IF Reaches(y, y.m_cur, Offset(y), length)
     THEN IF bytes = <<>>
          THEN a' = y
          ELSE a' = setPosition(Stored(y, bytes), y.m_position + Len(bytes))
     ELSE a' = Crashed(a)
  /\ Did("write", bytes)
  /\ written' = Kept
  /\ UNCHANGED file

\* SocketStream::write(ba, length): getReadBuffers, then send() takes n of the
\* bytes; none if it fails.
Send(length, n) ==
  LET most == IF length < getReadSize(a) THEN length ELSE getReadSize(a) IN
  /\ Call
  /\ n <= most
  /\ a' = IF most > 0 /\ ~Reaches(a, a.m_cur, Offset(a), most) THEN Crashed(a)
          ELSE IF n > 0 THEN setPosition(a, a.m_position + n) ELSE a
  /\ Did("read", Ahead(a, most))
  /\ UNCHANGED <<file, written>>

Next ==
  \/ \E fill \in Fills :
       \/ \E it \in Items : WriteItem(it, fill)
       \/ \E buf \in Texts : WriteBytes(buf, fill)
       \/ ReadFromFile(fill)
       \/ \E length \in 1 .. BaseSize + 1, bytes \in Texts : Receive(length, bytes, fill)
  \/ \E kind \in Kinds : ReadAny(kind)
  \/ \E n \in 0 .. MaxCapacity : Peek(n)
  \/ \E v \in 0 .. MaxCapacity : SetPosition(v)
  \/ Clear
  \/ \E val \in BOOLEAN : SetIsLittleEndian(val)
  \/ WriteToFile
  \/ \E length, n \in 0 .. MaxCapacity : Send(length, n)

Spec == Init /\ [][Next]_vars

-----------------------------------------------------------------------------
\* The shape of the object: m_capacity counts the nodes, position and size lie
\* within it, and m_cur is the node the position lies in, nullptr behind the
\* last byte.  Every copying loop starts from that node without looking.
CurFollowsPosition ==
  /\ a.m_capacity = a.nodes * BaseSize
  /\ 0 <= a.m_position /\ a.m_position <= a.m_size /\ a.m_size <= a.m_capacity
  /\ DOMAIN a.mem = (0 .. a.nodes - 1) \X Offsets
  /\ a.m_cur = IF a.m_position = a.m_capacity THEN Null ELSE a.m_position \div BaseSize

\* What was written with a typed call and not overwritten since can be read
\* back from its place with the matching call and the byte order of then, if
\* that call returns: the same value, and the position is behind it.
ReadsBack ==
  a.ok =>
    \A e \in written :
      LET r == ReadItem(setPosition([a EXCEPT !.m_endian = e.endian], e.from), e.item.kind)
      IN  r.a.ok => ~r.thrown /\ r.data = e.item.value /\ r.a.m_position = e.to

Content == [i \in 1 .. a.m_size |->
              a.mem[<<(i - 1) \div BaseSize, (i - 1) % BaseSize>>]]

Buffer == INSTANCE ByteBuffer WITH content <- Content, position <- a.m_position

\* The list of nodes is a flat buffer to its users, as long as the process
\* lives: no call loses, repeats or misplaces a byte at a node boundary.
IsFlatBuffer == Buffer!Spec

\* From the start of a node writeToFile writes the rest of the array, whether
\* or not it ends inside a node.
DumpsTheRest ==
  [][io'.op = "dump" /\ a.m_position % BaseSize = 0 =>
       a'.ok /\ file' = SubSeq(Content, a.m_position + 1, a.m_size)]_vars
==============================================================================
