--------------------------- MODULE ByteArrayProofs ---------------------------
(***************************************************************************)
(* Proofs about ByteArray, for nodes of any size, bytes and integers of    *)
(* any width and any bytes.                                                *)
(***************************************************************************)
EXTENDS ByteArray, SequenceTheorems, WellFoundedInduction, TLAPS

-----------------------------------------------------------------------------
\* Division by the size of a node.  Quotient and remainder are the only ones.
LEMMA DivModUnique ==
  ASSUME NEW g \in Nat \ {0}, NEW q \in Int, NEW r \in 0 .. g - 1
  PROVE  (g * q + r) \div g = q /\ (g * q + r) % g = r
OBVIOUS

LEMMA DivLess ==
  ASSUME NEW g \in Nat \ {0}, NEW x \in Nat, NEW n \in Nat
  PROVE  x \div g < n <=> x < n * g
OBVIOUS

LEMMA DivMod ==
  ASSUME NEW g \in Nat \ {0}, NEW x \in Nat
  PROVE  \E q \in Nat, r \in 0 .. g - 1 : x = g * q + r /\ x \div g = q /\ x % g = r
<1>1. x \div g \in Nat
  OBVIOUS
<1>2. PICK q \in Nat : q = x \div g
  BY <1>1
<1>3. x < (q + 1) * g /\ ~(x < q * g)
  <2>1. q < q + 1 /\ ~(q < q) /\ q + 1 \in Nat
    OBVIOUS
  <2> QED BY <1>2, <2>1, DivLess
<1>4. PICK m \in Nat : m = g * q
  OBVIOUS
<1>5. q * g = m /\ (q + 1) * g = m + g
  BY <1>4
<1>6. PICK r \in 0 .. g - 1 : x = m + r
  <2>1. x - m \in 0 .. g - 1 /\ x = m + (x - m)
    BY <1>3, <1>4, <1>5
  <2> QED BY <2>1
<1>7. (g * q + r) % g = r
  BY DivModUnique
<1>8. x % g = r
  BY <1>4, <1>6, <1>7
<1>9. x = g * q + r
  BY <1>4, <1>6
<1> QED BY <1>2, <1>8, <1>9

\* Moving y on from x.
LEMMA DivModSum ==
  ASSUME NEW g \in Nat \ {0}, NEW x \in Nat, NEW y \in Nat
  PROVE  /\ (x + y) \div g = x \div g + ((x % g) + y) \div g
         /\ (x + y) % g = ((x % g) + y) % g
OBVIOUS

\* Places in a sequence that lies from p on.
LEMMA IndexWithin ==
  ASSUME NEW p \in Nat, NEW q \in Nat, NEW l \in Nat, q <= p + l, NEW i \in Nat, p <= i, i < q
  PROVE  i - p + 1 \in 1 .. l
OBVIOUS

LEMMA IndexBehind ==
  ASSUME NEW p \in Nat, NEW l \in Nat, NEW i \in Nat
  PROVE  i - p + 1 = l + (i - (p + l) + 1)
OBVIOUS

LEMMA IndexAhead ==
  ASSUME NEW p \in Int, NEW l \in Int, NEW j \in Int
  PROVE  (p + l) + (j - l) - 1 = p + j - 1
OBVIOUS

LEMMA IndexFromOne ==
  ASSUME NEW p \in Nat, NEW n \in Nat, NEW i \in p + 1 .. p + n
  PROVE  /\ p <= i - 1 /\ i - 1 < p + n /\ (i - 1) - p + 1 = i - p /\ i - p \in 1 .. n
OBVIOUS

-----------------------------------------------------------------------------
\* Induction and recursion over 0 .. n, with sets and functions in the place of
\* operators.
LEMMA LeastExists ==
  ASSUME NEW S \in SUBSET Nat, S # {}
  PROVE  \E m \in S : \A k \in S : m <= k
<1>1. PICK n \in S : \A k \in S : ~(<<k, n>> \in OpToRel(<, Nat))
  BY WFMin, NatLessThanWellFounded
<1>2. ASSUME NEW k \in S PROVE n <= k
  <2>1. k \in Nat /\ n \in Nat
    OBVIOUS
  <2>2. k < n => <<k, n>> \in {ss \in Nat \X Nat : ss[1] < ss[2]}
    BY <2>1
  <2>3. OpToRel(<, Nat) = {ss \in Nat \X Nat : ss[1] < ss[2]}
    BY Zenon DEF OpToRel
  <2>4. <<k, n>> \notin {ss \in Nat \X Nat : ss[1] < ss[2]}
    BY <1>1, <2>3, Zenon
  <2> QED BY <2>1, <2>2, <2>4
<1> QED BY <1>2

LEMMA Induction ==
  ASSUME NEW n \in Nat, NEW T \in SUBSET (0 .. n), 0 \in T,
         \A k \in 1 .. n : k - 1 \in T => k \in T
  PROVE  T = 0 .. n
<1> SUFFICES ASSUME T # 0 .. n PROVE FALSE
  OBVIOUS
<1>1. PICK m \in (0 .. n) \ T : \A k \in (0 .. n) \ T : m <= k
  <2>1. \E k \in 0 .. n : k \notin T
    BY Zenon
  <2>2. (0 .. n) \ T \in SUBSET Nat
    OBVIOUS
  <2>3. (0 .. n) \ T # {}
    BY <2>1
  <2> QED BY <2>2, <2>3, LeastExists
<1>2. m # 0 /\ m \in 1 .. n /\ m - 1 \in 0 .. n
  OBVIOUS
<1>3. m - 1 \in T
  BY <1>1, <1>2
<1> QED BY <1>2, <1>3

\* f is defined by the value s and the steps of step.
Follows(f, n, s, step) == f[0] = s /\ \A k \in 1 .. n : f[k] = step[k][f[k - 1]]

LEMMA Recursion ==
  ASSUME NEW n \in Nat, NEW S, NEW s \in S, NEW step \in [1 .. n -> [S -> S]]
  PROVE  \E f \in [0 .. n -> S] : Follows(f, n, s, step)
<1> DEFINE T == {m \in 0 .. n : \E f \in [0 .. m -> S] : Follows(f, m, s, step)}
<1>1. 0 \in T
  <2>1. Follows([k \in 0 .. 0 |-> s], 0, s, step)
    BY DEF Follows
  <2> QED BY <2>1
<1>2. ASSUME NEW m \in 1 .. n, m - 1 \in T PROVE m \in T
  <2>1. PICK f \in [0 .. m - 1 -> S] : Follows(f, m - 1, s, step)
    BY <1>2
  <2> DEFINE h == [k \in 0 .. m |-> IF k = m THEN step[m][f[m - 1]] ELSE f[k]]
  <2>2. step[m] \in [S -> S] /\ f[m - 1] \in S
    OBVIOUS
  <2>3. h \in [0 .. m -> S]
    BY <2>2
  <2>4. \A k \in 0 .. m - 1 : h[k] = f[k]
    OBVIOUS
  <2>5. h[m] = step[m][f[m - 1]] /\ h[m - 1] = f[m - 1] /\ h[0] = f[0]
    OBVIOUS
  <2> HIDE DEF h
  <2>6. ASSUME NEW k \in 1 .. m PROVE h[k] = step[k][h[k - 1]]
    <3>1. CASE k = m
      BY <2>5, <3>1
    <3>2. CASE k # m
      <4>1. k \in 1 .. m - 1 /\ k - 1 \in 0 .. m - 1 /\ k \in 0 .. m - 1
        BY <3>2
      <4> QED BY <2>1, <2>4, <4>1 DEF Follows
    <3> QED BY <3>1, <3>2
  <2>7. Follows(h, m, s, step)
    BY <2>1, <2>5, <2>6 DEF Follows
  <2> QED BY <2>3, <2>7
<1> HIDE DEF T
<1>3. T = 0 .. n
  <2>1. T \in SUBSET (0 .. n)
    BY DEF T
  <2> QED BY <1>1, <1>2, <2>1, Induction
<1>4. n \in T
  BY <1>3
<1> QED BY <1>4 DEF T

\* The sums of natural numbers.
LEMMA SumsOfNat ==
  ASSUME NEW n \in Nat, NEW s \in [1 .. n -> Nat]
  PROVE  /\ Sums(s, n) \in [0 .. n -> Nat] /\ Sums(s, n)[0] = 0
         /\ \A k \in 1 .. n : Sums(s, n)[k] = Sums(s, n)[k - 1] + s[k]
<1> DEFINE P(f) == f = [k \in 0 .. n |-> IF k = 0 THEN 0 ELSE f[k - 1] + s[k]]
           step == [k \in 1 .. n |-> [m \in Nat |-> m + s[k]]]
<1>1. Sums(s, n) = CHOOSE f : P(f)
  BY DEF Sums
<1>2. PICK f \in [0 .. n -> Nat] : Follows(f, n, 0, step)
  <2>1. step \in [1 .. n -> [Nat -> Nat]]
    OBVIOUS
  <2> HIDE DEF step
  <2> QED BY <2>1, Recursion
<1>3. P(f)
  <2>1. ASSUME NEW k \in 0 .. n PROVE f[k] = IF k = 0 THEN 0 ELSE f[k - 1] + s[k]
    <3>1. CASE k = 0
      BY <1>2, <3>1 DEF Follows
    <3>2. CASE k \in 1 .. n
      <4>1. f[k - 1] \in Nat
        BY <3>2
      <4>2. f[k] = step[k][f[k - 1]]
        <5> HIDE DEF step
        <5> QED BY <1>2, <3>2 DEF Follows
      <4>3. step[k] = [m \in Nat |-> m + s[k]]
        BY <3>2
      <4> QED BY <3>2, <4>1, <4>2, <4>3
    <3> QED BY <3>1, <3>2
  <2> QED BY <2>1
<1> HIDE DEF P
<1>4. P(CHOOSE g : P(g))
  BY <1>3, Zenon
<1>5. PICK g : g = Sums(s, n) /\ P(g)
  BY <1>1, <1>4, Zenon
<1>6. g = [k \in 0 .. n |-> IF k = 0 THEN 0 ELSE g[k - 1] + s[k]]
  BY <1>5 DEF P
<1>7. g[0] = 0 /\ \A k \in 1 .. n : g[k] = g[k - 1] + s[k]
  BY <1>6
<1> DEFINE T == {k \in 0 .. n : g[k] \in Nat}
<1>8. T = 0 .. n
  <2>1. 0 \in T
    BY <1>7
  <2>3. ASSUME NEW k \in 1 .. n, k - 1 \in T PROVE k \in T
    <3>1. g[k - 1] \in Nat /\ s[k] \in Nat /\ g[k] = g[k - 1] + s[k]
      BY <1>7, <2>3
    <3> QED BY <3>1
  <2> HIDE DEF T
  <2>2. T \in SUBSET (0 .. n)
    BY DEF T
  <2> QED BY <2>1, <2>2, <2>3, Induction
<1>9. g \in [0 .. n -> Nat]
  BY <1>6, <1>8
<1> QED BY <1>5, <1>7, <1>9

-----------------------------------------------------------------------------
\* What an array is: its fields, and the shape that every call relies on.
Memory(n) == [(0 .. n - 1) \X Offsets -> Nat]
Memories == UNION {Memory(n) : n \in Nat}
Arrays ==
  [m_position : Nat, m_capacity : Nat, m_size : Nat, m_cur : Int, m_endian : {"big", "little"},
   nodes : Nat \ {0}, ok : BOOLEAN, mem : Memories]

Shape(x) ==
  /\ x.mem \in Memory(x.nodes)
  /\ x.m_capacity = x.nodes * BaseSize
  /\ x.m_position <= x.m_size /\ x.m_size <= x.m_capacity
  /\ x.m_cur = IF x.m_position = x.m_capacity THEN Null ELSE x.m_position \div BaseSize

Valid(x) == x \in Arrays /\ Shape(x)

\* The i-th byte of the array, counted from 0 through all nodes.
Flat(x, i) == x.mem[<<i \div BaseSize, i % BaseSize>>]

LEMMA MemoryIsMemories ==
  ASSUME NEW n \in Nat, NEW m \in Memory(n)
  PROVE  m \in Memories
BY DEF Memories

LEMMA ArrayFields ==
  ASSUME NEW x, Valid(x)
  PROVE  /\ x.m_position \in Nat /\ x.m_size \in Nat /\ x.m_capacity \in Nat
         /\ x.m_cur \in Int /\ x.nodes \in Nat \ {0} /\ x.ok \in BOOLEAN
         /\ x.m_endian \in {"big", "little"} /\ x.mem \in Memory(x.nodes)
         /\ x.m_position <= x.m_size /\ x.m_size <= x.m_capacity
         /\ x.m_capacity = x.nodes * BaseSize
BY DEF Valid, Shape, Arrays

\* A byte of the array lies in one of its nodes.
LEMMA NodeOfByte ==
  ASSUME NEW x, Valid(x), NEW i \in Nat
  PROVE  /\ i < x.m_capacity <=> i \div BaseSize < x.nodes
         /\ i < x.m_capacity => <<i \div BaseSize, i % BaseSize>> \in (0 .. x.nodes - 1) \X Offsets
         /\ i < x.m_capacity => Flat(x, i) \in Nat
<1>1. BaseSize \in Nat \ {0}
  BY ByteArrayAssumption
<1>2. PICK q \in Nat, r \in 0 .. BaseSize - 1 : i \div BaseSize = q /\ i % BaseSize = r
  BY <1>1, DivMod
<1>3. x.nodes \in Nat /\ x.m_capacity = x.nodes * BaseSize
  BY ArrayFields
<1>4. i \div BaseSize < x.nodes <=> i < x.m_capacity
  BY <1>1, <1>3, DivLess
<1>5. ASSUME i < x.m_capacity PROVE <<q, r>> \in (0 .. x.nodes - 1) \X Offsets
  <2>1. q \in 0 .. x.nodes - 1
    BY <1>2, <1>3, <1>4, <1>5
  <2>2. r \in Offsets
    BY DEF Offsets
  <2> QED BY <2>1, <2>2
<1>6. x.mem \in [(0 .. x.nodes - 1) \X Offsets -> Nat]
  BY ArrayFields DEF Memory
<1>7. <<q, r>> \in (0 .. x.nodes - 1) \X Offsets => x.mem[<<q, r>>] \in Nat
  BY <1>6, Zenon
<1> QED BY <1>2, <1>4, <1>5, <1>7, Zenon DEF Flat

\* The k-th byte from the position on, seen from the current node.
LEMMA FromCur ==
  ASSUME NEW x, Valid(x), x.m_position < x.m_capacity, NEW k \in Nat
  PROVE  /\ x.m_cur # Null /\ x.m_cur = x.m_position \div BaseSize
         /\ x.m_cur + (Offset(x) + k) \div BaseSize = (x.m_position + k) \div BaseSize
         /\ (Offset(x) + k) % BaseSize = (x.m_position + k) % BaseSize
<1>1. BaseSize \in Nat \ {0}
  BY ByteArrayAssumption
<1>2. x.m_position \in Nat
  BY ArrayFields
<1>3. x.m_cur = x.m_position \div BaseSize
  BY ArrayFields DEF Valid, Shape
<1>4. x.m_position \div BaseSize \in Nat
  BY <1>1, <1>2, DivMod
<1>5. x.m_cur # Null
  BY <1>3, <1>4 DEF Null
<1>6. /\ (x.m_position + k) \div BaseSize
            = x.m_position \div BaseSize + ((x.m_position % BaseSize) + k) \div BaseSize
      /\ (x.m_position + k) % BaseSize = ((x.m_position % BaseSize) + k) % BaseSize
  BY <1>1, <1>2, DivModSum
<1> QED BY <1>3, <1>5, <1>6, Zenon DEF Offset

\* A copying loop stays within the nodes exactly when there is capacity.
LEMMA ReachesIff ==
  ASSUME NEW x, Valid(x), NEW n \in Nat
  PROVE  Reaches(x, x.m_cur, Offset(x), n) <=>
           x.m_position < x.m_capacity /\ x.m_position + n <= x.m_capacity
<1>1. x.m_position \in Nat /\ x.m_capacity \in Nat /\ x.m_position <= x.m_capacity /\ x.nodes \in Nat
  BY ArrayFields
<1>2. CASE x.m_position = x.m_capacity
  <2>1. x.m_cur = Null
    BY <1>2 DEF Valid, Shape
  <2> QED BY <1>1, <1>2, <2>1 DEF Reaches
<1>3. CASE x.m_position < x.m_capacity
  <2>1. x.m_cur # Null
    BY <1>3, FromCur
  <2>2. CASE n = 0
    BY <1>1, <1>3, <2>1, <2>2 DEF Reaches
  <2>3. CASE n # 0
    <3>1. n - 1 \in Nat /\ x.m_position + (n - 1) \in Nat
      BY <1>1, <2>3
    <3>2. x.m_cur + (Offset(x) + (n - 1)) \div BaseSize = (x.m_position + (n - 1)) \div BaseSize
      BY <1>3, <3>1, FromCur
    <3>3. x.m_position + (n - 1) < x.m_capacity <=> (x.m_position + (n - 1)) \div BaseSize < x.nodes
      BY <3>1, NodeOfByte
    <3>4. Offset(x) + n - 1 = Offset(x) + (n - 1)
      <4>1. Offset(x) \in Int
        BY <1>1, ByteArrayAssumption DEF Offset
      <4> QED BY <4>1
    <3>5. Reaches(x, x.m_cur, Offset(x), n) <=> x.m_cur + (Offset(x) + n - 1) \div BaseSize < x.nodes
      BY <2>1, <2>3 DEF Reaches
    <3>6. Reaches(x, x.m_cur, Offset(x), n) <=> x.m_position + (n - 1) < x.m_capacity
      BY <3>2, <3>3, <3>4, <3>5, Zenon
    <3> QED BY <1>1, <1>3, <3>6
  <2> QED BY <2>2, <2>3
<1> QED BY <1>1, <1>2, <1>3

\* The bytes such a loop passes are the next ones of the array.
LEMMA AheadIsFlat ==
  ASSUME NEW x, Valid(x), NEW n \in Nat, x.m_position + n <= x.m_capacity
  PROVE  /\ Ahead(x, n) = [k \in 1 .. n |-> Flat(x, x.m_position + k - 1)]
         /\ Ahead(x, n) \in Seq(Nat) /\ Len(Ahead(x, n)) = n
         /\ \A k \in 1 .. n : Ahead(x, n)[k] = Flat(x, x.m_position + k - 1)
<1>1. x.m_position \in Nat /\ x.m_capacity \in Nat
  BY ArrayFields
<1>2. ASSUME NEW k \in 1 .. n
      PROVE  /\ x.mem[<<x.m_cur + (Offset(x) + k - 1) \div BaseSize, (Offset(x) + k - 1) % BaseSize>>]
                    = Flat(x, x.m_position + k - 1)
             /\ Flat(x, x.m_position + k - 1) \in Nat
  <2>1. k - 1 \in Nat /\ x.m_position + (k - 1) \in Nat /\ x.m_position + (k - 1) < x.m_capacity
        /\ x.m_position < x.m_capacity /\ x.m_position + k - 1 = x.m_position + (k - 1)
    BY <1>1
  <2>2. Offset(x) + k - 1 = Offset(x) + (k - 1)
    <3>1. Offset(x) \in Int
      BY <1>1, ByteArrayAssumption DEF Offset
    <3> QED BY <3>1
  <2>3. /\ x.m_cur + (Offset(x) + (k - 1)) \div BaseSize = (x.m_position + (k - 1)) \div BaseSize
        /\ (Offset(x) + (k - 1)) % BaseSize = (x.m_position + (k - 1)) % BaseSize
    BY <2>1, FromCur
  <2>4. Flat(x, x.m_position + (k - 1)) \in Nat
    BY <2>1, NodeOfByte
  <2> QED BY <2>1, <2>2, <2>3, <2>4, Zenon DEF Flat
<1>3. Ahead(x, n) = [k \in 1 .. n |-> Flat(x, x.m_position + k - 1)]
  BY <1>2 DEF Ahead, Span
<1>4. [k \in 1 .. n |-> Flat(x, x.m_position + k - 1)] \in [1 .. n -> Nat]
  BY <1>2
<1> QED BY <1>3, <1>4

\* Where such a loop ends.
LEMMA AfterIsShape ==
  ASSUME NEW x, Valid(x), NEW n \in Nat, x.m_position + n <= x.m_capacity
  PROVE  After(x, x.m_cur, Offset(x), n) =
           IF x.m_position + n = x.m_capacity THEN Null ELSE (x.m_position + n) \div BaseSize
<1>1. x.m_position \in Nat /\ x.m_capacity \in Nat /\ x.nodes \in Nat /\ BaseSize \in Nat \ {0}
      /\ x.m_capacity = x.nodes * BaseSize
  BY ArrayFields, ByteArrayAssumption
<1>2. CASE x.m_position < x.m_capacity
  <2>1. x.m_cur + (Offset(x) + n) \div BaseSize = (x.m_position + n) \div BaseSize
    BY <1>2, FromCur
  <2>2. x.m_position + n < x.m_capacity <=> (x.m_position + n) \div BaseSize < x.nodes
    BY <1>1, NodeOfByte
  <2>3. x.m_position + n < x.m_capacity <=> ~(x.m_position + n = x.m_capacity)
    BY <1>1
  <2> QED BY <2>1, <2>2, <2>3, Zenon DEF After
<1>3. CASE x.m_position = x.m_capacity
  <2>1. n = 0 /\ x.m_cur = -1
    BY <1>1, <1>3 DEF Valid, Shape, Null
  <2>2. Offset(x) = 0
    <3>1. (BaseSize * x.nodes + 0) % BaseSize = 0
      <4>1. 0 \in 0 .. BaseSize - 1 /\ x.nodes \in Int
        BY <1>1
      <4> QED BY <1>1, <4>1, DivModUnique
    <3>2. BaseSize * x.nodes + 0 = x.m_position
      BY <1>1, <1>3
    <3> QED BY <3>1, <3>2, Zenon DEF Offset
  <2>3. -1 + (0 + 0) \div BaseSize = -1
    BY <1>1
  <2> QED BY <1>1, <1>3, <2>1, <2>2, <2>3 DEF After, Null
<1> QED BY <1>1, <1>2, <1>3

-----------------------------------------------------------------------------
\* The calls on an array.  y has the bytes and nodes of x.
SameNodes(x, y) ==
  /\ y.mem = x.mem /\ y.nodes = x.nodes /\ y.m_capacity = x.m_capacity
  /\ y.m_endian = x.m_endian

Larger(m, n) == IF m > n THEN m ELSE n

LEMMA NewValid ==
  ASSUME NEW fill \in Nat
  PROVE  /\ Valid(New(fill)) /\ New(fill).m_position = 0 /\ New(fill).m_size = 0
         /\ New(fill).m_cur = 0 /\ New(fill).ok = TRUE
<1>1. BaseSize \in Nat \ {0} /\ 1 * BaseSize = BaseSize /\ 0 \div BaseSize = 0
  BY ByteArrayAssumption
<1>2. [p \in {0} \X Offsets |-> fill] \in Memory(1)
  <2>1. 0 .. 1 - 1 = {0}
    OBVIOUS
  <2> QED BY <2>1 DEF Memory
<1>3. New(fill) \in Arrays
  <2>1. [p \in {0} \X Offsets |-> fill] \in Memories
    BY <1>2, MemoryIsMemories
  <2> QED BY <1>1, <2>1 DEF New, Arrays
<1>4. Shape(New(fill))
  BY <1>1, <1>2 DEF Shape, New
<1> QED BY <1>3, <1>4 DEF Valid, New

\* Reading: the position moves within the size.
LEMMA MovedValid ==
  ASSUME NEW x, Valid(x), NEW n \in Nat, x.m_position + n <= x.m_size
  PROVE  /\ Valid(Moved(x, n)) /\ SameNodes(x, Moved(x, n))
         /\ Moved(x, n).m_position = x.m_position + n /\ Moved(x, n).m_size = x.m_size
         /\ Moved(x, n).ok = x.ok
<1>1. PICK cur : cur = After(x, x.m_cur, Offset(x), n)
  OBVIOUS
<1>2. x.m_position + n \in Nat /\ x.m_position + n <= x.m_capacity
  BY ArrayFields
<1>3. cur = IF x.m_position + n = x.m_capacity THEN Null ELSE (x.m_position + n) \div BaseSize
  BY <1>1, <1>2, AfterIsShape
<1>4. cur \in Int
  BY <1>2, <1>3, ByteArrayAssumption DEF Null
<1>5. PICK y : y = [x EXCEPT !.m_cur = cur, !.m_position = x.m_position + n]
  OBVIOUS
<1>6. Moved(x, n) = y
  BY <1>1, <1>5 DEF Moved
<1>7. /\ y \in Arrays /\ y.m_cur = cur /\ y.m_position = x.m_position + n /\ y.m_size = x.m_size
      /\ y.ok = x.ok /\ SameNodes(x, y)
  BY <1>2, <1>4, <1>5 DEF Valid, Arrays, SameNodes
<1>8. Shape(y)
  BY <1>2, <1>3, <1>7 DEF Shape, Valid, SameNodes
<1> QED BY <1>6, <1>7, <1>8 DEF Valid

\* Writing: the size follows the position.
LEMMA GrownValid ==
  ASSUME NEW x, Valid(x), NEW p \in Nat, p <= x.m_capacity, NEW y,
         y = Grown([x EXCEPT !.m_position = p,
                             !.m_cur = IF p = x.m_capacity THEN Null ELSE p \div BaseSize])
  PROVE  /\ Valid(y) /\ SameNodes(x, y) /\ y.m_position = p /\ y.ok = x.ok
         /\ y.m_size = Larger(p, x.m_size)
<1>1. PICK cur : cur = IF p = x.m_capacity THEN Null ELSE p \div BaseSize
  OBVIOUS
<1>2. cur \in Int
  BY <1>1, ByteArrayAssumption DEF Null
<1>3. PICK z : z = [x EXCEPT !.m_position = p, !.m_cur = cur]
  OBVIOUS
<1>4. /\ z \in Arrays /\ z.m_cur = cur /\ z.m_position = p /\ z.m_size = x.m_size /\ z.ok = x.ok
      /\ SameNodes(x, z)
  BY <1>2, <1>3 DEF Valid, Arrays, SameNodes
<1>5. y = [z EXCEPT !.m_size = Larger(p, x.m_size)]
  BY <1>1, <1>3, <1>4 DEF Grown, Larger
<1>6. Larger(p, x.m_size) \in Nat /\ p <= Larger(p, x.m_size) /\ Larger(p, x.m_size) <= x.m_capacity
  BY ArrayFields DEF Larger
<1>7. /\ y \in Arrays /\ y.m_cur = cur /\ y.m_position = p /\ y.m_size = Larger(p, x.m_size)
      /\ y.ok = x.ok /\ SameNodes(x, y)
  BY <1>4, <1>5, <1>6 DEF Arrays, SameNodes
<1>8. Shape(y)
  BY <1>1, <1>6, <1>7 DEF Shape, Valid, SameNodes
<1> QED BY <1>7, <1>8 DEF Valid

LEMMA GrownMoved ==
  ASSUME NEW x, Valid(x), NEW n \in Nat, x.m_position + n <= x.m_capacity, NEW y,
         y = Grown(Moved(x, n))
  PROVE  /\ Valid(y) /\ SameNodes(x, y) /\ y.m_position = x.m_position + n /\ y.ok = x.ok
         /\ y.m_size = Larger(x.m_position + n, x.m_size)
<1>1. x.m_position + n \in Nat
  BY ArrayFields
<1>2. Moved(x, n) = [x EXCEPT !.m_position = x.m_position + n,
                              !.m_cur = IF x.m_position + n = x.m_capacity THEN Null
                                        ELSE (x.m_position + n) \div BaseSize]
  <2>1. PICK cur : cur = After(x, x.m_cur, Offset(x), n)
    OBVIOUS
  <2>2. [x EXCEPT !.m_cur = cur, !.m_position = x.m_position + n]
          = [x EXCEPT !.m_position = x.m_position + n, !.m_cur = cur]
    BY DEF Valid, Arrays
  <2>3. Moved(x, n) = [x EXCEPT !.m_cur = cur, !.m_position = x.m_position + n]
    BY <2>1 DEF Moved
  <2>4. cur = IF x.m_position + n = x.m_capacity THEN Null ELSE (x.m_position + n) \div BaseSize
    BY <2>1, AfterIsShape
  <2> QED BY <2>2, <2>3, <2>4, Zenon
<1>3. PICK p \in Nat : p = x.m_position + n
  BY <1>1
<1>4. /\ p <= x.m_capacity
      /\ y = Grown([x EXCEPT !.m_position = p,
                             !.m_cur = IF p = x.m_capacity THEN Null ELSE p \div BaseSize])
  BY <1>2, <1>3, Zenon
<1>5. /\ Valid(y) /\ SameNodes(x, y) /\ y.m_position = p /\ y.ok = x.ok
      /\ y.m_size = Larger(p, x.m_size)
  BY <1>4, GrownValid, Zenon
<1> QED BY <1>3, <1>5, Zenon

LEMMA SetPositionValid ==
  ASSUME NEW x, Valid(x), NEW p \in Nat, p <= x.m_capacity, NEW y, y = setPosition(x, p)
  PROVE  /\ Valid(y) /\ SameNodes(x, y) /\ y.m_position = p /\ y.ok = x.ok
         /\ y.m_size = Larger(p, x.m_size)
<1>1. NodeOf(x, p) = IF p = x.m_capacity THEN Null ELSE p \div BaseSize
  <2>1. p < x.m_capacity <=> p \div BaseSize < x.nodes
    BY NodeOfByte
  <2>2. p < x.m_capacity <=> ~(p = x.m_capacity)
    BY ArrayFields
  <2> QED BY <2>1, <2>2, Zenon DEF NodeOf
<1>2. y = Grown([x EXCEPT !.m_position = p,
                          !.m_cur = IF p = x.m_capacity THEN Null ELSE p \div BaseSize])
  BY <1>1, Zenon DEF setPosition
<1> QED BY <1>2, GrownValid, Zenon

LEMMA CrashedValid ==
  ASSUME NEW x, Valid(x)
  PROVE  /\ Valid(Crashed(x)) /\ SameNodes(x, Crashed(x)) /\ Crashed(x).ok = FALSE
         /\ Crashed(x).m_position = x.m_position /\ Crashed(x).m_size = x.m_size
<1>1. PICK y : y = Crashed(x)
  OBVIOUS
<1>2. /\ y \in Arrays /\ y.m_cur = x.m_cur /\ SameNodes(x, y) /\ y.ok = FALSE
      /\ y.m_position = x.m_position /\ y.m_size = x.m_size
  BY <1>1 DEF Valid, Arrays, Crashed, SameNodes
<1>3. Shape(y)
  BY <1>2 DEF Valid, Shape, SameNodes
<1> QED BY <1>1, <1>2, <1>3 DEF Valid

\* The bytes of buf go where the array has its next ones.
LEMMA StoredValid ==
  ASSUME NEW x, Valid(x), NEW buf \in Seq(Nat), x.m_position < x.m_capacity, NEW y, y = Stored(x, buf)
  PROVE  /\ Valid(y) /\ y.m_position = x.m_position /\ y.m_size = x.m_size /\ y.ok = x.ok
         /\ y.m_capacity = x.m_capacity /\ y.m_endian = x.m_endian /\ y.nodes = x.nodes
         /\ \A i \in Nat : i < x.m_capacity =>
              Flat(y, i) = IF i - x.m_position + 1 \in 1 .. Len(buf) THEN buf[i - x.m_position + 1]
                           ELSE Flat(x, i)
<1>1. /\ x.m_position \in Nat /\ x.m_cur \in Int /\ Len(buf) \in Nat /\ x.mem \in Memory(x.nodes)
      /\ BaseSize \in Nat \ {0} /\ x.nodes \in Nat
  BY ArrayFields, ByteArrayAssumption, LenProperties
<1>2. Offset(x) \in Int
  BY <1>1 DEF Offset
<1> DEFINE index(p) == (p[1] - x.m_cur) * BaseSize + p[2] - Offset(x) + 1
           mem == [p \in DOMAIN x.mem |-> IF index(p) \in 1 .. Len(buf) THEN buf[index(p)] ELSE x.mem[p]]
<1>3. y = [x EXCEPT !.mem = mem]
  BY DEF Stored
<1>4. DOMAIN x.mem = (0 .. x.nodes - 1) \X Offsets
  BY <1>1 DEF Memory
<1>5. mem \in Memory(x.nodes)
  <2>1. ASSUME NEW p \in DOMAIN x.mem
        PROVE  (IF index(p) \in 1 .. Len(buf) THEN buf[index(p)] ELSE x.mem[p]) \in Nat
    <3>1. x.mem[p] \in Nat
      BY <1>1, <2>1 DEF Memory
    <3>2. \A j \in 1 .. Len(buf) : buf[j] \in Nat
      BY ElementOfSeq
    <3> HIDE DEF index
    <3> QED BY <3>1, <3>2
  <2> HIDE DEF index
  <2> QED BY <1>4, <2>1 DEF Memory
<1>6. ASSUME NEW i \in Nat, i < x.m_capacity
      PROVE  mem[<<i \div BaseSize, i % BaseSize>>] =
               IF i - x.m_position + 1 \in 1 .. Len(buf) THEN buf[i - x.m_position + 1] ELSE Flat(x, i)
  <2>1. PICK q \in Nat, r \in 0 .. BaseSize - 1 :
          i = BaseSize * q + r /\ i \div BaseSize = q /\ i % BaseSize = r
    BY <1>1, DivMod
  <2>2. PICK c \in Nat, o \in 0 .. BaseSize - 1 :
          x.m_position = BaseSize * c + o /\ x.m_position \div BaseSize = c /\ x.m_position % BaseSize = o
    BY <1>1, DivMod
  <2>3. x.m_cur = c /\ Offset(x) = o
    BY <2>2, FromCur DEF Offset
  <2>4. <<q, r>> \in DOMAIN x.mem
    BY <1>4, <1>6, <2>1, NodeOfByte
  <2>5. index(<<q, r>>) = i - x.m_position + 1
    <3>1. index(<<q, r>>) = (q - c) * BaseSize + r - o + 1
      BY <2>3
    <3>2. (q - c) * BaseSize + r - o + 1 = i - x.m_position + 1
      BY <1>1, <2>1, <2>2
    <3> QED BY <3>1, <3>2
  <2>6. mem[<<q, r>>] = IF index(<<q, r>>) \in 1 .. Len(buf) THEN buf[index(<<q, r>>)] ELSE x.mem[<<q, r>>]
    <3> HIDE DEF index
    <3> QED BY <2>4, Zenon
  <2> HIDE DEF mem, index
  <2> QED BY <2>1, <2>5, <2>6, Zenon DEF Flat
<1> HIDE DEF mem
<1>7. mem \in Memories
  BY <1>1, <1>5, MemoryIsMemories
<1>8. /\ y \in Arrays /\ y.m_position = x.m_position /\ y.m_size = x.m_size /\ y.ok = x.ok
      /\ y.m_capacity = x.m_capacity /\ y.m_endian = x.m_endian /\ y.nodes = x.nodes
      /\ y.m_cur = x.m_cur /\ y.mem = mem
  BY <1>3, <1>7 DEF Valid, Arrays
<1>9. Shape(y)
  BY <1>5, <1>8 DEF Shape, Valid
<1> QED BY <1>6, <1>8, <1>9 DEF Valid, Flat

\* y is x with more nodes, perhaps.
Extended(x, y) ==
  /\ Valid(y) /\ y.m_position = x.m_position /\ y.m_size = x.m_size /\ y.ok = x.ok
  /\ y.m_endian = x.m_endian /\ y.m_capacity >= x.m_capacity
  /\ \A i \in Nat : i < x.m_capacity => Flat(y, i) = Flat(x, i)

\* addCapacity adds nodes and keeps everything else.
LEMMA CapacityAdded ==
  ASSUME NEW x, Valid(x), NEW size \in Nat, NEW fill \in Nat, NEW y, y = addCapacity(x, size, fill)
  PROVE  Extended(x, y)
<1>1. CASE getCapacity(x) >= size
  <2>1. y = x
    BY <1>1 DEF addCapacity
  <2> QED BY <2>1, ArrayFields DEF Extended
<1>2. CASE ~(getCapacity(x) >= size)
  <2>1. /\ x.m_position \in Nat /\ x.m_capacity \in Nat /\ x.nodes \in Nat \ {0} /\ x.m_cur \in Int
        /\ x.m_position <= x.m_capacity /\ x.mem \in Memory(x.nodes) /\ x.m_size \in Nat
        /\ BaseSize \in Nat \ {0} /\ x.m_capacity = x.nodes * BaseSize
        /\ x.m_size <= x.m_capacity /\ x.m_position <= x.m_size
    BY ArrayFields, ByteArrayAssumption
  <2>2. PICK count : count = NodesToAdd(size, getCapacity(x))
    OBVIOUS
  <2>3. count \in Nat
    <3>1. PICK rest \in Nat : rest = size - getCapacity(x)
      BY <1>2, <2>1 DEF getCapacity
    <3>2. rest \div BaseSize \in Nat
      BY <2>1, DivMod
    <3> QED BY <2>2, <3>1, <3>2 DEF NodesToAdd
  <2>4. PICK cur : cur = IF getCapacity(x) # 0 THEN x.m_cur ELSE IF count > 0 THEN x.nodes ELSE Null
    OBVIOUS
  <2>5. cur \in Int
    BY <2>1, <2>4 DEF Null
  <2>6. PICK nodes \in Nat \ {0} : nodes = x.nodes + count
    BY <2>1, <2>3
  <2>7. PICK cap \in Nat : cap = x.m_capacity + count * BaseSize
    BY <2>1, <2>3
  <2>8. cap = nodes * BaseSize /\ cap >= x.m_capacity /\ (count > 0 => cap > x.m_capacity)
        /\ (count = 0 => cap = x.m_capacity)
    <3>1. PICK more \in Nat : more = count * BaseSize
      BY <2>1, <2>3
    <3>2. count > 0 => more > 0
      BY <2>1, <2>3, <3>1
    <3>3. count = 0 => more = 0
      BY <2>1, <3>1
    <3>4. nodes * BaseSize = x.nodes * BaseSize + more
      <4>1. (x.nodes + count) * BaseSize = x.nodes * BaseSize + count * BaseSize
        BY <2>1, <2>3
      <4> QED BY <2>6, <3>1, <4>1
    <3> QED BY <2>1, <2>3, <2>7, <3>1, <3>2, <3>3, <3>4
  <2> DEFINE mem == [p \in (0 .. x.nodes + count - 1) \X Offsets |-> IF p[1] < x.nodes THEN x.mem[p] ELSE fill]
  <2>9. y = [x EXCEPT !.nodes = nodes, !.m_capacity = cap, !.mem = mem, !.m_cur = cur]
    BY <1>2, <2>2, <2>4, <2>6, <2>7 DEF addCapacity, Valid, Arrays
  <2>10. ASSUME NEW q \in 0 .. nodes - 1, NEW r \in Offsets
         PROVE  /\ mem[<<q, r>>] \in Nat
                /\ q < x.nodes => mem[<<q, r>>] = x.mem[<<q, r>>]
    <3>1. <<q, r>> \in (0 .. x.nodes + count - 1) \X Offsets
      <4>1. q \in 0 .. x.nodes + count - 1
        BY <2>1, <2>3, <2>6
      <4> QED BY <4>1
    <3>2. mem[<<q, r>>] = IF q < x.nodes THEN x.mem[<<q, r>>] ELSE fill
      <4>1. PICK p \in (0 .. x.nodes + count - 1) \X Offsets : p = <<q, r>>
        BY <3>1
      <4>2. p[1] = q
        BY <4>1
      <4>3. mem[p] = IF p[1] < x.nodes THEN x.mem[p] ELSE fill
        BY <4>1, Zenon
      <4> HIDE DEF mem
      <4> QED BY <4>1, <4>2, <4>3, Zenon
    <3>3. q < x.nodes => <<q, r>> \in (0 .. x.nodes - 1) \X Offsets
      BY <2>1
    <3>4. q < x.nodes => x.mem[<<q, r>>] \in Nat
      BY <2>1, <3>3 DEF Memory
    <3> HIDE DEF mem
    <3> QED BY <3>2, <3>4
  <2>11. mem \in Memory(nodes)
    <3>1. DOMAIN mem = (0 .. nodes - 1) \X Offsets
      <4>1. DOMAIN mem = (0 .. x.nodes + count - 1) \X Offsets
        OBVIOUS
      <4>2. x.nodes + count - 1 = nodes - 1
        BY <2>1, <2>3, <2>6
      <4> HIDE DEF mem
      <4> QED BY <4>1, <4>2, Zenon
    <3>2. \A p \in (0 .. nodes - 1) \X Offsets : mem[p] \in Nat
      <4> HIDE DEF mem
      <4> QED BY <2>10
    <3>3. mem = [p \in DOMAIN mem |-> mem[p]]
      OBVIOUS
    <3> HIDE DEF mem
    <3> QED BY <3>1, <3>2, <3>3 DEF Memory
  <2> HIDE DEF mem
  <2>12. mem \in Memories
    BY <2>11, MemoryIsMemories
  <2>13. /\ y \in Arrays /\ y.m_position = x.m_position /\ y.m_size = x.m_size /\ y.ok = x.ok
         /\ y.m_endian = x.m_endian /\ y.nodes = nodes /\ y.m_capacity = cap /\ y.mem = mem
         /\ y.m_cur = cur
    BY <2>5, <2>9, <2>12 DEF Valid, Arrays
  <2>14. cur = IF x.m_position = cap THEN Null ELSE x.m_position \div BaseSize
    <3>1. CASE getCapacity(x) # 0
      <4>1. x.m_position < x.m_capacity /\ x.m_position # cap
        BY <2>1, <2>8, <3>1 DEF getCapacity
      <4>2. x.m_cur = x.m_position \div BaseSize
        BY <4>1, FromCur
      <4> QED BY <2>4, <3>1, <4>1, <4>2
    <3>2. CASE getCapacity(x) = 0 /\ count > 0
      <4>1. x.m_position = BaseSize * x.nodes + 0 /\ x.m_position # cap
        <5>1. x.m_position = x.m_capacity /\ x.m_position # cap
          BY <2>1, <2>8, <3>2 DEF getCapacity
        <5>2. x.nodes * BaseSize = BaseSize * x.nodes + 0
          BY <2>1
        <5> QED BY <2>1, <5>1, <5>2
      <4>2. (BaseSize * x.nodes + 0) \div BaseSize = x.nodes
        <5>1. 0 \in 0 .. BaseSize - 1 /\ x.nodes \in Int
          BY <2>1
        <5> QED BY <2>1, <5>1, DivModUnique
      <4> QED BY <2>4, <3>2, <4>1, <4>2, Zenon
    <3>3. CASE getCapacity(x) = 0 /\ count = 0
      BY <2>1, <2>4, <2>8, <3>3 DEF getCapacity
    <3> QED BY <2>3, <3>1, <3>2, <3>3
  <2>15. Shape(y)
    BY <2>1, <2>8, <2>11, <2>13, <2>14 DEF Shape
  <2>16. ASSUME NEW i \in Nat, i < x.m_capacity PROVE Flat(y, i) = Flat(x, i)
    <3>1. PICK q \in Nat, r \in 0 .. BaseSize - 1 : i \div BaseSize = q /\ i % BaseSize = r
      BY <2>1, DivMod
    <3>2. q < x.nodes
      BY <2>16, <3>1, NodeOfByte
    <3>3. q \in 0 .. nodes - 1 /\ r \in Offsets
      BY <2>3, <2>6, <3>2, <2>1 DEF Offsets
    <3>4. mem[<<q, r>>] = x.mem[<<q, r>>]
      BY <2>10, <3>2, <3>3
    <3> QED BY <2>13, <3>1, <3>4 DEF Flat
  <2> QED BY <2>8, <2>13, <2>15, <2>16 DEF Valid, Extended
<1> QED BY <1>1, <1>2

\* The first bytes of s went in at the position of x, all of them if the process
\* lives, and made w.
Wrote(x, w, s) ==
  /\ Valid(w) /\ x.m_position <= w.m_position /\ w.m_position <= x.m_position + Len(s)
  /\ w.ok => x.ok /\ w.m_position = x.m_position + Len(s)
  /\ w.m_endian = x.m_endian
  /\ w.m_size = Larger(w.m_position, x.m_size)
  /\ \A i \in Nat : i < w.m_size =>
       Flat(w, i) = IF x.m_position <= i /\ i < w.m_position THEN s[i - x.m_position + 1] ELSE Flat(x, i)

\* A call that does not move the position.
LEMMA NothingWrote ==
  ASSUME NEW x, Valid(x), NEW w, Valid(w), NEW s \in Seq(Nat),
         w.m_position = x.m_position, w.m_size = x.m_size, w.m_endian = x.m_endian,
         w.ok => x.ok /\ s = <<>>,
         \A i \in Nat : i < x.m_size => Flat(w, i) = Flat(x, i)
  PROVE  Wrote(x, w, s)
<1>1. Len(s) \in Nat /\ x.m_position \in Nat /\ x.m_size \in Nat /\ x.m_position <= x.m_size
  BY ArrayFields, LenProperties
<1>2. s = <<>> => Len(s) = 0
  OBVIOUS
<1>3. ASSUME NEW i \in Nat PROVE ~(x.m_position <= i /\ i < w.m_position)
  BY <1>1
<1> QED BY <1>1, <1>2, <1>3 DEF Wrote, Larger

\* The bytes of buf lie in the nodes of y; the position moves behind them.
LEMMA BufferWrote ==
  ASSUME NEW x, Valid(x), NEW y, Extended(x, y), NEW buf \in Seq(Nat), buf # <<>>,
         y.m_position + Len(buf) <= y.m_capacity,
         NEW w, Valid(w), w.mem = Stored(y, buf).mem, w.m_position = y.m_position + Len(buf),
         w.m_size = Larger(w.m_position, y.m_size), w.ok = y.ok, w.m_endian = y.m_endian
  PROVE  Wrote(x, w, buf)
<1>1. /\ Len(buf) \in Nat \ {0} /\ x.m_position \in Nat /\ x.m_size \in Nat /\ x.m_position <= x.m_size
      /\ y.m_capacity \in Nat /\ x.m_capacity \in Nat /\ x.m_size <= x.m_capacity
      /\ Valid(y) /\ y.m_capacity >= x.m_capacity /\ y.m_position = x.m_position /\ y.m_size = x.m_size
  BY ArrayFields, LenProperties, EmptySeq DEF Extended
<1>2. y.m_position < y.m_capacity
  BY <1>1
<1>3. ASSUME NEW i \in Nat, i < w.m_size
      PROVE  Flat(w, i) = IF x.m_position <= i /\ i < w.m_position THEN buf[i - x.m_position + 1]
                          ELSE Flat(x, i)
  <2>1. i < y.m_capacity
    BY <1>1, <1>3 DEF Larger
  <2>2. Flat(Stored(y, buf), i) =
          IF i - y.m_position + 1 \in 1 .. Len(buf) THEN buf[i - y.m_position + 1] ELSE Flat(y, i)
    BY <1>1, <1>2, <2>1, StoredValid
  <2>3. Flat(w, i) = Flat(Stored(y, buf), i)
    BY DEF Flat
  <2>4. i - x.m_position + 1 \in 1 .. Len(buf) <=> x.m_position <= i /\ i < w.m_position
    BY <1>1
  <2>5. ~(x.m_position <= i /\ i < w.m_position) => i < x.m_capacity
    BY <1>1, <1>3 DEF Larger
    <2>6. i < x.m_capacity => Flat(y, i) = Flat(x, i)
    BY DEF Extended
  <2> QED BY <1>1, <2>2, <2>3, <2>4, <2>5, <2>6
<1> QED BY <1>1, <1>3 DEF Wrote, Extended

\* write(buf, size).
LEMMA WriteWrote ==
  ASSUME NEW x, Valid(x), NEW buf \in Seq(Nat), NEW fill \in Nat
  PROVE  Wrote(x, Write(x, buf, fill), buf)
<1>1. CASE ~x.ok \/ buf = <<>>
  <2>1. Write(x, buf, fill) = x
    BY <1>1 DEF Write
  <2>2. x.ok => buf = <<>>
    BY <1>1
  <2> QED BY <2>1, <2>2, NothingWrote
<1>2. CASE x.ok /\ buf # <<>>
  <2>1. PICK y : y = addCapacity(x, Len(buf), fill)
    OBVIOUS
  <2>2. Len(buf) \in Nat \ {0} /\ Len(buf) \in Nat
    BY <1>2, LenProperties, EmptySeq
  <2>3. Extended(x, y) /\ Valid(y)
    <3>1. Extended(x, y)
      BY <2>1, <2>2, CapacityAdded, Zenon
    <3> QED BY <3>1 DEF Extended
  <2>4. CASE ~Reaches(y, y.m_cur, Offset(y), Len(buf))
    <3>1. Write(x, buf, fill) = Crashed(x)
      BY <1>2, <2>1, <2>4 DEF Write
    <3>2. \A i \in Nat : Flat(Crashed(x), i) = Flat(x, i)
      BY CrashedValid DEF Flat, SameNodes
    <3>3. /\ Valid(Crashed(x)) /\ Crashed(x).ok = FALSE /\ Crashed(x).m_endian = x.m_endian
          /\ Crashed(x).m_position = x.m_position /\ Crashed(x).m_size = x.m_size
      BY CrashedValid DEF SameNodes
    <3> QED BY <3>1, <3>2, <3>3, NothingWrote
  <2>5. CASE Reaches(y, y.m_cur, Offset(y), Len(buf))
    <3>1. y.m_position < y.m_capacity /\ y.m_position + Len(buf) <= y.m_capacity
      BY <2>2, <2>3, <2>5, ReachesIff
    <3>2. PICK z : z = Stored(y, buf)
      OBVIOUS
    <3>3. /\ Valid(z) /\ z.m_position = y.m_position /\ z.m_size = y.m_size /\ z.ok = y.ok
          /\ z.m_capacity = y.m_capacity /\ z.m_endian = y.m_endian
      BY <2>3, <3>1, <3>2, StoredValid
    <3>4. PICK w : w = Grown(Moved(z, Len(buf)))
      OBVIOUS
    <3>5. /\ Valid(w) /\ SameNodes(z, w) /\ w.m_position = z.m_position + Len(buf) /\ w.ok = z.ok
          /\ w.m_size = Larger(z.m_position + Len(buf), z.m_size)
      BY <2>2, <3>1, <3>3, <3>4, GrownMoved
    <3>6. Write(x, buf, fill) = w
      BY <1>2, <2>1, <2>5, <3>2, <3>4 DEF Write
    <3>7. /\ w.mem = Stored(y, buf).mem /\ w.m_position = y.m_position + Len(buf)
          /\ w.m_size = Larger(w.m_position, y.m_size) /\ w.ok = y.ok /\ w.m_endian = y.m_endian
      BY <3>2, <3>3, <3>5 DEF SameNodes
    <3>8. Wrote(x, w, buf)
      BY <1>2, <2>3, <3>1, <3>5, <3>7, BufferWrote
    <3> QED BY <3>6, <3>8
  <2> QED BY <2>4, <2>5
<1> QED BY <1>1, <1>2

\* Two writes one after the other; the second does nothing if the first ended the
\* process.
LEMMA WroteTwice ==
  ASSUME NEW x, Valid(x), NEW s1 \in Seq(Nat), NEW s2 \in Seq(Nat), NEW w1, NEW w2,
         Wrote(x, w1, s1), Wrote(w1, w2, s2), ~w1.ok => w2 = w1
  PROVE  Wrote(x, w2, s1 \o s2)
<1>1. /\ Valid(w1) /\ Valid(w2)
      /\ x.m_position \in Nat /\ w1.m_position \in Nat /\ w2.m_position \in Nat
      /\ x.m_size \in Nat /\ x.m_position <= x.m_size
      /\ Len(s1) \in Nat /\ Len(s2) \in Nat /\ Len(s1 \o s2) = Len(s1) + Len(s2)
  <2>1. Valid(w1) /\ Valid(w2)
    BY DEF Wrote
  <2> QED BY <2>1, ArrayFields, LenProperties, ConcatProperties
<1>2. ASSUME NEW k \in 1 .. Len(s1) PROVE (s1 \o s2)[k] = s1[k]
  <2>1. k \in 1 .. Len(s1) + Len(s2) /\ k <= Len(s1)
    BY <1>1
  <2> QED BY <2>1, ConcatProperties
<1>3. ASSUME NEW k \in 1 .. Len(s2) PROVE (s1 \o s2)[Len(s1) + k] = s2[k]
  <2>1. Len(s1) + k \in 1 .. Len(s1) + Len(s2) /\ ~(Len(s1) + k <= Len(s1)) /\ Len(s1) + k - Len(s1) = k
    BY <1>1
  <2> QED BY <2>1, ConcatProperties
<1>4. CASE ~w1.ok
  <2>1. w2 = w1
    BY <1>4
  <2>2. ASSUME NEW i \in Nat, i < w1.m_size
        PROVE  Flat(w1, i) = IF x.m_position <= i /\ i < w1.m_position THEN (s1 \o s2)[i - x.m_position + 1]
                             ELSE Flat(x, i)
    <3>1. Flat(w1, i) = IF x.m_position <= i /\ i < w1.m_position THEN s1[i - x.m_position + 1]
                        ELSE Flat(x, i)
      BY <2>2 DEF Wrote
    <3>2. x.m_position <= i /\ i < w1.m_position => i - x.m_position + 1 \in 1 .. Len(s1)
      <4>1. w1.m_position <= x.m_position + Len(s1)
        BY DEF Wrote
      <4> QED BY <1>1, <4>1, IndexWithin
    <3>3. x.m_position <= i /\ i < w1.m_position => (s1 \o s2)[i - x.m_position + 1] = s1[i - x.m_position + 1]
      BY <1>2, <3>2
    <3> QED BY <3>1, <3>3
  <2>3. w1.m_position <= x.m_position + Len(s1 \o s2)
    BY <1>1 DEF Wrote
  <2> QED BY <1>4, <2>1, <2>2, <2>3 DEF Wrote
<1>5. CASE w1.ok
  <2>1. w1.m_position = x.m_position + Len(s1) /\ x.ok
    BY <1>5 DEF Wrote
  <2>2. w2.m_size = Larger(w2.m_position, x.m_size) /\ w1.m_size <= w2.m_size
    BY <1>1 DEF Wrote, Larger
  <2>3. ASSUME NEW i \in Nat, i < w2.m_size
        PROVE  Flat(w2, i) = IF x.m_position <= i /\ i < w2.m_position THEN (s1 \o s2)[i - x.m_position + 1]
                             ELSE Flat(x, i)
    <3>1. Flat(w2, i) = IF w1.m_position <= i /\ i < w2.m_position THEN s2[i - w1.m_position + 1]
                        ELSE Flat(w1, i)
      BY <2>3 DEF Wrote
    <3>2. i < w1.m_size =>
            Flat(w1, i) = IF x.m_position <= i /\ i < w1.m_position THEN s1[i - x.m_position + 1]
                          ELSE Flat(x, i)
      BY DEF Wrote
    <3>3. w1.m_size = Larger(w1.m_position, x.m_size) /\ w1.m_position <= w2.m_position
          /\ w2.m_position <= w1.m_position + Len(s2)
      BY DEF Wrote
    <3>4. CASE w1.m_position <= i /\ i < w2.m_position
      <4>1. PICK k \in 1 .. Len(s2) : k = i - w1.m_position + 1
        <5>1. i - w1.m_position + 1 \in 1 .. Len(s2)
          BY <1>1, <3>3, <3>4
        <5> QED BY <5>1
      <4>2. i - x.m_position + 1 = Len(s1) + k
        <5>1. i - x.m_position + 1 = Len(s1) + (i - (x.m_position + Len(s1)) + 1)
          BY <1>1, IndexBehind
        <5> QED BY <2>1, <4>1, <5>1, Zenon
      <4>3. x.m_position <= i
        BY <1>1, <2>1, <3>4
      <4>4. (s1 \o s2)[Len(s1) + k] = s2[k]
        BY <1>3, <4>1
      <4> QED BY <3>1, <3>4, <4>1, <4>2, <4>3, <4>4
    <3>5. CASE ~(w1.m_position <= i /\ i < w2.m_position) /\ x.m_position <= i /\ i < w1.m_position
      <4>1. i < w1.m_size /\ i < w2.m_position
        BY <1>1, <3>3, <3>5 DEF Larger
      <4>2. i - x.m_position + 1 \in 1 .. Len(s1)
        <5>1. w1.m_position <= x.m_position + Len(s1)
          BY <1>1, <2>1
        <5> QED BY <1>1, <3>5, <5>1, IndexWithin
      <4>3. (s1 \o s2)[i - x.m_position + 1] = s1[i - x.m_position + 1]
        BY <1>2, <4>2
      <4> QED BY <3>1, <3>2, <3>5, <4>1, <4>3
    <3>6. CASE ~(w1.m_position <= i /\ i < w2.m_position) /\ ~(x.m_position <= i /\ i < w1.m_position)
      <4>1. i < w1.m_size /\ ~(x.m_position <= i /\ i < w2.m_position)
        BY <1>1, <2>2, <2>3, <3>3, <3>6 DEF Larger
      <4> QED BY <3>1, <3>2, <3>6, <4>1
    <3> QED BY <3>4, <3>5, <3>6
  <2>4. x.m_position <= w2.m_position /\ w2.m_position <= x.m_position + Len(s1 \o s2)
    BY <1>1, <2>1 DEF Wrote
  <2>5. w2.ok => w2.m_position = x.m_position + Len(s1 \o s2)
    BY <1>1, <2>1 DEF Wrote
  <2> QED BY <2>1, <2>2, <2>3, <2>4, <2>5 DEF Wrote
<1> QED BY <1>4, <1>5

\* The loop of readFromFile.
ValidArrays == {x \in Arrays : Valid(x)}

LEMMA WriteInValid ==
  ASSUME NEW x \in ValidArrays, NEW buf \in Seq(Nat), NEW fill \in Nat
  PROVE  Write(x, buf, fill) \in ValidArrays
<1>1. Valid(x)
  BY DEF ValidArrays
<1>2. Wrote(x, Write(x, buf, fill), buf)
  BY <1>1, WriteWrote
<1>3. Valid(Write(x, buf, fill))
  BY <1>2 DEF Wrote
<1> QED BY <1>3 DEF ValidArrays, Valid

LEMMA PieceOf ==
  ASSUME NEW s \in Seq(Nat), NEW k \in Nat \ {0}
  PROVE  /\ PiecesEnd(s, k - 1) \in 0 .. Len(s) /\ PiecesEnd(s, k) \in PiecesEnd(s, k - 1) .. Len(s)
         /\ Piece(s, k) \in Seq(Nat)
         /\ SubSeq(s, 1, PiecesEnd(s, k - 1)) \o Piece(s, k) = SubSeq(s, 1, PiecesEnd(s, k))
<1>1. Len(s) \in Nat /\ BaseSize \in Nat \ {0}
  BY LenProperties, ByteArrayAssumption
<1>2. PICK m \in Nat : m = (k - 1) * BaseSize
  <2>1. k - 1 \in Nat
    OBVIOUS
  <2> QED BY <1>1, <2>1
<1>3. k * BaseSize = m + BaseSize
  BY <1>1, <1>2
<1>4. PICK e1 : e1 = PiecesEnd(s, k - 1)
  OBVIOUS
<1>5. PICK e2 : e2 = PiecesEnd(s, k)
  OBVIOUS
<1>6. e1 \in 0 .. Len(s)
  BY <1>1, <1>2, <1>4 DEF PiecesEnd
<1>7. e2 \in e1 .. Len(s)
  BY <1>1, <1>2, <1>3, <1>4, <1>5 DEF PiecesEnd
<1>8. SubSeq(s, e1 + 1, e2) \in Seq(Nat)
  <2>1. e1 + 1 \in Int /\ e2 \in Int /\ \A i \in e1 + 1 .. e2 : i \in 1 .. Len(s)
    BY <1>1, <1>6, <1>7
  <2>2. \A i \in e1 + 1 .. e2 : s[i] \in Nat
    BY <2>1, ElementOfSeq
  <2> QED BY <2>1, <2>2, SubSeqProperties
<1>9. SubSeq(s, 1, e1) \o SubSeq(s, e1 + 1, e2) = SubSeq(s, 1, e2)
  <2>1. 1 \in 1 .. Len(s) + 1 /\ e1 \in 1 - 1 .. Len(s)
    BY <1>1, <1>6
  <2> QED BY <1>7, <2>1, ConcatAdjacentSubSeq
<1> QED BY <1>4, <1>5, <1>6, <1>7, <1>8, <1>9 DEF Piece

LEMMA LastPiece ==
  ASSUME NEW s \in Seq(Nat)
  PROVE  Pieces(s) \in Nat /\ PiecesEnd(s, Pieces(s)) = Len(s) /\ PiecesEnd(s, 0) = 0
<1>1. Len(s) \in Nat /\ BaseSize \in Nat \ {0} /\ Len(s) + BaseSize - 1 \in Nat
  BY LenProperties, ByteArrayAssumption
<1>2. PICK q \in Nat, r \in 0 .. BaseSize - 1 :
        Len(s) + BaseSize - 1 = BaseSize * q + r /\ (Len(s) + BaseSize - 1) \div BaseSize = q
  BY <1>1, DivMod
<1>3. PICK m \in Nat : m = q * BaseSize
  BY <1>1
<1>4. BaseSize * q = m
  BY <1>1, <1>3
<1>5. m >= Len(s)
  BY <1>1, <1>2, <1>4
<1>6. Pieces(s) = q
  BY <1>2 DEF Pieces
<1>7. PiecesEnd(s, q) = Len(s)
  BY <1>1, <1>3, <1>5 DEF PiecesEnd
<1>8. PiecesEnd(s, 0) = 0
  <2>1. 0 * BaseSize = 0
    BY <1>1
  <2> QED BY <1>1, <2>1 DEF PiecesEnd
<1> QED BY <1>6, <1>7, <1>8

LEMMA LoadingSteps ==
  ASSUME NEW x \in ValidArrays, NEW s \in Seq(Nat), NEW fill \in Nat
  PROVE  /\ Loading(x, s, fill)[0] = x
         /\ \A k \in 1 .. Pieces(s) :
              Loading(x, s, fill)[k] = Write(Loading(x, s, fill)[k - 1], Piece(s, k), fill)
<1> DEFINE n == Pieces(s)
           P(f) == f = [k \in 0 .. n |-> IF k = 0 THEN x ELSE Write(f[k - 1], Piece(s, k), fill)]
           step == [k \in 1 .. n |-> [y \in ValidArrays |-> Write(y, Piece(s, k), fill)]]
<1>1. Loading(x, s, fill) = CHOOSE f : P(f)
  BY DEF Loading
<1>2. n \in Nat
  BY LastPiece
<1> HIDE DEF n
<1>3. ASSUME NEW k \in 1 .. n PROVE Piece(s, k) \in Seq(Nat)
  <2>1. k \in Nat \ {0}
    BY <1>2
  <2> QED BY <2>1, PieceOf
<1>4. PICK f \in [0 .. n -> ValidArrays] : Follows(f, n, x, step)
  <2>1. ASSUME NEW k \in 1 .. n
        PROVE  [y \in ValidArrays |-> Write(y, Piece(s, k), fill)] \in [ValidArrays -> ValidArrays]
    <3>1. \A y \in ValidArrays : Write(y, Piece(s, k), fill) \in ValidArrays
      BY <1>3, WriteInValid
    <3> QED BY <3>1
  <2>2. step \in [1 .. n -> [ValidArrays -> ValidArrays]]
    BY <2>1
  <2> HIDE DEF step
  <2> QED BY <1>2, <2>2, Recursion
<1>5. P(f)
  <2>1. ASSUME NEW k \in 0 .. n PROVE f[k] = IF k = 0 THEN x ELSE Write(f[k - 1], Piece(s, k), fill)
    <3>1. CASE k = 0
      BY <1>4, <3>1 DEF Follows
    <3>2. CASE k \in 1 .. n
      <4>1. f[k - 1] \in ValidArrays
        BY <1>2, <3>2
      <4>2. f[k] = step[k][f[k - 1]]
        <5> HIDE DEF step
        <5> QED BY <1>4, <3>2 DEF Follows
      <4>3. step[k] = [y \in ValidArrays |-> Write(y, Piece(s, k), fill)]
        BY <3>2
      <4>4. k # 0
        BY <1>2, <3>2
      <4> HIDE DEF step
      <4> QED BY <4>1, <4>2, <4>3, <4>4
    <3> QED BY <1>2, <3>1, <3>2
  <2> QED BY <2>1
<1> HIDE DEF P
<1>6. P(CHOOSE g : P(g))
  BY <1>5, Zenon
<1>7. PICK g : g = Loading(x, s, fill) /\ P(g)
  BY <1>1, <1>6, Zenon
<1>8. g = [k \in 0 .. n |-> IF k = 0 THEN x ELSE Write(g[k - 1], Piece(s, k), fill)]
  BY <1>7 DEF P
<1>9. g[0] = x /\ \A k \in 1 .. n : g[k] = Write(g[k - 1], Piece(s, k), fill)
  BY <1>2, <1>8
<1> QED BY <1>7, <1>9 DEF n

\* readFromFile writes the file.
LEMMA LoadedWrote ==
  ASSUME NEW x, Valid(x), NEW s \in Seq(Nat), NEW fill \in Nat
  PROVE  Wrote(x, Loaded(x, s, fill), s)
<1>1. PICK f : f = Loading(x, s, fill)
  OBVIOUS
<1>2. x \in ValidArrays
  BY DEF ValidArrays, Valid
<1>3. f[0] = x /\ \A k \in 1 .. Pieces(s) : f[k] = Write(f[k - 1], Piece(s, k), fill)
  BY <1>1, <1>2, LoadingSteps
<1>4. PICK n \in Nat : n = Pieces(s)
  BY LastPiece
<1> DEFINE T == {k \in 0 .. n : Wrote(x, f[k], SubSeq(s, 1, PiecesEnd(s, k)))}
<1>5. 0 \in T
  <2>1. SubSeq(s, 1, 0) = <<>>
    BY SubSeqEmpty
  <2>2. SubSeq(s, 1, PiecesEnd(s, 0)) = <<>> /\ <<>> \in Seq(Nat)
    BY <2>1, LastPiece
  <2>3. Wrote(x, x, <<>>)
    BY <2>2, NothingWrote
  <2>4. Wrote(x, f[0], SubSeq(s, 1, PiecesEnd(s, 0)))
    BY <1>3, <2>2, <2>3
  <2> QED BY <1>4, <2>4
<1>6. ASSUME NEW k \in 1 .. n, k - 1 \in T PROVE k \in T
  <2>1. k \in Nat \ {0} /\ k \in 1 .. Pieces(s) /\ k \in 0 .. n
    BY <1>4
  <2>2. PICK s1 : s1 = SubSeq(s, 1, PiecesEnd(s, k - 1))
    OBVIOUS
  <2>3. Piece(s, k) \in Seq(Nat) /\ s1 \o Piece(s, k) = SubSeq(s, 1, PiecesEnd(s, k))
    BY <2>1, <2>2, PieceOf
  <2>4. s1 \in Seq(Nat)
    <3>1. PICK e \in 0 .. Len(s) : e = PiecesEnd(s, k - 1)
      BY <2>1, PieceOf
    <3>2. 1 \in Int /\ e \in Int /\ \A i \in 1 .. e : i \in 1 .. Len(s)
      BY <3>1, LenProperties
    <3>3. \A i \in 1 .. e : s[i] \in Nat
      BY <3>2, ElementOfSeq
    <3> QED BY <2>2, <3>1, <3>2, <3>3, SubSeqProperties
  <2>5. Wrote(x, f[k - 1], s1)
    BY <1>6, <2>2
  <2>6. Valid(f[k - 1])
    BY <2>5 DEF Wrote
  <2>7. f[k] = Write(f[k - 1], Piece(s, k), fill)
    BY <1>3, <2>1
  <2>8. Wrote(f[k - 1], f[k], Piece(s, k))
    BY <2>3, <2>6, <2>7, WriteWrote
  <2>9. ~f[k - 1].ok => f[k] = f[k - 1]
    BY <2>7 DEF Write
  <2>10. Wrote(x, f[k], s1 \o Piece(s, k))
    BY <2>3, <2>4, <2>5, <2>8, <2>9, WroteTwice
  <2> QED BY <2>1, <2>3, <2>10
<1> HIDE DEF T
<1>7. T = 0 .. n
  <2>1. T \in SUBSET (0 .. n)
    BY DEF T
  <2> QED BY <1>4, <1>5, <1>6, <2>1, Induction
<1>8. n \in T
  BY <1>4, <1>7
<1>9. Wrote(x, f[n], SubSeq(s, 1, PiecesEnd(s, n)))
  BY <1>8 DEF T
<1>10. SubSeq(s, 1, PiecesEnd(s, n)) = s
  BY <1>4, LastPiece, SubSeqFull
<1> QED BY <1>1, <1>4, <1>9, <1>10 DEF Loaded

-----------------------------------------------------------------------------
\* The encodings: which powers occur, and that bytes are numbers.
LEMMA Widths ==
  /\ ByteBits \in Nat \ {0, 1} /\ IntBits \in Nat \ {0} /\ IntBytes \in Nat \ {0}
  /\ Group \in Nat \ {0} /\ Groups \in Nat \ {0}
  /\ \A j \in 0 .. IntBytes - 1 : ByteBits * j \in 0 .. IntBits
  /\ \A j \in 0 .. Groups - 1 : Group * j \in 0 .. IntBits
  /\ Group * Groups \in IntBits .. IntBits + ByteBits
<1>1. ByteBits \in Nat \ {0, 1} /\ IntBits \in Nat \ {0} /\ IntBits % ByteBits = 0
      /\ ByteBits \in Nat \ {0}
  BY ByteArrayAssumption
<1>2. PICK q \in Nat, r \in 0 .. ByteBits - 1 :
        IntBits = ByteBits * q + r /\ IntBits \div ByteBits = q /\ IntBits % ByteBits = r
  BY <1>1, DivMod
<1>3. IntBytes = q /\ ByteBits * q = IntBits
  BY <1>1, <1>2 DEF IntBytes
<1>4. q # 0
  BY <1>1, <1>3
<1>5. ASSUME NEW j \in 0 .. q - 1 PROVE ByteBits * j \in 0 .. IntBits
  <2>1. ByteBits * j <= ByteBits * q /\ ByteBits * j \in Nat
    BY <1>1, <1>2
  <2> QED BY <1>1, <1>3, <2>1
<1>6. Group \in Nat \ {0} /\ IntBits + Group - 1 \in Nat
  BY <1>1 DEF Group
<1>7. PICK p \in Nat, t \in 0 .. Group - 1 :
        IntBits + Group - 1 = Group * p + t /\ (IntBits + Group - 1) \div Group = p
  BY <1>6, DivMod
<1>8. Groups = p
  BY <1>7 DEF Groups
<1>9. PICK m \in Nat : m = Group * p
  BY <1>6
<1>10. m >= IntBits /\ m <= IntBits + Group - 1
  BY <1>1, <1>6, <1>7, <1>9
<1>11. p # 0
  BY <1>1, <1>6, <1>9, <1>10
<1>12. ASSUME NEW j \in 0 .. p - 1 PROVE Group * j \in 0 .. IntBits
  <2>1. Group * j + Group <= Group * p /\ Group * j \in Nat
    <3>1. j + 1 <= p /\ j + 1 \in Nat
      BY <1>7
    <3>2. Group * (j + 1) <= Group * p
      BY <1>6, <1>7, <3>1
    <3>3. Group * (j + 1) = Group * j + Group /\ Group * j \in Nat
      BY <1>6
    <3> QED BY <3>2, <3>3
  <2> QED BY <1>1, <1>6, <1>9, <1>10, <2>1
<1>13. Group * Groups \in IntBits .. IntBits + ByteBits
  <2>1. m \in IntBits .. IntBits + ByteBits
    BY <1>1, <1>9, <1>10 DEF Group
  <2> QED BY <1>8, <1>9, <2>1, Zenon
<1> QED BY <1>1, <1>3, <1>4, <1>5, <1>6, <1>8, <1>11, <1>12, <1>13

LEMMA PowersArePositive ==
  \A n \in 0 .. IntBits + ByteBits : 2^n \in Nat \ {0}
<1>1. PICK m \in Nat : m = IntBits + ByteBits
  BY Widths
<1> DEFINE T == {n \in 0 .. m : 2^n \in Nat \ {0}}
<1>2. 0 \in T
  BY <1>1, PowersDouble
<1>3. ASSUME NEW k \in 1 .. m, k - 1 \in T PROVE k \in T
  <2>1. k - 1 \in 0 .. IntBits + ByteBits /\ k - 1 + 1 = k
    BY <1>1
  <2>2. 2^(k - 1 + 1) = 2 * 2^(k - 1)
    BY <2>1, PowersDouble
  <2>3. PICK p \in Nat \ {0} : p = 2^(k - 1)
    BY <1>3
  <2>4. 2 * p \in Nat \ {0}
    BY <2>3
  <2>5. 2^k = 2 * p
    BY <2>1, <2>2, <2>3, Zenon
  <2> QED BY <2>4, <2>5
<1>4. T \in SUBSET (0 .. m)
  OBVIOUS
<1> HIDE DEF T
<1>5. T = 0 .. m
  BY <1>2, <1>3, <1>4, Induction
<1> QED BY <1>1, <1>5 DEF T

\* The power of a sum is the product of the powers.
LEMMA PowerOfSum ==
  ASSUME NEW i \in Nat, NEW j \in Nat, i + j <= IntBits + ByteBits
  PROVE  2^(i + j) = 2^i * 2^j
<1>1. PICK m \in Nat : m = IntBits + ByteBits
  BY Widths
<1>2. ASSUME NEW k \in Nat, i + k <= m PROVE 2^(i + k) \in Nat \ {0} /\ 2^k \in Nat \ {0}
  <2>1. i + k \in 0 .. m /\ k \in 0 .. m
    BY <1>1, <1>2
  <2> QED BY <1>1, <2>1, PowersArePositive
<1> DEFINE T == {k \in 0 .. j : 2^(i + k) = 2^i * 2^k}
<1>3. 0 \in T
  <2>1. PICK p \in Nat : p = 2^i
    BY <1>1, <1>2
  <2>2. i + 0 = i /\ p * 1 = p /\ 0 \in 0 .. j
    OBVIOUS
  <2>3. 2^(i + 0) = 2^i * 2^0
    BY <2>1, <2>2, PowersDouble, Zenon
  <2> QED BY <2>2, <2>3
<1>4. ASSUME NEW k \in 1 .. j, k - 1 \in T PROVE k \in T
  <2>1. PICK h \in Nat : h = k - 1 /\ h + 1 = k /\ i + h \in 0 .. m /\ h \in 0 .. m /\ i + k = (i + h) + 1
    BY <1>1
  <2>2. 2^((i + h) + 1) = 2 * 2^(i + h) /\ 2^(h + 1) = 2 * 2^h
    BY <1>1, <2>1, PowersDouble
  <2>3. 2^(i + h) = 2^i * 2^h
    BY <1>4, <2>1
  <2>4. PICK p \in Nat, q \in Nat, r \in Nat : p = 2^i /\ q = 2^h /\ r = 2^(i + h)
    <3>1. i + 0 <= m /\ i + h <= m
      BY <1>1, <2>1
    <3>2. i \in 0 .. m
      BY <1>1
    <3>3. 2^i \in Nat
      BY <1>1, <3>2, PowersArePositive
    <3> QED BY <1>2, <2>1, <3>1, <3>3
  <2>5. r = p * q
    BY <2>3, <2>4
  <2>6. 2 * (p * q) = p * (2 * q)
    BY <2>4
  <2>7. 2^(i + k) = 2 * r /\ 2^k = 2 * q
    BY <2>1, <2>2, <2>4, Zenon
  <2>8. 2^(i + k) = 2^i * 2^k
    BY <2>4, <2>5, <2>6, <2>7, Zenon
  <2> QED BY <2>8
<1>5. T \in SUBSET (0 .. j)
  OBVIOUS
<1> HIDE DEF T
<1>6. T = 0 .. j
  BY <1>3, <1>4, <1>5, Induction
<1>7. j \in 0 .. j
  OBVIOUS
<1> QED BY <1>6, <1>7 DEF T

LEMMA Powers ==
  /\ \A j \in 0 .. IntBytes - 1 : 2^(ByteBits * j) \in Nat \ {0}
  /\ \A j \in 0 .. Groups - 1 : 2^(Group * j) \in Nat \ {0}
  /\ 2^ByteBits \in Nat \ {0} /\ 2^IntBits \in Nat \ {0} /\ 2^(IntBits - 1) \in Nat \ {0}
  /\ 2^Group \in Nat \ {0}
<1>1. \A n \in 0 .. IntBits : 2^n \in Nat \ {0}
  <2>1. \A n \in 0 .. IntBits : n \in 0 .. IntBits + ByteBits
    BY Widths
  <2> QED BY <2>1, PowersArePositive
<1>2. ByteBits \in 0 .. IntBits + ByteBits /\ IntBits \in 0 .. IntBits /\ IntBits - 1 \in 0 .. IntBits
      /\ Group \in 0 .. IntBits + ByteBits
  BY Widths DEF Group
<1> QED BY <1>1, <1>2, Widths, PowersArePositive

LEMMA PlaceInInteger ==
  ASSUME NEW k \in 1 .. IntBytes, NEW endian
  PROVE  Place(k, endian) \in 0 .. IntBytes - 1
BY Widths DEF Place

LEMMA FixedIsBytes ==
  ASSUME NEW v \in Nat, NEW endian
  PROVE  Fixed(v, endian) \in Seq(Nat)
<1>1. ASSUME NEW k \in 1 .. IntBytes
      PROVE  (v \div 2^(ByteBits * Place(k, endian))) % 2^ByteBits \in Nat
  <2>1. 2^(ByteBits * Place(k, endian)) \in Nat \ {0} /\ 2^ByteBits \in Nat \ {0}
    BY PlaceInInteger, Powers
  <2>2. PICK p \in Nat \ {0}, b \in Nat \ {0} : p = 2^(ByteBits * Place(k, endian)) /\ b = 2^ByteBits
    BY <2>1
  <2>3. (v \div p) % b \in Nat
    OBVIOUS
  <2> QED BY <2>2, <2>3, Zenon
<1>2. IntBytes \in Nat
  BY Widths
<1>3. Fixed(v, endian) \in [1 .. IntBytes -> Nat]
  BY <1>1 DEF Fixed
<1> QED BY <1>2, <1>3

LEMMA VarintIsBytes ==
  ASSUME NEW v \in Nat
  PROVE  Varint(v) \in Seq(Nat)
<1> DEFINE S == {m \in 1 .. Groups : m = Groups \/ v < 2^(Group * m)}
<1>1. Groups \in Nat \ {0}
  BY Widths
<1>2. Groups \in S /\ S \in SUBSET Nat
  BY <1>1
<1>3. PICK n : n = Min(S)
  OBVIOUS
<1>4. n \in 1 .. Groups
  <2>1. S \in SUBSET (1 .. Groups)
    OBVIOUS
  <2> HIDE DEF S
  <2>2. \E m \in S : \A k \in S : m <= k
    BY <1>2, LeastExists
  <2>3. Min(S) \in S
    BY <2>2 DEF Min
  <2> QED BY <1>3, <2>1, <2>3
<1>5. ASSUME NEW k \in 1 .. n
      PROVE  ((v \div 2^(Group * (k - 1))) % 2^Group) + (IF k < n THEN 2^Group ELSE 0) \in Nat
  <2>1. k - 1 \in 0 .. Groups - 1
    BY <1>1, <1>4
  <2>2. PICK p \in Nat \ {0}, b \in Nat \ {0} : p = 2^(Group * (k - 1)) /\ b = 2^Group
    BY <2>1, Powers
  <2>3. ((v \div p) % b) + (IF k < n THEN b ELSE 0) \in Nat
    OBVIOUS
  <2> QED BY <2>2, <2>3, Zenon
<1>6. Varint(v) = [k \in 1 .. n |-> ((v \div 2^(Group * (k - 1))) % 2^Group) + (IF k < n THEN 2^Group ELSE 0)]
  BY <1>3 DEF Varint
<1>7. Varint(v) \in [1 .. n -> Nat] /\ n \in Nat
  BY <1>1, <1>4, <1>5, <1>6
<1> QED BY <1>7

LEMMA UnfixedIsNat ==
  ASSUME NEW s \in Seq(Nat), Len(s) = IntBytes, NEW endian
  PROVE  Unfixed(s, endian) \in Nat
<1> DEFINE f == [k \in 1 .. IntBytes |-> s[k] * 2^(ByteBits * Place(k, endian))]
<1>1. IntBytes \in Nat
  BY Widths
<1>2. ASSUME NEW k \in 1 .. IntBytes PROVE s[k] * 2^(ByteBits * Place(k, endian)) \in Nat
  <2>1. PICK p \in Nat : p = 2^(ByteBits * Place(k, endian))
    BY PlaceInInteger, Powers
  <2>2. s[k] \in Nat
    BY ElementOfSeq
  <2>3. s[k] * p \in Nat
    BY <2>1, <2>2
  <2> QED BY <2>1, <2>3, Zenon
<1>3. f \in [1 .. IntBytes -> Nat]
  BY <1>2
<1> HIDE DEF f
<1>4. Sums(f, IntBytes) \in [0 .. IntBytes -> Nat]
  BY <1>1, <1>3, SumsOfNat
<1>5. Sums(f, IntBytes)[IntBytes] \in Nat
  BY <1>1, <1>4
<1> QED BY <1>5 DEF Unfixed, f

LEMMA UnvarintIsNat ==
  ASSUME NEW s \in Seq(Nat), Len(s) <= Groups
  PROVE  Unvarint(s) \in Nat
<1> DEFINE f == [k \in 1 .. Len(s) |-> (s[k] % 2^Group) * 2^(Group * (k - 1))]
<1>1. Len(s) \in Nat
  BY LenProperties
<1>2. ASSUME NEW k \in 1 .. Len(s) PROVE (s[k] % 2^Group) * 2^(Group * (k - 1)) \in Nat
  <2>1. k - 1 \in 0 .. Groups - 1
    BY <1>1, Widths
  <2>2. PICK p \in Nat \ {0}, b \in Nat \ {0} : p = 2^(Group * (k - 1)) /\ b = 2^Group
    BY <2>1, Powers
  <2>3. s[k] \in Nat
    BY ElementOfSeq
  <2>4. (s[k] % b) * p \in Nat
    BY <2>2, <2>3
  <2> QED BY <2>2, <2>4, Zenon
<1>3. f \in [1 .. Len(s) -> Nat]
  BY <1>2
<1> HIDE DEF f
<1>4. Sums(f, Len(s)) \in [0 .. Len(s) -> Nat]
  BY <1>1, <1>3, SumsOfNat
<1>5. PICK sum \in Nat : sum = Sums(f, Len(s))[Len(s)]
  BY <1>1, <1>4
<1>6. PICK b \in Nat \ {0} : b = 2^IntBits
  BY Powers
<1>7. sum % b \in Nat
  BY <1>5, <1>6
<1> QED BY <1>5, <1>6, <1>7 DEF Unvarint, f

-----------------------------------------------------------------------------
\* The position of y is the one of x, or further on; otherwise they are the same.
Took(x, y) ==
  /\ Valid(y) /\ SameNodes(x, y) /\ y.m_size = x.m_size /\ x.m_position <= y.m_position

LEMMA TookNothing ==
  ASSUME NEW x, Valid(x)
  PROVE  Took(x, x) /\ Took(x, Crashed(x))
<1>1. x.m_position \in Nat
  BY ArrayFields
<1>2. Took(x, x)
  BY <1>1 DEF Took, SameNodes
<1>3. /\ Valid(Crashed(x)) /\ SameNodes(x, Crashed(x)) /\ Crashed(x).m_position = x.m_position
      /\ Crashed(x).m_size = x.m_size
  BY CrashedValid, Zenon
<1> QED BY <1>1, <1>2, <1>3 DEF Took

LEMMA TookTwice ==
  ASSUME NEW x, NEW y, NEW z, Valid(x), Took(x, y), Took(y, z)
  PROVE  Took(x, z)
<1>1. x.m_position \in Nat /\ y.m_position \in Nat /\ z.m_position \in Nat
  BY ArrayFields DEF Took
<1> QED BY <1>1 DEF Took, SameNodes

\* read(buf, n): what it leaves, and that it ends the process only where nothing is read.
LEMMA ReadTook ==
  ASSUME NEW x, Valid(x), NEW n \in Nat
  PROVE  /\ Took(x, Read(x, n).a)
         /\ ~Read(x, n).thrown /\ n # 0 =>
              /\ Read(x, n).data \in Seq(Nat) /\ Len(Read(x, n).data) = n
<1>1. x.m_position \in Nat /\ x.m_size \in Nat /\ x.m_capacity \in Nat
      /\ x.m_position <= x.m_size /\ x.m_size <= x.m_capacity
  BY ArrayFields
<1>2. CASE n > getReadSize(x)
  <2>1. Read(x, n) = Result(x, <<>>, TRUE)
    BY <1>2 DEF Read
  <2> QED BY <2>1, TookNothing DEF Result
<1>3. CASE ~(n > getReadSize(x))
  <2>1. x.m_position + n <= x.m_size /\ x.m_position + n <= x.m_capacity
    BY <1>1, <1>3 DEF getReadSize
  <2>2. CASE Reaches(x, x.m_cur, Offset(x), n)
    <3>1. Read(x, n) = Result(Moved(x, n), Ahead(x, n), FALSE)
      BY <1>3, <2>2 DEF Read
    <3>2. Read(x, n).a = Moved(x, n) /\ Read(x, n).data = Ahead(x, n)
      BY <3>1 DEF Result
    <3>3. Ahead(x, n) \in Seq(Nat) /\ Len(Ahead(x, n)) = n
      BY <2>1, AheadIsFlat
    <3>4. Took(x, Moved(x, n))
      BY <1>1, <2>1, MovedValid DEF Took
    <3> QED BY <3>2, <3>3, <3>4
  <2>3. CASE ~Reaches(x, x.m_cur, Offset(x), n)
    <3>1. Read(x, n) = Result(Crashed(x), <<>>, FALSE)
      BY <1>3, <2>3 DEF Read
    <3>2. n = 0
      <4>1. ~(x.m_position < x.m_capacity /\ x.m_position + n <= x.m_capacity)
        BY <2>3, ReachesIff
      <4> QED BY <1>1, <2>1, <4>1
    <3>3. Read(x, n).a = Crashed(x)
      BY <3>1 DEF Result
    <3> QED BY <3>2, <3>3, TookNothing
  <2> QED BY <2>2, <2>3
<1> QED BY <1>2, <1>3

LEMMA ReadFixedTook ==
  ASSUME NEW x, Valid(x)
  PROVE  Took(x, ReadFixed(x).a) /\ (~ReadFixed(x).thrown => ReadFixed(x).data \in Nat)
<1>1. PICK r : r = Read(x, IntBytes)
  OBVIOUS
<1>2. IntBytes \in Nat /\ IntBytes # 0
  BY Widths
<1>3. Took(x, r.a) /\ (~r.thrown => r.data \in Seq(Nat) /\ Len(r.data) = IntBytes)
  BY <1>1, <1>2, ReadTook
<1>4. ReadFixed(x) = IF r.thrown THEN r ELSE [r EXCEPT !.data = Unfixed(r.data, x.m_endian)]
  BY <1>1 DEF ReadFixed, Decoded
<1>5. CASE r.thrown
  BY <1>3, <1>4, <1>5
<1>6. CASE ~r.thrown
  <2>1. Unfixed(r.data, x.m_endian) \in Nat
    BY <1>3, <1>6, UnfixedIsNat
  <2>2. PICK v : v = Unfixed(r.data, x.m_endian)
    OBVIOUS
  <2>3. ReadFixed(x) = [r EXCEPT !.data = v]
    BY <1>4, <1>6, <2>2
  <2>4. r = [a |-> r.a, data |-> r.data, thrown |-> r.thrown]
    BY <1>1 DEF Read, Result
  <2>5. [r EXCEPT !.data = v] = [a |-> r.a, data |-> v, thrown |-> r.thrown]
    BY <2>4
  <2>6. ReadFixed(x).a = r.a /\ ReadFixed(x).data = v
    BY <2>3, <2>5
  <2> QED BY <1>3, <2>1, <2>2, <2>6
<1> QED BY <1>5, <1>6

LEMMA ReadUintTook ==
  ASSUME NEW x, Valid(x)
  PROVE  /\ Took(x, ReadUint(x).a) /\ ReadUint(x).data \in Nat
         /\ ReadUint(x) = [a |-> ReadUint(x).a, data |-> ReadUint(x).data, thrown |-> ReadUint(x).thrown]
<1>1. x.m_position \in Nat /\ x.m_size \in Nat /\ x.m_capacity \in Nat
      /\ x.m_position <= x.m_size /\ x.m_size <= x.m_capacity /\ Groups \in Nat
  BY ArrayFields, Widths
<1>2. PICK most : most = IF getReadSize(x) < Groups THEN getReadSize(x) ELSE Groups
  OBVIOUS
<1>3. most \in Nat /\ most <= Groups /\ x.m_position + most <= x.m_size /\ x.m_position + most <= x.m_capacity
  BY <1>1, <1>2 DEF getReadSize
<1>4. PICK s : s = Ahead(x, most)
  OBVIOUS
<1>5. s \in Seq(Nat) /\ Len(s) = most
  BY <1>3, <1>4, AheadIsFlat
<1>6. PICK last : last = {k \in 1 .. most : s[k] < 2^Group}
  OBVIOUS
<1>7. PICK n : n = IF last = {} THEN most ELSE Min(last)
  OBVIOUS
<1>8. n \in 0 .. most
  <2>1. CASE last = {}
    BY <1>3, <1>7, <2>1
  <2>2. CASE last # {}
    <3>1. last \in SUBSET Nat /\ last \in SUBSET (1 .. most)
      BY <1>3, <1>6
    <3>2. \E m \in last : \A k \in last : m <= k
      BY <2>2, <3>1, LeastExists
    <3>3. Min(last) \in last
      BY <3>2 DEF Min
    <3> QED BY <1>3, <1>7, <2>2, <3>1, <3>3
  <2> QED BY <2>1, <2>2
<1>9. ReadUint(x) = Result(Moved(x, n), Unvarint(SubSeq(s, 1, n)), last = {} /\ most < Groups)
  BY <1>2, <1>4, <1>6, <1>7 DEF ReadUint
<1>10. ReadUint(x).a = Moved(x, n) /\ ReadUint(x).data = Unvarint(SubSeq(s, 1, n))
  BY <1>9 DEF Result
<1>11. Took(x, Moved(x, n))
  <2>1. n \in Nat /\ x.m_position + n <= x.m_size
    BY <1>1, <1>3, <1>8
  <2> QED BY <1>1, <2>1, MovedValid DEF Took
<1>12. Unvarint(SubSeq(s, 1, n)) \in Nat
  <2>1. 1 \in Int /\ n \in Int /\ \A i \in 1 .. n : i \in 1 .. Len(s)
    BY <1>3, <1>5, <1>8
  <2>2. \A i \in 1 .. n : s[i] \in Nat
    BY <1>5, <2>1, ElementOfSeq
  <2>3. SubSeq(s, 1, n) \in Seq(Nat) /\ Len(SubSeq(s, 1, n)) = IF 1 <= n THEN n - 1 + 1 ELSE 0
    BY <2>1, <2>2, SubSeqProperties
  <2>4. Len(SubSeq(s, 1, n)) <= Groups
    BY <1>1, <1>3, <1>8, <2>3
  <2> QED BY <2>3, <2>4, UnvarintIsNat
<1> QED BY <1>9, <1>10, <1>11, <1>12 DEF Result

LEMMA TextTook ==
  ASSUME NEW x, Valid(x), NEW r, Took(x, r.a), ~r.thrown => r.data \in Nat
  PROVE  Took(x, Text(r).a)
<1>1. CASE r.thrown
  BY <1>1 DEF Text
<1>2. CASE ~r.thrown
  <2>1. Valid(r.a)
    BY DEF Took
  <2>2. Took(r.a, Read(r.a, r.data).a)
    BY <1>2, <2>1, ReadTook
  <2> QED BY <1>2, <2>2, TookTwice DEF Text
<1> QED BY <1>1, <1>2

\* Every reading call.
LEMMA ReadItemTook ==
  ASSUME NEW x, Valid(x), NEW kind \in Kinds
  PROVE  Took(x, ReadItem(x, kind).a)
<1>1. CASE kind = "byte"
  <2>1. PICK r : r = Read(x, 1)
    OBVIOUS
  <2>2. Took(x, r.a) /\ r = [a |-> r.a, data |-> r.data, thrown |-> r.thrown]
    BY <2>1, ReadTook DEF Read, Result
  <2>3. PICK v : v = r.data[1]
    OBVIOUS
  <2>4. ReadItem(x, kind) = IF r.thrown THEN r ELSE [r EXCEPT !.data = v]
    BY <1>1, <2>1, <2>3 DEF ReadItem, Decoded
  <2>5. [r EXCEPT !.data = v].a = r.a
    BY <2>2
  <2>6. ReadItem(x, kind).a = r.a
    BY <2>4, <2>5
  <2> QED BY <2>2, <2>6
<1>2. CASE kind = "fixed"
  BY <1>2, ReadFixedTook DEF ReadItem
<1>3. CASE kind = "uint"
  BY <1>3, ReadUintTook DEF ReadItem
<1>4. CASE kind = "int"
  <2>1. PICK r : r = ReadUint(x)
    OBVIOUS
  <2>2. Took(x, r.a) /\ r = [a |-> r.a, data |-> r.data, thrown |-> r.thrown]
    BY <2>1, ReadUintTook
  <2>3. PICK v : v = Unzigzag(r.data)
    OBVIOUS
  <2>4. ReadItem(x, kind) = IF r.thrown THEN r ELSE [r EXCEPT !.data = v]
    BY <1>4, <2>1, <2>3 DEF ReadItem, Decoded
  <2>5. [r EXCEPT !.data = v].a = r.a
    BY <2>2
  <2>6. ReadItem(x, kind).a = r.a
    BY <2>4, <2>5
  <2> QED BY <2>2, <2>6
<1>5. CASE kind = "stringF"
  <2>1. ReadItem(x, kind) = Text(ReadFixed(x))
    BY <1>5 DEF ReadItem
  <2> QED BY <2>1, ReadFixedTook, TextTook
<1>6. CASE kind = "stringVint"
  <2>1. ReadItem(x, kind) = Text(ReadUint(x))
    BY <1>6 DEF ReadItem
  <2> QED BY <2>1, ReadUintTook, TextTook
<1> QED BY <1>1, <1>2, <1>3, <1>4, <1>5, <1>6 DEF Kinds

-----------------------------------------------------------------------------
\* The loop of writeToFile.
Dumps == [pos : Int, rest : Int, data : Seq(Nat), bad : BOOLEAN]

\* A part of one node.
LEMMA SpanInNode ==
  ASSUME NEW x, Valid(x), NEW node \in 0 .. x.nodes - 1, NEW off \in Offsets,
         NEW len \in Nat, off + len <= BaseSize
  PROVE  /\ Span(x, node, off, len) \in Seq(Nat) /\ Len(Span(x, node, off, len)) = len
         /\ \A k \in 1 .. len : Span(x, node, off, len)[k] = x.mem[<<node, off + k - 1>>]
<1>1. BaseSize \in Nat \ {0} /\ off \in 0 .. BaseSize - 1 /\ x.nodes \in Nat /\ x.mem \in Memory(x.nodes)
  BY ByteArrayAssumption, ArrayFields DEF Offsets
<1>2. ASSUME NEW k \in 1 .. len
      PROVE  /\ x.mem[<<node + (off + k - 1) \div BaseSize, (off + k - 1) % BaseSize>>]
                    = x.mem[<<node, off + k - 1>>]
             /\ x.mem[<<node, off + k - 1>>] \in Nat
  <2>1. PICK o \in 0 .. BaseSize - 1 : o = off + k - 1
    <3>1. off + k - 1 \in 0 .. BaseSize - 1
      BY <1>1
    <3> QED BY <3>1
  <2>2. o \div BaseSize = 0 /\ o % BaseSize = o
    <3>1. 0 \in Int /\ BaseSize * 0 + o = o
      BY <1>1
    <3> QED BY <1>1, <3>1, DivModUnique
  <2>3. node + 0 = node
    BY <1>1
  <2>4. <<node, o>> \in (0 .. x.nodes - 1) \X Offsets
    BY <2>1 DEF Offsets
  <2>5. x.mem[<<node, o>>] \in Nat
    BY <1>1, <2>4 DEF Memory
  <2> QED BY <2>1, <2>2, <2>3, <2>5, Zenon
<1>3. Span(x, node, off, len) = [k \in 1 .. len |-> x.mem[<<node, off + k - 1>>]]
  BY <1>2 DEF Span
<1>4. [k \in 1 .. len |-> x.mem[<<node, off + k - 1>>]] \in [1 .. len -> Nat]
  BY <1>2
<1> QED BY <1>3, <1>4

LEMMA DumpNodeTyped ==
  ASSUME NEW x, Valid(x), NEW node \in 0 .. x.nodes - 1, NEW r \in Dumps
  PROVE  DumpNode(x, node, r) \in Dumps
<1>1. BaseSize \in Nat \ {0} /\ r.pos \in Int /\ r.rest \in Int /\ r.data \in Seq(Nat) /\ r.bad \in BOOLEAN
  BY ByteArrayAssumption DEF Dumps
<1>2. PICK off \in 0 .. BaseSize - 1 : off = r.pos % BaseSize
  BY <1>1
<1>3. PICK len \in Int : len = Chunk(r.rest, off) /\ off + len <= BaseSize
  <2>1. Chunk(r.rest, off) \in Int /\ off + Chunk(r.rest, off) <= BaseSize
    BY <1>1, <1>2 DEF Chunk
  <2> QED BY <2>1
<1>5. PICK data : data = IF r.bad \/ len < 0 THEN r.data ELSE r.data \o Span(x, node, off, len)
  OBVIOUS
<1>6. data \in Seq(Nat)
  <2>1. CASE r.bad \/ len < 0
    BY <1>1, <1>5, <2>1
  <2>2. CASE ~(r.bad \/ len < 0)
    <3>1. len \in Nat /\ off \in Offsets
      BY <1>2, <1>3, <2>2 DEF Offsets
    <3>2. Span(x, node, off, len) \in Seq(Nat)
      BY <1>3, <3>1, SpanInNode
    <3> QED BY <1>1, <1>5, <2>2, <3>2, ConcatProperties
  <2> QED BY <2>1, <2>2
<1>7. PICK d : d = [pos |-> r.pos + len, rest |-> r.rest - len, bad |-> (r.bad \/ len < 0), data |-> data]
  OBVIOUS
<1>8. d \in Dumps
  <2>1. r.pos + len \in Int /\ r.rest - len \in Int /\ (r.bad \/ len < 0) \in BOOLEAN
    BY <1>1, <1>3
  <2> QED BY <1>6, <1>7, <2>1 DEF Dumps
<1>9. DumpNode(x, node, r) = IF r.rest <= 0 THEN r ELSE d
  BY <1>2, <1>3, <1>5, <1>7 DEF DumpNode
<1> QED BY <1>8, <1>9

LEMMA NodesLeftOf ==
  ASSUME NEW x, Valid(x)
  PROVE  /\ NodesLeft(x) \in Nat
         /\ \A k \in 1 .. NodesLeft(x) : x.m_cur + k - 1 \in 0 .. x.nodes - 1
<1>1. x.nodes \in Nat /\ x.m_position \in Nat /\ x.m_capacity \in Nat /\ x.m_position <= x.m_capacity
  BY ArrayFields
<1>2. CASE x.m_position = x.m_capacity
  <2>1. NodesLeft(x) = 0
    BY <1>2 DEF Valid, Shape, NodesLeft
  <2> QED BY <2>1
<1>3. CASE x.m_position < x.m_capacity
  <2>1. x.m_cur # Null /\ x.m_cur = x.m_position \div BaseSize
    BY <1>3, FromCur
  <2>2. x.m_position \div BaseSize < x.nodes
    BY <1>1, <1>3, NodeOfByte
  <2>3. x.m_position \div BaseSize \in Nat
    BY <1>1, ByteArrayAssumption, DivMod
  <2>4. x.m_cur \in Nat /\ x.m_cur < x.nodes
    BY <2>1, <2>2, <2>3
  <2>5. NodesLeft(x) = x.nodes - x.m_cur
    BY <2>1 DEF NodesLeft
  <2> QED BY <1>1, <2>4, <2>5
<1> QED BY <1>1, <1>2, <1>3

LEMMA DumpingSteps ==
  ASSUME NEW x, Valid(x)
  PROVE  /\ Dumping(x)[0] = ToDump(x)
         /\ \A k \in 1 .. NodesLeft(x) :
              Dumping(x)[k] = DumpNode(x, x.m_cur + k - 1, Dumping(x)[k - 1])
<1> DEFINE n == NodesLeft(x)
           P(f) == f = [k \in 0 .. n |-> IF k = 0 THEN ToDump(x) ELSE DumpNode(x, x.m_cur + k - 1, f[k - 1])]
           step == [k \in 1 .. n |-> [r \in Dumps |-> DumpNode(x, x.m_cur + k - 1, r)]]
<1>1. Dumping(x) = CHOOSE f : P(f)
  BY DEF Dumping
<1>2. n \in Nat
  BY NodesLeftOf
<1>3. \A k \in 1 .. n : x.m_cur + k - 1 \in 0 .. x.nodes - 1
  BY NodesLeftOf
<1> HIDE DEF n
<1>4. ToDump(x) \in Dumps
  <2>1. x.m_position \in Int /\ x.m_size \in Int /\ <<>> \in Seq(Nat)
    BY ArrayFields
  <2> QED BY <2>1 DEF ToDump, Dumps, getReadSize
<1>5. PICK f \in [0 .. n -> Dumps] : Follows(f, n, ToDump(x), step)
  <2>1. ASSUME NEW k \in 1 .. n
        PROVE  [r \in Dumps |-> DumpNode(x, x.m_cur + k - 1, r)] \in [Dumps -> Dumps]
    <3>1. PICK node \in 0 .. x.nodes - 1 : node = x.m_cur + k - 1
      BY <1>3, <2>1
    <3>2. \A r \in Dumps : DumpNode(x, node, r) \in Dumps
      BY <3>1, DumpNodeTyped
    <3> QED BY <3>1, <3>2
  <2>2. step \in [1 .. n -> [Dumps -> Dumps]]
    BY <2>1
  <2> HIDE DEF step
  <2> QED BY <1>2, <1>4, <2>2, Recursion
<1>6. P(f)
  <2>1. ASSUME NEW k \in 0 .. n
        PROVE  f[k] = IF k = 0 THEN ToDump(x) ELSE DumpNode(x, x.m_cur + k - 1, f[k - 1])
    <3>1. CASE k = 0
      BY <1>5, <3>1 DEF Follows
    <3>2. CASE k \in 1 .. n
      <4>1. f[k - 1] \in Dumps
        BY <1>2, <3>2
      <4>2. f[k] = step[k][f[k - 1]]
        <5> HIDE DEF step
        <5> QED BY <1>5, <3>2 DEF Follows
      <4>3. step[k] = [r \in Dumps |-> DumpNode(x, x.m_cur + k - 1, r)]
        BY <3>2
      <4>4. k # 0
        BY <1>2, <3>2
      <4> HIDE DEF step
      <4> QED BY <4>1, <4>2, <4>3, <4>4
    <3> QED BY <1>2, <3>1, <3>2
  <2> QED BY <2>1
<1> HIDE DEF P
<1>7. P(CHOOSE g : P(g))
  BY <1>6, Zenon
<1>8. PICK g : g = Dumping(x) /\ P(g)
  BY <1>1, <1>7, Zenon
<1>9. g = [k \in 0 .. n |-> IF k = 0 THEN ToDump(x) ELSE DumpNode(x, x.m_cur + k - 1, g[k - 1])]
  BY <1>8 DEF P
<1>10. g[0] = ToDump(x) /\ \A k \in 1 .. n : g[k] = DumpNode(x, x.m_cur + k - 1, g[k - 1])
  BY <1>2, <1>9
<1> QED BY <1>8, <1>10 DEF n

\* The file holds bytes, whatever the position.
LEMMA DumpedTyped ==
  ASSUME NEW x, Valid(x)
  PROVE  Dumped(x) \in Dumps
<1>1. PICK f : f = Dumping(x)
  OBVIOUS
<1>2. PICK n \in Nat : n = NodesLeft(x)
  BY NodesLeftOf
<1>3. f[0] = ToDump(x) /\ \A k \in 1 .. n : f[k] = DumpNode(x, x.m_cur + k - 1, f[k - 1])
  BY <1>1, <1>2, DumpingSteps
<1> DEFINE T == {k \in 0 .. n : f[k] \in Dumps}
<1>4. 0 \in T
  <2>1. x.m_position \in Int /\ x.m_size \in Int /\ <<>> \in Seq(Nat)
    BY ArrayFields
  <2>2. ToDump(x) \in Dumps
    BY <2>1 DEF ToDump, Dumps, getReadSize
  <2> QED BY <1>2, <1>3, <2>2
<1>5. ASSUME NEW k \in 1 .. n, k - 1 \in T PROVE k \in T
  <2>1. PICK node \in 0 .. x.nodes - 1 : node = x.m_cur + k - 1
    BY <1>2, NodesLeftOf
  <2>2. f[k - 1] \in Dumps /\ f[k] = DumpNode(x, node, f[k - 1])
    BY <1>3, <1>5, <2>1
  <2>3. f[k] \in Dumps
    BY <2>1, <2>2, DumpNodeTyped
  <2> QED BY <1>2, <2>3
<1> HIDE DEF T
<1>6. T = 0 .. n
  <2>1. T \in SUBSET (0 .. n)
    BY DEF T
  <2> QED BY <1>2, <1>4, <1>5, <2>1, Induction
<1>7. f[n] \in Dumps
  BY <1>2, <1>6 DEF T
<1> QED BY <1>1, <1>2, <1>7 DEF Dumped

\* Where the loop of writeToFile is after k nodes, if it started at the start of one.
DumpEnd(x, k) == IF x.m_position + k * BaseSize < x.m_size THEN x.m_position + k * BaseSize ELSE x.m_size

DumpedTo(x, r, e) ==
  /\ r.pos = e /\ r.rest = x.m_size - e /\ r.bad = FALSE
  /\ r.data \in Seq(Nat) /\ Len(r.data) = e - x.m_position
  /\ \A j \in 1 .. e - x.m_position : r.data[j] = Flat(x, x.m_position + j - 1)

LEMMA DumpNodeDumps ==
  ASSUME NEW x, Valid(x), x.m_position % BaseSize = 0, NEW k \in 1 .. NodesLeft(x), NEW r,
         DumpedTo(x, r, DumpEnd(x, k - 1))
  PROVE  DumpedTo(x, DumpNode(x, x.m_cur + k - 1, r), DumpEnd(x, k))
<1>1. /\ x.m_position \in Nat /\ x.m_size \in Nat /\ x.m_capacity \in Nat /\ x.nodes \in Nat
      /\ x.m_position <= x.m_size /\ x.m_size <= x.m_capacity /\ BaseSize \in Nat \ {0}
      /\ x.m_capacity = x.nodes * BaseSize
  BY ArrayFields, ByteArrayAssumption
<1>2. NodesLeft(x) \in Nat /\ x.m_cur + k - 1 \in 0 .. x.nodes - 1
  BY NodesLeftOf
<1>3. x.m_position < x.m_capacity
  <2>1. NodesLeft(x) # 0
    BY <1>2
  <2>2. x.m_cur # Null
    BY <2>1 DEF NodesLeft
  <2>3. x.m_position # x.m_capacity
    BY <2>2 DEF Valid, Shape
  <2> QED BY <1>1, <2>3
<1>4. PICK c \in Nat : x.m_cur = c /\ x.m_position = BaseSize * c
  <2>1. PICK q \in Nat, o \in 0 .. BaseSize - 1 :
          x.m_position = BaseSize * q + o /\ x.m_position \div BaseSize = q /\ x.m_position % BaseSize = o
    BY <1>1, DivMod
  <2>2. o = 0 /\ x.m_cur = q
    BY <1>3, <2>1, FromCur
  <2>3. BaseSize * q + 0 = BaseSize * q
    BY <1>1
  <2> QED BY <2>1, <2>2, <2>3
<1>5. PICK node \in Nat : node = c + (k - 1)
  BY <1>2
<1>6. node = x.m_cur + k - 1 /\ node \in 0 .. x.nodes - 1
  BY <1>1, <1>2, <1>4, <1>5
<1>7. PICK m \in Nat : m = BaseSize * node
  BY <1>1
<1>8. x.m_position + (k - 1) * BaseSize = m /\ x.m_position + k * BaseSize = m + BaseSize
  <2>1. k \in Nat
    BY <1>2
  <2>2. BaseSize * (c + (k - 1)) = BaseSize * c + (k - 1) * BaseSize
    BY <1>1, <2>1
  <2>3. k * BaseSize = (k - 1) * BaseSize + BaseSize
    BY <1>1, <2>1
  <2>4. (k - 1) * BaseSize \in Int
    BY <1>1, <2>1
  <2>5. x.m_position + (k - 1) * BaseSize = m
    BY <1>4, <1>5, <1>7, <2>2
  <2>6. PICK u \in Int : u = (k - 1) * BaseSize
    BY <2>4
  <2>7. x.m_position + k * BaseSize = x.m_position + (u + BaseSize)
    BY <2>3, <2>6
  <2>8. x.m_position + u = m
    BY <2>5, <2>6
  <2>9. x.m_position + (u + BaseSize) = m + BaseSize
    <3>1. x.m_position \in Int /\ u \in Int /\ BaseSize \in Int
      BY <1>1, <2>6
    <3>2. x.m_position + (u + BaseSize) = (x.m_position + u) + BaseSize
      BY <3>1
    <3> QED BY <2>8, <3>2
  <2> QED BY <2>5, <2>7, <2>9
<1>9. CASE m >= x.m_size
  <2>1. DumpEnd(x, k - 1) = x.m_size /\ DumpEnd(x, k) = x.m_size
    BY <1>1, <1>8, <1>9 DEF DumpEnd
  <2>2. r.rest = 0
    BY <1>1, <2>1 DEF DumpedTo
  <2>3. DumpNode(x, x.m_cur + k - 1, r) = r
    BY <2>2 DEF DumpNode
  <2> QED BY <2>1, <2>3
<1>10. CASE m < x.m_size
  <2>1. DumpEnd(x, k - 1) = m
    BY <1>1, <1>8, <1>10 DEF DumpEnd
  <2>2. PICK e \in Nat : e = DumpEnd(x, k) /\ e = IF m + BaseSize < x.m_size THEN m + BaseSize ELSE x.m_size
    BY <1>1, <1>8 DEF DumpEnd
  <2>3. PICK len \in Nat \ {0} : len = e - m /\ len <= BaseSize
    <3>1. e - m \in Nat \ {0} /\ e - m <= BaseSize
      BY <1>1, <1>10, <2>2
    <3> QED BY <3>1
  <2>4. /\ r.pos = m /\ r.rest = x.m_size - m /\ r.bad = FALSE /\ r.data \in Seq(Nat)
        /\ Len(r.data) = m - x.m_position
        /\ \A j \in 1 .. m - x.m_position : r.data[j] = Flat(x, x.m_position + j - 1)
    BY <2>1 DEF DumpedTo
  <2>5. r.pos % BaseSize = 0
    <3>1. (BaseSize * node + 0) % BaseSize = 0
      <4>1. 0 \in 0 .. BaseSize - 1 /\ node \in Int
        BY <1>1
      <4> QED BY <1>1, <4>1, DivModUnique
    <3>2. BaseSize * node + 0 = m
      BY <1>7
    <3> QED BY <2>4, <3>1, <3>2, Zenon
  <2>6. Chunk(r.rest, 0) = len
    BY <1>1, <1>10, <2>2, <2>3, <2>4 DEF Chunk
  <2>7. PICK part : part = Span(x, node, 0, len)
    OBVIOUS
  <2>8. 0 \in Offsets /\ len \in Nat /\ 0 + len <= BaseSize
    BY <1>1, <2>3 DEF Offsets
  <2>9. /\ part \in Seq(Nat) /\ Len(part) = len
        /\ \A j \in 1 .. len : part[j] = x.mem[<<node, 0 + j - 1>>]
    BY <1>6, <2>7, <2>8, SpanInNode
  <2>10. ASSUME NEW j \in 1 .. len PROVE part[j] = Flat(x, m + j - 1)
    <3>1. PICK o \in 0 .. BaseSize - 1 : o = j - 1 /\ o = 0 + j - 1
      <4>1. j - 1 \in 0 .. BaseSize - 1 /\ j - 1 = 0 + j - 1
        BY <1>1, <2>3, <2>8
      <4> QED BY <4>1
    <3>2. (BaseSize * node + o) \div BaseSize = node /\ (BaseSize * node + o) % BaseSize = o
      <4>1. node \in Int
        BY <1>5
      <4> QED BY <1>1, <3>1, <4>1, DivModUnique
    <3>3. BaseSize * node + o = m + j - 1
      BY <1>7, <2>8, <3>1
    <3> QED BY <2>9, <2>10, <3>1, <3>2, <3>3, Zenon DEF Flat
  <2>11. PICK d : d = DumpNode(x, node, r)
    OBVIOUS
  <2>12. d = [pos |-> r.pos + len, rest |-> r.rest - len, bad |-> FALSE, data |-> r.data \o part]
    <3>1. ~(r.rest <= 0) /\ ~(len < 0)
      BY <1>1, <1>10, <2>3, <2>4
    <3>2. (r.bad \/ len < 0) = FALSE
      BY <2>4, <3>1
    <3> QED BY <2>5, <2>6, <2>7, <2>11, <3>1, <3>2 DEF DumpNode
  <2>13. /\ r.data \o part \in Seq(Nat) /\ Len(r.data \o part) = Len(r.data) + len
         /\ \A j \in 1 .. Len(r.data) + len :
              (r.data \o part)[j] = IF j <= Len(r.data) THEN r.data[j] ELSE part[j - Len(r.data)]
    <3>1. /\ r.data \o part \in Seq(Nat) /\ Len(r.data \o part) = Len(r.data) + Len(part)
          /\ \A j \in 1 .. Len(r.data) + Len(part) :
               (r.data \o part)[j] = IF j <= Len(r.data) THEN r.data[j] ELSE part[j - Len(r.data)]
      <4>1. r.data \in Seq(Nat) /\ part \in Seq(Nat)
        BY <2>4, <2>9
      <4> QED BY <4>1, ConcatProperties
    <3>2. Len(part) = len
      BY <2>9
    <3> QED BY <3>1, <3>2, Zenon
  <2>14. m >= x.m_position
    <3>1. (k - 1) * BaseSize >= 0
      BY <1>1, <1>2
    <3> QED BY <1>1, <1>2, <1>8, <3>1
  <2>a. PICK p \in Nat, l \in Nat, h \in Nat : /\ p = x.m_position /\ l = Len(r.data) /\ h = len
                                               /\ m = p + l /\ e - x.m_position = l + h
    <3>1. PICK p \in Nat : p = x.m_position /\ p <= m
      BY <1>1, <2>14
    <3>2. m \in Nat /\ e \in Nat /\ len \in Nat /\ len = e - m
      BY <1>7, <2>2, <2>3
    <3>3. PICK l \in Nat : l = m - p
      BY <3>1, <3>2
    <3>4. m = p + l /\ e - p = l + len
      BY <3>1, <3>2, <3>3
    <3>5. l = Len(r.data)
      BY <2>4, <3>1, <3>3
    <3> QED BY <3>1, <3>2, <3>3, <3>4, <3>5
  <2>15. ASSUME NEW j \in 1 .. e - x.m_position
         PROVE  (r.data \o part)[j] = Flat(x, x.m_position + j - 1)
    <3>a. j \in 1 .. l + h /\ j \in Nat
      BY <2>a
    <3>1. j \in 1 .. Len(r.data) + len
      BY <2>a, <3>a
    <3>2. CASE j <= Len(r.data)
      <4>1. j \in 1 .. m - x.m_position
        <5>1. j <= l /\ l = m - p
          BY <2>a, <3>2
        <5>2. j \in 1 .. l
          BY <2>a, <3>a, <5>1
        <5> QED BY <2>a, <5>1, <5>2
      <4>2. (r.data \o part)[j] = r.data[j]
        BY <2>13, <3>1, <3>2, Zenon
      <4>3. r.data[j] = Flat(x, x.m_position + j - 1)
        BY <2>4, <4>1, Zenon
      <4> QED BY <4>2, <4>3, Zenon
    <3>3. CASE ~(j <= Len(r.data))
      <4>1. PICK i \in 1 .. len : i = j - Len(r.data)
        <5>1. ~(j <= l)
          BY <2>a, <3>3
        <5>2. j - l \in 1 .. h
          BY <2>a, <3>a, <5>1
        <5>3. j - Len(r.data) \in 1 .. len
          BY <2>a, <5>2
        <5> QED BY <5>3
      <4>2. m + i - 1 = x.m_position + j - 1
        <5>1. i = j - l /\ j \in Nat
          BY <2>a, <3>a, <4>1

        <5>3. (p + l) + i - 1 = p + j - 1
          <6>1. p \in Int /\ l \in Int /\ j \in Int
            BY <2>a, <5>1
          <6>2. (p + l) + (j - l) - 1 = p + j - 1
            BY <6>1, IndexAhead
          <6> QED BY <5>1, <6>2, Zenon
        <5> QED BY <2>a, <5>3
      <4>3. (r.data \o part)[j] = part[i]
        BY <2>13, <3>1, <3>3, <4>1, Zenon
      <4>4. part[i] = Flat(x, m + i - 1)
        BY <2>10, <4>1
      <4> QED BY <4>2, <4>3, <4>4, Zenon
    <3> QED BY <3>2, <3>3
  <2>16. d.pos = e /\ d.rest = x.m_size - e /\ d.bad = FALSE /\ d.data = r.data \o part
    <3>1. m + len = e /\ x.m_size - m - len = x.m_size - e
      <4>1. m \in Int /\ e \in Int /\ len = e - m /\ x.m_size \in Int
        BY <1>1, <1>7, <2>2, <2>3
      <4> QED BY <4>1
    <3> QED BY <2>4, <2>12, <3>1
  <2>17. Len(d.data) = e - x.m_position
    <3>1. Len(d.data) = Len(r.data) + len
      BY <2>13, <2>16, Zenon
    <3> QED BY <2>a, <3>1
  <2>18. DumpedTo(x, d, e)
    <3>1. d.data \in Seq(Nat)
      BY <2>13, <2>16, Zenon
    <3>2. \A j \in 1 .. e - x.m_position : d.data[j] = Flat(x, x.m_position + j - 1)
      BY <2>15, <2>16, Zenon
    <3> QED BY <2>16, <2>17, <3>1, <3>2, Zenon DEF DumpedTo
  <2> QED BY <1>6, <2>2, <2>11, <2>18
<1> QED BY <1>1, <1>9, <1>10

\* The bytes of an array as one sequence.
ContentOf(x) == [i \in 1 .. x.m_size |-> Flat(x, i - 1)]

LEMMA ContentIs ==
  ASSUME NEW x, Valid(x)
  PROVE  /\ ContentOf(x) \in Seq(Nat) /\ Len(ContentOf(x)) = x.m_size
         /\ \A i \in 1 .. x.m_size : ContentOf(x)[i] = Flat(x, i - 1)
<1>1. x.m_size \in Nat /\ x.m_capacity \in Nat /\ x.m_size <= x.m_capacity
  BY ArrayFields
<1>2. ASSUME NEW i \in 1 .. x.m_size PROVE Flat(x, i - 1) \in Nat
  <2>1. i - 1 \in Nat /\ i - 1 < x.m_capacity
    BY <1>1
  <2> QED BY <2>1, NodeOfByte
<1>3. ContentOf(x) \in [1 .. x.m_size -> Nat]
  BY <1>2 DEF ContentOf
<1>4. ContentOf(x) \in Seq(Nat) /\ Len(ContentOf(x)) = x.m_size
  BY <1>1, <1>3
<1>5. \A i \in 1 .. x.m_size : ContentOf(x)[i] = Flat(x, i - 1)
  BY DEF ContentOf
<1> QED BY <1>4, <1>5

LEMMA RestIs ==
  ASSUME NEW x, Valid(x), NEW n \in Nat, x.m_position + n <= x.m_size
  PROVE  /\ SubSeq(ContentOf(x), x.m_position + 1, x.m_position + n) \in Seq(Nat)
         /\ Len(SubSeq(ContentOf(x), x.m_position + 1, x.m_position + n)) = n
         /\ \A j \in 1 .. n : SubSeq(ContentOf(x), x.m_position + 1, x.m_position + n)[j]
                                = Flat(x, x.m_position + j - 1)
<1>1. x.m_position \in Nat /\ x.m_size \in Nat
  BY ArrayFields
<1>2. PICK p \in Int, q \in Int : p = x.m_position + 1 /\ q = x.m_position + n /\ q - p + 1 = n
                                  /\ (p <= q <=> n # 0)
  BY <1>1
<1>3. \A i \in p .. q : i \in 1 .. x.m_size
  BY <1>1, <1>2
<1>4. ContentOf(x) \in Seq(Nat) /\ Len(ContentOf(x)) = x.m_size
      /\ \A i \in 1 .. x.m_size : ContentOf(x)[i] = Flat(x, i - 1)
  BY ContentIs
<1>5. \A i \in p .. q : ContentOf(x)[i] \in Nat
  <2>1. \A i \in 1 .. x.m_size : ContentOf(x)[i] \in Nat
    BY <1>4, ElementOfSeq
  <2> QED BY <1>3, <2>1
<1>6. PICK s : s = SubSeq(ContentOf(x), p, q)
  OBVIOUS
<1>7. /\ s \in Seq(Nat) /\ Len(s) = IF p <= q THEN q - p + 1 ELSE 0
      /\ \A i \in 1 .. q - p + 1 : s[i] = ContentOf(x)[p + i - 1]
  <2>1. p \in Int /\ q \in Int
    BY <1>2
  <2> QED BY <1>5, <1>6, <2>1, SubSeqProperties
<1>8. Len(s) = n
  BY <1>2, <1>7
<1>9. ASSUME NEW j \in 1 .. n PROVE s[j] = Flat(x, x.m_position + j - 1)
  <2>1. j \in 1 .. q - p + 1
    BY <1>2
  <2>2. p + j - 1 \in 1 .. x.m_size /\ (p + j - 1) - 1 = x.m_position + j - 1
    <3>1. p + j - 1 = x.m_position + j
      BY <1>1, <1>2
    <3>2. x.m_position + j \in 1 .. x.m_size
      BY <1>1
    <3>3. (x.m_position + j) - 1 = x.m_position + j - 1
      BY <1>1
    <3> QED BY <3>1, <3>2, <3>3, Zenon
  <2>3. s[j] = ContentOf(x)[p + j - 1]
    BY <1>7, <2>1, Zenon
  <2>4. ContentOf(x)[p + j - 1] = Flat(x, (p + j - 1) - 1)
    BY <1>4, <2>2, Zenon
  <2> QED BY <2>2, <2>3, <2>4, Zenon
<1> QED BY <1>2, <1>6, <1>7, <1>8, <1>9

\* From the start of a node writeToFile writes the rest.
LEMMA DumpedRest ==
  ASSUME NEW x, Valid(x), x.m_position % BaseSize = 0
  PROVE  Dumped(x).rest = 0 /\ Dumped(x).data = SubSeq(ContentOf(x), x.m_position + 1, x.m_size)
<1>1. /\ x.m_position \in Nat /\ x.m_size \in Nat /\ x.m_capacity \in Nat /\ x.nodes \in Nat
      /\ x.m_position <= x.m_size /\ x.m_size <= x.m_capacity /\ BaseSize \in Nat \ {0}
      /\ x.m_capacity = x.nodes * BaseSize
  BY ArrayFields, ByteArrayAssumption
<1>2. PICK f : f = Dumping(x)
  OBVIOUS
<1>3. PICK n \in Nat : n = NodesLeft(x)
  BY NodesLeftOf
<1>4. f[0] = ToDump(x) /\ \A k \in 1 .. n : f[k] = DumpNode(x, x.m_cur + k - 1, f[k - 1])
  BY <1>2, <1>3, DumpingSteps
<1> DEFINE T == {k \in 0 .. n : DumpedTo(x, f[k], DumpEnd(x, k))}
<1>5. 0 \in T
  <2>1. 0 * BaseSize = 0
    BY <1>1
  <2>2. DumpEnd(x, 0) = x.m_position
    <3>1. x.m_position + 0 = x.m_position /\ (x.m_position < x.m_size \/ x.m_position = x.m_size)
      BY <1>1
    <3> QED BY <2>1, <3>1 DEF DumpEnd
  <2>3. x.m_position - x.m_position = 0 /\ <<>> \in Seq(Nat) /\ Len(<<>>) = 0
    BY <1>1
  <2>4. DumpedTo(x, ToDump(x), x.m_position)
    BY <2>3 DEF DumpedTo, ToDump, getReadSize
  <2> QED BY <1>3, <1>4, <2>2, <2>4
<1>6. ASSUME NEW k \in 1 .. n, k - 1 \in T PROVE k \in T
  <2>1. DumpedTo(x, f[k - 1], DumpEnd(x, k - 1)) /\ k \in 1 .. NodesLeft(x)
    BY <1>3, <1>6
  <2>2. DumpedTo(x, f[k], DumpEnd(x, k))
    BY <1>4, <1>6, <2>1, DumpNodeDumps
  <2> QED BY <1>3, <2>2
<1> HIDE DEF T
<1>7. T = 0 .. n
  <2>1. T \in SUBSET (0 .. n)
    BY DEF T
  <2> QED BY <1>3, <1>5, <1>6, <2>1, Induction
<1>8. DumpedTo(x, f[n], DumpEnd(x, n))
  BY <1>3, <1>7 DEF T
<1>9. DumpEnd(x, n) = x.m_size
  <2>1. x.m_position + n * BaseSize >= x.m_capacity
    <3>1. CASE x.m_position = x.m_capacity
      <4>1. n * BaseSize \in Nat
        BY <1>1, <1>3
      <4> QED BY <1>1, <3>1, <4>1
    <3>2. CASE x.m_position < x.m_capacity
      <4>1. x.m_cur # Null /\ x.m_cur = x.m_position \div BaseSize
        BY <3>2, FromCur
      <4>2. PICK q \in Nat, o \in 0 .. BaseSize - 1 :
              x.m_position = BaseSize * q + o /\ x.m_position \div BaseSize = q
        <5>1. \E q \in Nat, o \in 0 .. BaseSize - 1 : x.m_position = BaseSize * q + o
                /\ x.m_position \div BaseSize = q /\ x.m_position % BaseSize = o
          BY <1>1, DivMod
        <5> QED BY <5>1, Zenon
      <4>3. n = x.nodes - q
        BY <1>3, <4>1, <4>2 DEF NodesLeft
      <4>4. (x.nodes - q) * BaseSize = x.nodes * BaseSize - BaseSize * q
        BY <1>1, <4>2
      <4>5. PICK m \in Nat : m = BaseSize * q
        BY <1>1, <4>2
      <4>6. n * BaseSize = x.m_capacity - m
        BY <1>1, <4>3, <4>4, <4>5
      <4>7. x.m_position >= m
        BY <1>1, <4>2, <4>5
      <4> QED BY <1>1, <4>5, <4>6, <4>7
    <3> QED BY <1>1, <3>1, <3>2
  <2>2. PICK m \in Nat : m = n * BaseSize
    BY <1>1, <1>3
  <2> QED BY <1>1, <2>1, <2>2 DEF DumpEnd
<1>10. PICK d : d = f[n]
  OBVIOUS
<1>11. d = Dumped(x)
  BY <1>2, <1>3, <1>10 DEF Dumped
<1>12. /\ d.rest = x.m_size - x.m_size /\ d.data \in Seq(Nat) /\ Len(d.data) = x.m_size - x.m_position
       /\ \A j \in 1 .. x.m_size - x.m_position : d.data[j] = Flat(x, x.m_position + j - 1)
  BY <1>8, <1>9, <1>10 DEF DumpedTo
<1>13. PICK len \in Nat : len = x.m_size - x.m_position /\ x.m_position + len = x.m_size
  <2>1. x.m_size - x.m_position \in Nat /\ x.m_position + (x.m_size - x.m_position) = x.m_size
    BY <1>1
  <2> QED BY <2>1
<1>14. PICK s : s = SubSeq(ContentOf(x), x.m_position + 1, x.m_position + len)
  OBVIOUS
<1>15. s \in Seq(Nat) /\ Len(s) = len /\ \A j \in 1 .. len : s[j] = Flat(x, x.m_position + j - 1)
  <2>1. len \in Nat /\ x.m_position + len <= x.m_size
    BY <1>1, <1>13
  <2> QED BY <1>14, <2>1, RestIs, Zenon
<1>16. d.data = s
  <2>1. \A j \in 1 .. len : d.data[j] = s[j]
    BY <1>12, <1>13, <1>15
  <2>2. d.data \in Seq(Nat) /\ Len(d.data) = len
    BY <1>12, <1>13
  <2> QED BY <1>15, <2>1, <2>2, SeqEqual
<1>17. d.rest = 0
  BY <1>1, <1>12
<1> QED BY <1>11, <1>13, <1>14, <1>16, <1>17

-----------------------------------------------------------------------------
LEMMA ZigzagIsNat ==
  ASSUME NEW v \in Int
  PROVE  Zigzag(v) \in Nat
<1>1. PICK w \in Nat \ {0} : w = 2^IntBits
  BY Powers
<1>2. \A i \in Int : i % w \in Nat
  BY <1>1
<1>3. 2 * v \in Int /\ 2 * (-v) - 1 \in Int
  OBVIOUS
<1> QED BY <1>1, <1>2, <1>3 DEF Zigzag

LEMMA SignedIsInt ==
  ASSUME NEW v \in Nat
  PROVE  Signed(v) \in Int
<1>1. PICK w \in Nat \ {0} : w = 2^IntBits
  BY Powers
<1> QED BY <1>1 DEF Signed

\* Every item leads to two calls of write() with bytes.
LEMMA PartsAreBytes ==
  ASSUME NEW it \in Items, NEW endian
  PROVE  Parts(it, endian)[1] \in Seq(Nat) /\ Parts(it, endian)[2] \in Seq(Nat)
<1>1. Values \subseteq Nat /\ Texts \subseteq Seq(Nat)
  <2>1. 0 .. 2^IntBits - 1 \subseteq Nat
    <3>1. PICK w \in Nat : w = 2^IntBits
      BY Powers
    <3> QED BY <3>1
  <2> QED BY <2>1, ByteArrayAssumption
<1>2. <<>> \in Seq(Nat)
  OBVIOUS
<1>3. CASE it \in [kind : {"byte"}, value : {v \in Values : v < 2^ByteBits}]
  <2>1. it.kind = "byte" /\ it.value \in Nat
    BY <1>1, <1>3
  <2>2. <<it.value>> \in Seq(Nat)
    BY <2>1
  <2>3. Parts(it, endian) = <<<<it.value>>, <<>>>>
    BY <2>1 DEF Parts
  <2> QED BY <1>2, <2>2, <2>3
<1>4. CASE it \in [kind : {"fixed", "uint"}, value : Values]
  <2>1. it.kind \in {"fixed", "uint"} /\ it.value \in Nat
    BY <1>1, <1>4
  <2>2. Fixed(it.value, endian) \in Seq(Nat) /\ Varint(it.value) \in Seq(Nat)
    BY <2>1, FixedIsBytes, VarintIsBytes
  <2>3. \/ Parts(it, endian) = <<Fixed(it.value, endian), <<>>>>
        \/ Parts(it, endian) = <<Varint(it.value), <<>>>>
    BY <2>1 DEF Parts
  <2>4. PICK p, q : p = Fixed(it.value, endian) /\ q = Varint(it.value)
    OBVIOUS
  <2>5. PICK e : e = <<>>
    OBVIOUS
  <2>6. Parts(it, endian) = <<p, e>> \/ Parts(it, endian) = <<q, e>>
    BY <2>3, <2>4, <2>5
  <2>7. p \in Seq(Nat) /\ q \in Seq(Nat) /\ e \in Seq(Nat)
    BY <1>2, <2>2, <2>4, <2>5
  <2> HIDE <2>4, <2>5
  <2> QED BY <2>6, <2>7
<1>5. CASE it \in [kind : {"int"}, value : {Signed(v) : v \in Values}]
  <2>1. it.kind = "int" /\ it.value \in Int
    BY <1>1, <1>5, SignedIsInt
  <2>2. Varint(Zigzag(it.value)) \in Seq(Nat)
    BY <2>1, ZigzagIsNat, VarintIsBytes
  <2>3. Parts(it, endian) = <<Varint(Zigzag(it.value)), <<>>>>
    BY <2>1 DEF Parts
  <2> QED BY <1>2, <2>2, <2>3
<1>6. CASE it \in [kind : {"stringF", "stringVint"}, value : Texts]
  <2>1. it.kind \in {"stringF", "stringVint"} /\ it.value \in Seq(Nat)
    BY <1>1, <1>6
  <2>2. Len(it.value) \in Nat
    BY <2>1
  <2>3. Fixed(Len(it.value), endian) \in Seq(Nat) /\ Varint(Len(it.value)) \in Seq(Nat)
    BY <2>2, FixedIsBytes, VarintIsBytes
  <2>4. \/ Parts(it, endian) = <<Fixed(Len(it.value), endian), it.value>>
        \/ Parts(it, endian) = <<Varint(Len(it.value)), it.value>>
    BY <2>1 DEF Parts
  <2>5. PICK p, q, s : p = Fixed(Len(it.value), endian) /\ q = Varint(Len(it.value)) /\ s = it.value
    OBVIOUS
  <2>6. Parts(it, endian) = <<p, s>> \/ Parts(it, endian) = <<q, s>>
    BY <2>4, <2>5
  <2>7. p \in Seq(Nat) /\ q \in Seq(Nat) /\ s \in Seq(Nat)
    BY <2>1, <2>3, <2>5
  <2> HIDE <2>5
  <2> QED BY <2>6, <2>7
<1> QED BY <1>3, <1>4, <1>5, <1>6 DEF Items

\* clear() leaves one node, the first.
LEMMA ClearedValid ==
  ASSUME NEW x, Valid(x)
  PROVE  Valid(Cleared(x)) /\ Cleared(x).m_position = 0 /\ Cleared(x).m_size = 0
<1>1. x \in Arrays /\ x.mem \in Memory(x.nodes) /\ x.nodes \in Nat \ {0}
  BY ArrayFields DEF Valid
<1>2. BaseSize \in Nat \ {0} /\ 1 * BaseSize = BaseSize /\ 0 \div BaseSize = 0
  BY ByteArrayAssumption
<1>3. PICK mem : mem = [p \in {0} \X Offsets |-> x.mem[p]]
  OBVIOUS
<1>4. mem \in Memory(1)
  <2>1. 0 .. 1 - 1 = {0} /\ {0} \subseteq 0 .. x.nodes - 1
    BY <1>1
  <2>2. ASSUME NEW p \in {0} \X Offsets PROVE x.mem[p] \in Nat
    <3>1. p \in (0 .. x.nodes - 1) \X Offsets
      BY <2>1
    <3> QED BY <1>1, <3>1 DEF Memory
  <2> QED BY <1>3, <2>1, <2>2 DEF Memory
<1>5. PICK y : y = Cleared(x)
  OBVIOUS
<1>6. /\ y.m_position = 0 /\ y.m_size = 0 /\ y.m_capacity = BaseSize /\ y.m_cur = 0 /\ y.nodes = 1
      /\ y.mem = mem
  BY <1>1, <1>3, <1>5 DEF Cleared, Arrays
<1>7. y \in Arrays
  <2>1. mem \in Memories
    BY <1>4, MemoryIsMemories
  <2>2. y = [x EXCEPT !.m_position = 0, !.m_size = 0, !.m_capacity = BaseSize, !.m_cur = 0,
                      !.nodes = 1, !.mem = mem]
    BY <1>3, <1>5 DEF Cleared
  <2>3. 0 \in Nat /\ BaseSize \in Nat /\ 0 \in Int /\ 1 \in Nat \ {0}
    BY <1>2
  <2> QED BY <1>1, <2>1, <2>2, <2>3 DEF Arrays
<1>8. Shape(y)
  BY <1>2, <1>4, <1>6 DEF Shape
<1>9. Valid(y)
  BY <1>7, <1>8 DEF Valid
<1> QED BY <1>5, <1>6, <1>9, Zenon

LEMMA EndianValid ==
  ASSUME NEW x, Valid(x), NEW e \in {"big", "little"}, NEW y, y = [x EXCEPT !.m_endian = e]
  PROVE  /\ Valid(y) /\ y.m_position = x.m_position /\ y.m_size = x.m_size /\ y.mem = x.mem
<1>1. x \in Arrays /\ Shape(x)
  BY DEF Valid
<1>2. y \in Arrays
  BY <1>1 DEF Arrays
<1>3. /\ y.m_position = x.m_position /\ y.m_size = x.m_size /\ y.mem = x.mem
      /\ y.nodes = x.nodes /\ y.m_capacity = x.m_capacity /\ y.m_cur = x.m_cur
  BY <1>1 DEF Arrays
<1>4. Shape(y)
  BY <1>1, <1>3, Zenon DEF Shape
<1> QED BY <1>2, <1>3, <1>4 DEF Valid

-----------------------------------------------------------------------------
\* The first n bytes of a sequence.
LEMMA Prefix ==
  ASSUME NEW s \in Seq(Nat), NEW n \in 0 .. Len(s)
  PROVE  /\ SubSeq(s, 1, n) \in Seq(Nat) /\ Len(SubSeq(s, 1, n)) = n
         /\ \A i \in 1 .. n : SubSeq(s, 1, n)[i] = s[i]
<1>1. n \in Int /\ 1 \in Int /\ Len(s) \in Nat
  OBVIOUS
<1>2. \A i \in 1 .. n : s[i] \in Nat
  BY <1>1, ElementOfSeq
<1>3. PICK t : t = SubSeq(s, 1, n)
  OBVIOUS
<1>4. /\ t \in Seq(Nat) /\ Len(t) = IF 1 <= n THEN n - 1 + 1 ELSE 0
      /\ \A i \in 1 .. n - 1 + 1 : t[i] = s[1 + i - 1]
  BY <1>1, <1>2, <1>3, SubSeqProperties
<1>5. n - 1 + 1 = n /\ \A i \in 1 .. n : 1 + i - 1 = i
  BY <1>1
<1>6. Len(t) = n
  BY <1>1, <1>4, <1>5
<1>7. \A i \in 1 .. n : t[i] = s[i]
  BY <1>4, <1>5
<1> QED BY <1>3, <1>4, <1>6, <1>7, Zenon

\* The bytes of s the position moved over from x to w.
Passed(x, w, s) == SubSeq(s, 1, w.m_position - x.m_position)

\* What a writing call does to the flat buffer.
LEMMA WroteIsOverwritten ==
  ASSUME NEW x, Valid(x), NEW s \in Seq(Nat), NEW w, Wrote(x, w, s),
         NEW d, d = Passed(x, w, s)
  PROVE  /\ w.m_position = x.m_position + Len(d)
         /\ ContentOf(w) = Buffer!Overwritten(ContentOf(x), x.m_position, d)
<1>1. /\ Valid(w) /\ x.m_position <= w.m_position /\ w.m_position <= x.m_position + Len(s)
      /\ w.m_size = Larger(w.m_position, x.m_size)
  BY DEF Wrote
<1>2. /\ x.m_position \in Nat /\ w.m_position \in Nat /\ x.m_size \in Nat /\ w.m_size \in Nat
      /\ x.m_position <= x.m_size /\ Len(s) \in Nat
  BY <1>1, ArrayFields
<1>3. PICK n \in 0 .. Len(s) : n = w.m_position - x.m_position
  BY <1>1, <1>2
<1>4. d \in Seq(Nat) /\ Len(d) = n /\ \A i \in 1 .. n : d[i] = s[i]
  BY <1>3, Prefix DEF Passed
<1>5. w.m_position = x.m_position + Len(d)
  BY <1>2, <1>3, <1>4
<1>6. PICK c : c = ContentOf(x)
  OBVIOUS
<1>7. Len(c) = x.m_size /\ \A i \in 1 .. x.m_size : c[i] = Flat(x, i - 1)
  BY <1>6, ContentIs
<1>8. w.m_size = IF Len(c) > x.m_position + Len(d) THEN Len(c) ELSE x.m_position + Len(d)
  <2>1. PICK p \in Nat : p = w.m_position /\ p = x.m_position + Len(d)
    BY <1>2, <1>5
  <2>2. PICK l \in Nat : l = x.m_size /\ l = Len(c)
    BY <1>2, <1>7
  <2>3. w.m_size = IF p > l THEN p ELSE l
    BY <1>1, <2>1, <2>2 DEF Larger
  <2>4. w.m_size = IF l > p THEN l ELSE p
    BY <2>1, <2>2, <2>3
  <2> QED BY <2>1, <2>2, <2>4
<1>9. ASSUME NEW i \in 1 .. w.m_size
      PROVE  Flat(w, i - 1) = IF i \in x.m_position + 1 .. x.m_position + Len(d)
                              THEN d[i - x.m_position] ELSE c[i]
  <2>1. PICK j \in Nat : j = i - 1 /\ j < w.m_size
    BY <1>2
  <2>2. Flat(w, j) = IF x.m_position <= j /\ j < w.m_position THEN s[j - x.m_position + 1] ELSE Flat(x, j)
    BY <2>1 DEF Wrote
  <2>a. PICK p \in Nat, q \in Nat : p = x.m_position /\ q = w.m_position /\ q = p + n /\ p + Len(d) = q
    <3>1. w.m_position = x.m_position + n /\ x.m_position + Len(d) = w.m_position
      BY <1>2, <1>3, <1>5
    <3> QED BY <1>2, <3>1
  <2>b. n \in Nat
    BY <1>2, <1>3
  <2>3. CASE i \in x.m_position + 1 .. x.m_position + Len(d)
    <3>a. p \in Nat /\ i \in p + 1 .. p + n
      BY <2>3, <2>a
    <3>b. /\ p <= i - 1 /\ i - 1 < p + n /\ (i - 1) - p + 1 = i - p /\ i - p \in 1 .. n
      BY <2>b, <3>a, IndexFromOne
    <3>1. x.m_position <= j /\ j < w.m_position
      BY <2>1, <2>a, <3>b, Zenon
    <3>2. j - x.m_position + 1 = i - x.m_position /\ i - x.m_position \in 1 .. n
      BY <2>1, <2>a, <3>b, Zenon
    <3>3. d[i - x.m_position] = s[i - x.m_position]
      BY <1>4, <3>2
    <3>4. Flat(w, j) = s[i - x.m_position]
      BY <2>2, <3>1, <3>2
    <3> QED BY <2>1, <2>3, <3>3, <3>4
  <2>4. CASE ~(i \in x.m_position + 1 .. x.m_position + Len(d))
    <3>a. ~(i \in p + 1 .. q)
      BY <2>4, <2>a
    <3>1. ~(x.m_position <= j /\ j < w.m_position) /\ i \in 1 .. x.m_size
      <4>1. ~(p <= j /\ j < q)
        BY <1>2, <2>1, <2>a, <3>a
      <4>2. w.m_size = IF q > x.m_size THEN q ELSE x.m_size
        BY <1>1, <2>a DEF Larger
      <4>3. i <= x.m_size
        BY <1>2, <2>1, <2>a, <3>a, <4>2
      <4> QED BY <1>2, <2>a, <4>1, <4>3
    <3>2. c[i] = Flat(x, i - 1)
      BY <1>7, <3>1
    <3>3. Flat(w, j) = Flat(x, j)
      BY <2>2, <3>1
    <3> QED BY <2>1, <2>4, <3>2, <3>3
  <2> QED BY <2>3, <2>4
<1>10. ContentOf(w) = [i \in 1 .. w.m_size |-> IF i \in x.m_position + 1 .. x.m_position + Len(d)
                                               THEN d[i - x.m_position] ELSE c[i]]
  BY <1>9 DEF ContentOf
<1>11. ContentOf(w) = Buffer!Overwritten(c, x.m_position, d)
  BY <1>8, <1>10, Zenon DEF Buffer!Overwritten
<1> QED BY <1>5, <1>6, <1>11, Zenon

\* What a reading call gives and leaves of the flat buffer.
LEMMA TookIsRead ==
  ASSUME NEW x, Valid(x), NEW y, Took(x, y), NEW m \in Nat,
         x.m_position + m <= x.m_size, y.m_position <= x.m_position + m,
         NEW d, d = Passed(x, y, Ahead(x, m))
  PROVE  /\ ContentOf(y) = ContentOf(x) /\ y.m_position = x.m_position + Len(d)
         /\ y.m_position <= Len(ContentOf(x))
         /\ d = SubSeq(ContentOf(x), x.m_position + 1, y.m_position)
<1>1. /\ Valid(y) /\ y.mem = x.mem /\ y.m_size = x.m_size /\ x.m_position <= y.m_position
  BY DEF Took, SameNodes
<1>2. /\ x.m_position \in Nat /\ y.m_position \in Nat /\ x.m_size \in Nat /\ y.m_position <= y.m_size
      /\ x.m_size <= x.m_capacity /\ x.m_capacity \in Nat
  BY <1>1, ArrayFields
<1>3. ContentOf(y) = ContentOf(x)
  BY <1>1, Zenon DEF ContentOf, Flat
<1>4. PICK t : t = Ahead(x, m)
  OBVIOUS
<1>5. t \in Seq(Nat) /\ Len(t) = m /\ \A k \in 1 .. m : t[k] = Flat(x, x.m_position + k - 1)
  <2>1. x.m_position + m <= x.m_capacity
    BY <1>2
  <2> QED BY <1>4, <2>1, AheadIsFlat, Zenon
<1>6. PICK n \in Nat : n = y.m_position - x.m_position /\ n <= m /\ x.m_position + n = y.m_position
  BY <1>1, <1>2
<1>7. d \in Seq(Nat) /\ Len(d) = n /\ \A i \in 1 .. n : d[i] = t[i]
  <2>1. n \in 0 .. Len(t)
    BY <1>5, <1>6
  <2>2. d = SubSeq(t, 1, n)
    BY <1>4, <1>6 DEF Passed
  <2> QED BY <1>5, <2>1, <2>2, Prefix
<1>8. PICK r : r = SubSeq(ContentOf(x), x.m_position + 1, x.m_position + n)
  OBVIOUS
<1>9. r \in Seq(Nat) /\ Len(r) = n /\ \A j \in 1 .. n : r[j] = Flat(x, x.m_position + j - 1)
  <2>1. x.m_position + n <= x.m_size
    BY <1>1, <1>2, <1>6
  <2> QED BY <1>6, <1>8, <2>1, RestIs, Zenon
<1>10. ASSUME NEW j \in 1 .. n PROVE d[j] = r[j]
  <2>1. j \in 1 .. m
    BY <1>6
  <2> QED BY <1>5, <1>7, <1>9, <2>1, Zenon
<1>11. d = r
  <2>1. Len(d) = Len(r) /\ \A i \in 1 .. Len(d) : d[i] = r[i]
    BY <1>7, <1>9, <1>10
  <2> QED BY <1>7, <1>9, <2>1, SeqEqual
<1>12. r = SubSeq(ContentOf(x), x.m_position + 1, y.m_position)
  BY <1>6, <1>8, Zenon
<1>13. y.m_position <= Len(ContentOf(x))
  <2>1. Len(ContentOf(x)) = x.m_size
    BY ContentIs
  <2> QED BY <1>1, <1>2, <2>1
<1>14. y.m_position = x.m_position + Len(d)
  BY <1>6, <1>7
<1> QED BY <1>3, <1>11, <1>12, <1>13, <1>14, Zenon

\* The bytes from the position on, and what toString shows of them.
RestOf(x) == SubSeq(ContentOf(x), x.m_position + 1, Len(ContentOf(x)))

LEMMA AheadIsPeek ==
  ASSUME NEW x, Valid(x), NEW n \in Nat, n <= getReadSize(x)
  PROVE  /\ Len(Ahead(x, n)) <= Len(RestOf(x))
         /\ Ahead(x, n) = SubSeq(RestOf(x), 1, Len(Ahead(x, n)))
<1>a. PICK d, r : d = Ahead(x, n) /\ r = RestOf(x)
  OBVIOUS
<1>1. /\ x.m_position \in Nat /\ x.m_size \in Nat /\ x.m_position <= x.m_size
      /\ x.m_size <= x.m_capacity /\ x.m_capacity \in Nat
  BY ArrayFields
<1>2. PICK m \in Nat : m = x.m_size - x.m_position /\ x.m_position + m = x.m_size /\ n <= m
  BY <1>1 DEF getReadSize
<1>3. d \in Seq(Nat) /\ Len(d) = n /\ \A k \in 1 .. n : d[k] = Flat(x, x.m_position + k - 1)
  <2>1. x.m_position + n <= x.m_capacity
    BY <1>1, <1>2
  <2> QED BY <1>a, <2>1, AheadIsFlat, Zenon
<1>4. r \in Seq(Nat) /\ Len(r) = m /\ \A j \in 1 .. m : r[j] = Flat(x, x.m_position + j - 1)
  <2>1. Len(ContentOf(x)) = x.m_position + m
    BY <1>2, ContentIs
  <2>2. r = SubSeq(ContentOf(x), x.m_position + 1, x.m_position + m)
    BY <1>a, <2>1, Zenon DEF RestOf
  <2>3. x.m_position + m <= x.m_size
    BY <1>1, <1>2
  <2>4. PICK u : u = SubSeq(ContentOf(x), x.m_position + 1, x.m_position + m)
    OBVIOUS
  <2>5. u \in Seq(Nat) /\ Len(u) = m /\ \A j \in 1 .. m : u[j] = Flat(x, x.m_position + j - 1)
    BY <1>2, <2>3, <2>4, RestIs, Zenon
  <2>6. r = u
    BY <2>2, <2>4, Zenon
  <2> QED BY <2>5, <2>6
<1>5. PICK t : t = SubSeq(r, 1, n)
  OBVIOUS
<1>6. t \in Seq(Nat) /\ Len(t) = n /\ \A i \in 1 .. n : t[i] = r[i]
  <2>1. n \in 0 .. Len(r)
    BY <1>2, <1>4
  <2> QED BY <1>4, <1>5, <2>1, Prefix
<1>7. ASSUME NEW j \in 1 .. n PROVE d[j] = t[j]
  <2>1. j \in 1 .. m
    BY <1>2
  <2> QED BY <1>3, <1>4, <1>6, <2>1, Zenon
<1>8. d = t
  <2>1. Len(d) = Len(t) /\ \A i \in 1 .. Len(d) : d[i] = t[i]
    BY <1>3, <1>6, <1>7
  <2> QED BY <1>3, <1>6, <2>1, SeqEqual
<1>9. Len(d) <= Len(r)
  BY <1>2, <1>3, <1>4
<1>10. SubSeq(r, 1, n) = SubSeq(r, 1, Len(d))
  BY <1>3, Zenon
<1> QED BY <1>a, <1>5, <1>8, <1>9, <1>10, Zenon

\* What setPosition does to the flat buffer.
LEMMA SetPositionIsSeek ==
  ASSUME NEW x, Valid(x), NEW p \in Nat, p <= x.m_capacity, NEW y, y = setPosition(x, p),
         NEW c, c = ContentOf(x), NEW e, e = ContentOf(y)
  PROVE  /\ Valid(y) /\ y.m_position = p
         /\ Len(e) = (IF p > Len(c) THEN p ELSE Len(c)) /\ SubSeq(e, 1, Len(c)) = c
<1>1. Valid(y) /\ y.mem = x.mem /\ y.m_position = p /\ y.m_size = Larger(p, x.m_size)
  <2>1. Valid(y) /\ SameNodes(x, y) /\ y.m_position = p /\ y.m_size = Larger(p, x.m_size)
    BY SetPositionValid
  <2> QED BY <2>1, Zenon DEF SameNodes
<1>2. c \in Seq(Nat) /\ Len(c) = x.m_size /\ \A i \in 1 .. x.m_size : c[i] = Flat(x, i - 1)
  BY ContentIs
<1>3. e \in Seq(Nat) /\ Len(e) = y.m_size /\ \A i \in 1 .. y.m_size : e[i] = Flat(y, i - 1)
  BY <1>1, ContentIs
<1>4. x.m_size \in Nat /\ y.m_size \in Nat
  BY <1>1, ArrayFields
<1>5. Len(e) = IF p > Len(c) THEN p ELSE Len(c)
  BY <1>1, <1>2, <1>3 DEF Larger
<1>6. x.m_size <= y.m_size
  BY <1>1, <1>4 DEF Larger
<1>7. PICK t : t = SubSeq(e, 1, Len(c))
  OBVIOUS
<1>8. t \in Seq(Nat) /\ Len(t) = Len(c) /\ \A i \in 1 .. Len(c) : t[i] = e[i]
  <2>1. Len(c) \in 0 .. Len(e)
    BY <1>2, <1>3, <1>4, <1>6
  <2> QED BY <1>3, <1>7, <2>1, Prefix
<1>9. ASSUME NEW i \in 1 .. Len(c) PROVE t[i] = c[i]
  <2>1. i \in 1 .. x.m_size /\ i \in 1 .. y.m_size
    BY <1>2, <1>4, <1>6
  <2>2. Flat(y, i - 1) = Flat(x, i - 1)
    BY <1>1, Zenon DEF Flat
  <2> QED BY <1>2, <1>3, <1>8, <2>1, <2>2, Zenon
<1>10. t = c
  BY <1>2, <1>8, <1>9, SeqEqual
<1> QED BY <1>1, <1>5, <1>7, <1>10, Zenon

-----------------------------------------------------------------------------
\* One digit: of v the digits below weight p, and the one of weight p.
LEMMA Digit ==
  ASSUME NEW p \in Nat \ {0}, NEW b \in Nat \ {0}, NEW v \in Nat
  PROVE  ((v \div p) % b) * p + (v % p) = v % (p * b)
<1>1. PICK q \in Nat, r \in 0 .. p - 1 : v = p * q + r /\ v \div p = q /\ v % p = r
  BY DivMod
<1>2. PICK t \in Nat, d \in 0 .. b - 1 : q = b * t + d /\ q \div b = t /\ q % b = d
  BY DivMod
<1>3. PICK g \in Nat \ {0} : g = p * b
  OBVIOUS
<1>4. PICK m \in Nat : m = p * d + r
  BY <1>1, <1>2
<1>5. m \in 0 .. g - 1
  <2>1. p * d + p <= p * b
    <3>1. d + 1 <= b /\ d + 1 \in Nat
      BY <1>2
    <3>2. p * (d + 1) <= p * b
      BY <3>1
    <3>3. p * (d + 1) = p * d + p
      BY <1>2
    <3> QED BY <3>2, <3>3
  <2>2. PICK e \in Nat : e = p * d
    BY <1>2
  <2>3. e + p <= g
    BY <1>3, <2>1, <2>2
  <2> QED BY <1>1, <1>3, <1>4, <2>2, <2>3
<1>6. v = g * t + m
  <2>1. p * (b * t + d) = (p * b) * t + p * d
    BY <1>2
  <2>2. p * q + r = (p * b) * t + (p * d + r)
    <3>1. p * q = (p * b) * t + p * d
      BY <1>2, <2>1
    <3>2. PICK e \in Nat, f \in Nat : e = p * d /\ f = (p * b) * t
      BY <1>2
    <3> QED BY <1>1, <3>1, <3>2
  <2> QED BY <1>1, <1>3, <1>4, <2>2
<1>7. (g * t + m) % g = m
  <2>1. t \in Int /\ g \in Nat \ {0}
    BY <1>2, <1>3
  <2> HIDE <1>1, <1>2, <1>3, <1>4
  <2> QED BY <1>5, <2>1, DivModUnique
<1>8. d * p + r = m
  BY <1>1, <1>2, <1>4
<1> QED BY <1>1, <1>2, <1>3, <1>6, <1>7, <1>8, Zenon

\* The weights of n digits of base b.
Weights(w, n, b) == w[0] = 1 /\ \A k \in 1 .. n : w[k] = w[k - 1] * b

\* The digits of v with their weights, low ones first or high ones first.
Up(s, v, w, n, b) == \A k \in 1 .. n : s[k] = ((v \div w[k - 1]) % b) * w[k - 1]
Down(s, v, w, n, b) == \A k \in 1 .. n : s[k] = ((v \div w[n - k]) % b) * w[n - k]

\* The sum of the digits, low ones first.
LEMMA DigitsUp ==
  ASSUME NEW n \in Nat, NEW b \in Nat \ {0}, NEW w \in [0 .. n -> Nat \ {0}], Weights(w, n, b),
         NEW v \in Nat, NEW s \in [1 .. n -> Nat], Up(s, v, w, n, b)
  PROVE  Sums(s, n)[n] = v % w[n]
<1>1. PICK f : f = Sums(s, n)
  OBVIOUS
<1>2. f \in [0 .. n -> Nat] /\ f[0] = 0 /\ \A k \in 1 .. n : f[k] = f[k - 1] + s[k]
  BY <1>1, SumsOfNat
<1> DEFINE T == {k \in 0 .. n : f[k] = v % w[k]}
<1>3. 0 \in T
  <2>1. v % 1 = 0 /\ 0 \in 0 .. n
    OBVIOUS
  <2> QED BY <1>2, <2>1 DEF Weights
<1>4. ASSUME NEW k \in 1 .. n, k - 1 \in T PROVE k \in T
  <2>1. PICK p \in Nat \ {0} : p = w[k - 1] /\ w[k] = p * b
    <3>1. k - 1 \in 0 .. n
      OBVIOUS
    <3>2. w[k - 1] \in Nat \ {0} /\ w[k] = w[k - 1] * b
      BY <3>1 DEF Weights
    <3> QED BY <3>2, Zenon
  <2>2. s[k] = ((v \div p) % b) * p
    <3>1. s[k] = ((v \div w[k - 1]) % b) * w[k - 1]
      BY DEF Up
    <3> QED BY <2>1, <3>1, Zenon
  <2>3. f[k - 1] = v % p
    BY <1>4, <2>1
  <2>4. ((v \div p) % b) * p + (v % p) = v % (p * b)
    BY <2>1, Digit
  <2>5. f[k] = f[k - 1] + s[k] /\ f[k - 1] \in Nat /\ s[k] \in Nat
    BY <1>2
  <2>6. f[k] = s[k] + f[k - 1]
    BY <2>5
  <2>7. f[k] = v % w[k]
    BY <2>1, <2>2, <2>3, <2>4, <2>6, Zenon
  <2> QED BY <2>7
<1>5. T \in SUBSET (0 .. n)
  OBVIOUS
<1> HIDE DEF T
<1>6. T = 0 .. n
  BY <1>3, <1>4, <1>5, Induction
<1>7. n \in 0 .. n
  OBVIOUS
<1> QED BY <1>1, <1>6, <1>7 DEF T

\* The same with the high ones first.
LEMMA DigitsDown ==
  ASSUME NEW n \in Nat, NEW b \in Nat \ {0}, NEW w \in [0 .. n -> Nat \ {0}], Weights(w, n, b),
         NEW v \in Nat, NEW s \in [1 .. n -> Nat], Down(s, v, w, n, b)
  PROVE  Sums(s, n)[n] = v % w[n]
<1>1. PICK f : f = Sums(s, n)
  OBVIOUS
<1>2. f \in [0 .. n -> Nat] /\ f[0] = 0 /\ \A k \in 1 .. n : f[k] = f[k - 1] + s[k]
  BY <1>1, SumsOfNat
<1>3. PICK all \in Nat : all = v % w[n]
  <2>1. w[n] \in Nat \ {0}
    OBVIOUS
  <2>2. v % w[n] \in Nat
    BY <2>1
  <2> QED BY <2>2
<1> DEFINE T == {k \in 0 .. n : f[k] + (v % w[n - k]) = all}
<1>4. 0 \in T
  <2>1. n - 0 = n /\ 0 \in 0 .. n /\ 0 + all = all
    BY <1>3
  <2> QED BY <1>2, <1>3, <2>1
<1>5. ASSUME NEW k \in 1 .. n, k - 1 \in T PROVE k \in T
  <2>1. PICK j \in 1 .. n : j = n - (k - 1) /\ j - 1 = n - k
    <3>1. n - (k - 1) \in 1 .. n /\ n - (k - 1) - 1 = n - k
      OBVIOUS
    <3> QED BY <3>1
  <2>2. PICK p \in Nat \ {0} : p = w[n - k] /\ w[n - (k - 1)] = p * b
    <3>1. w[j] = w[j - 1] * b /\ w[j - 1] \in Nat \ {0}
      BY <2>1 DEF Weights
    <3> QED BY <2>1, <3>1
  <2>3. s[k] = ((v \div p) % b) * p
    <3>1. s[k] = ((v \div w[n - k]) % b) * w[n - k]
      BY DEF Down
    <3> QED BY <2>2, <3>1, Zenon
  <2>4. f[k - 1] + (v % (p * b)) = all
    BY <1>5, <2>2
  <2>5. ((v \div p) % b) * p + (v % p) = v % (p * b)
    BY <2>2, Digit
  <2>6. f[k] = f[k - 1] + s[k] /\ f[k - 1] \in Nat /\ s[k] \in Nat
    BY <1>2
  <2>7. PICK r \in Nat : r = v % p
    <3>1. \A u \in Nat, g \in Nat \ {0} : u % g \in Nat
      OBVIOUS
    <3>2. v % p \in Nat
      BY <2>2, <3>1, Zenon
    <3> QED BY <3>2, Zenon
  <2>8. f[k - 1] + (s[k] + r) = all
    BY <2>3, <2>4, <2>5, <2>7, Zenon
  <2>9. f[k] + r = all
    BY <2>6, <2>7, <2>8
  <2>10. f[k] + (v % w[n - k]) = all
    BY <2>2, <2>7, <2>9, Zenon
  <2> QED BY <2>10
<1>6. T \in SUBSET (0 .. n)
  OBVIOUS
<1> HIDE DEF T
<1>7. T = 0 .. n
  BY <1>4, <1>5, <1>6, Induction
<1>8. n \in 0 .. n /\ n - n = 0 /\ v % 1 = 0 /\ w[0] = 1
  BY DEF Weights
<1>9. f[n] + (v % w[n - n]) = all
  BY <1>7, <1>8 DEF T
<1>10. f[n] + 0 = all /\ f[n] \in Nat
  BY <1>2, <1>8, <1>9
<1> QED BY <1>1, <1>3, <1>10

\* The weights of a fixed-size integer and of a varint.
LEMMA WeightsOf ==
  ASSUME NEW g \in Nat, NEW n \in Nat, g * n <= IntBits + ByteBits,
         NEW w, w = [j \in 0 .. n |-> 2^(g * j)]
  PROVE  /\ w \in [0 .. n -> Nat \ {0}] /\ Weights(w, n, 2^g)
         /\ \A j \in 0 .. n : w[j] = 2^(g * j)
<1>1. PICK m \in Nat : m = IntBits + ByteBits
  BY Widths
<1>2. ASSUME NEW j \in 0 .. n PROVE g * j \in Nat /\ g * j <= m
  <2>1. g * j <= g * n /\ g * j \in Nat
    OBVIOUS
  <2>2. PICK h \in Nat : h = g * n
    OBVIOUS
  <2> QED BY <1>1, <2>1, <2>2
<1>3. ASSUME NEW j \in 0 .. n PROVE 2^(g * j) \in Nat \ {0}
  <2>1. g * j \in 0 .. IntBits + ByteBits
    BY <1>1, <1>2
  <2> QED BY <2>1, PowersArePositive
<1>4. w \in [0 .. n -> Nat \ {0}] /\ \A j \in 0 .. n : w[j] = 2^(g * j)
  BY <1>3
<1>5. w[0] = 1
  <2>1. g * 0 = 0 /\ 0 \in 0 .. n
    OBVIOUS
  <2> QED BY <1>4, <2>1, PowersDouble
<1>6. ASSUME NEW k \in 1 .. n PROVE w[k] = w[k - 1] * 2^g
  <2>1. k - 1 \in 0 .. n /\ k \in 0 .. n
    OBVIOUS
  <2>2. g * k = g * (k - 1) + g
    OBVIOUS
  <2>3. g * (k - 1) \in Nat /\ g * (k - 1) + g <= IntBits + ByteBits
    BY <1>1, <1>2, <2>1, <2>2
  <2>4. 2^(g * (k - 1) + g) = 2^(g * (k - 1)) * 2^g
    BY <2>3, PowerOfSum
  <2>5. w[k] = 2^(g * k) /\ w[k - 1] = 2^(g * (k - 1))
    BY <1>4, <2>1
  <2> QED BY <2>2, <2>4, <2>5, Zenon
<1> QED BY <1>4, <1>5, <1>6 DEF Weights

\* A number below g is its own remainder, and a multiple of g does not count.
LEMMA SmallMod ==
  ASSUME NEW g \in Nat \ {0}, NEW r \in Nat, r < g
  PROVE  r % g = r /\ (r + g) % g = r
<1>1. r \in 0 .. g - 1 /\ g * 0 + r = r /\ g * 1 + r = r + g
  OBVIOUS
<1>2. (g * 0 + r) % g = r /\ (g * 1 + r) % g = r
  BY <1>1, DivModUnique
<1> QED BY <1>1, <1>2

\* What writeFuint... wrote, readFuint... reads, in either byte order.
LEMMA FixedReadsBack ==
  ASSUME NEW v \in Nat, v < 2^IntBits, NEW endian
  PROVE  Unfixed(Fixed(v, endian), endian) = v /\ Len(Fixed(v, endian)) = IntBytes
<1>1. IntBytes \in Nat \ {0} /\ ByteBits \in Nat /\ ByteBits * IntBytes = IntBits
  <2>1. ByteBits \in Nat \ {0} /\ IntBits \in Nat /\ IntBits % ByteBits = 0
    BY ByteArrayAssumption
  <2>2. PICK q \in Nat, r \in 0 .. ByteBits - 1 :
          IntBits = ByteBits * q + r /\ IntBits \div ByteBits = q /\ IntBits % ByteBits = r
    BY <2>1, DivMod
  <2>3. ByteBits * q = IntBits /\ IntBytes = q
    BY <2>1, <2>2 DEF IntBytes
  <2> QED BY <2>1, <2>3, Widths
<1>2. PICK n \in Nat \ {0} : n = IntBytes
  BY <1>1
<1>3. PICK w : w = [j \in 0 .. n |-> 2^(ByteBits * j)]
  OBVIOUS
<1>4. PICK b \in Nat \ {0} : b = 2^ByteBits
  BY Powers
<1>5. /\ w \in [0 .. n -> Nat \ {0}] /\ Weights(w, n, b) /\ \A j \in 0 .. n : w[j] = 2^(ByteBits * j)
  <2>1. ByteBits * n <= IntBits + ByteBits /\ ByteBits \in Nat
    BY <1>1, <1>2, Widths
  <2>2. /\ w \in [0 .. n -> Nat \ {0}] /\ Weights(w, n, 2^ByteBits)
        /\ \A j \in 0 .. n : w[j] = 2^(ByteBits * j)
    BY <1>2, <1>3, <2>1, WeightsOf, Zenon
  <2> QED BY <1>4, <2>2, Zenon
<1>6. PICK t : t = Fixed(v, endian)
  OBVIOUS
<1>7. ASSUME NEW k \in 1 .. n
      PROVE  /\ Place(k, endian) \in 0 .. n
             /\ t[k] = (v \div w[Place(k, endian)]) % b
  <2>1. Place(k, endian) \in 0 .. n - 1
    BY <1>2, PlaceInInteger
  <2>2. Place(k, endian) \in 0 .. n
    BY <1>2, <2>1
  <2>3. t[k] = (v \div 2^(ByteBits * Place(k, endian))) % 2^ByteBits
    BY <1>2, <1>6 DEF Fixed
  <2> QED BY <1>4, <1>5, <2>2, <2>3, Zenon
<1>8. PICK s : s = [k \in 1 .. n |-> t[k] * 2^(ByteBits * Place(k, endian))]
  OBVIOUS
<1>9. ASSUME NEW k \in 1 .. n
      PROVE  /\ s[k] = ((v \div w[Place(k, endian)]) % b) * w[Place(k, endian)] /\ s[k] \in Nat
  <2>1. s[k] = t[k] * 2^(ByteBits * Place(k, endian))
    BY <1>8
  <2>2. PICK p \in Nat \ {0} : p = w[Place(k, endian)] /\ p = 2^(ByteBits * Place(k, endian))
    BY <1>5, <1>7
  <2>3. s[k] = ((v \div p) % b) * p
    BY <1>7, <2>1, <2>2, Zenon
  <2>4. ((v \div p) % b) * p \in Nat
    <3>1. v \div p \in Nat
      BY <2>2
    <3>2. (v \div p) % b \in Nat
      BY <1>4, <3>1
    <3> QED BY <2>2, <3>2
  <2> QED BY <2>2, <2>3, <2>4, Zenon
<1>10. s \in [1 .. n -> Nat]
  <2>1. \A k \in 1 .. n : s[k] \in Nat
    BY <1>9
  <2> QED BY <1>8, <2>1
<1>11. Sums(s, n)[n] = v % w[n]
  <2>1. CASE endian = "little"
    <3>1. \A k \in 1 .. n : Place(k, endian) = k - 1
      BY <2>1 DEF Place
    <3>2. Up(s, v, w, n, b)
      BY <1>9, <3>1, Zenon DEF Up
    <3>3. n \in Nat /\ b \in Nat \ {0}
      BY <1>2, <1>4
    <3> QED BY <1>5, <1>10, <3>2, <3>3, DigitsUp, Zenon
  <2>2. CASE endian # "little"
    <3>1. \A k \in 1 .. n : Place(k, endian) = n - k
      BY <1>2, <2>2 DEF Place
    <3>2. Down(s, v, w, n, b)
      BY <1>9, <3>1, Zenon DEF Down
    <3>3. n \in Nat /\ b \in Nat \ {0}
      BY <1>2, <1>4
    <3> QED BY <1>5, <1>10, <3>2, <3>3, DigitsDown, Zenon
  <2> QED BY <2>1, <2>2
<1>12. v % w[n] = v
  <2>1. n \in 0 .. n /\ ByteBits * n = IntBits
    BY <1>1, <1>2
  <2>2. w[n] = 2^IntBits
    BY <1>5, <2>1
  <2>3. PICK g \in Nat \ {0} : g = 2^IntBits
    BY Powers
  <2>4. v % g = v
    BY <2>3, SmallMod
  <2> QED BY <2>2, <2>3, <2>4, Zenon
<1>13. Unfixed(t, endian) = Sums(s, n)[n]
  BY <1>2, <1>8, Zenon DEF Unfixed
<1>14. Len(t) = IntBytes
  <2>1. t = [k \in 1 .. IntBytes |-> (v \div 2^(ByteBits * Place(k, endian))) % 2^ByteBits]
    BY <1>6 DEF Fixed
  <2>2. t \in Seq(Nat) /\ DOMAIN t = 1 .. IntBytes
    BY <1>6, <2>1, FixedIsBytes
  <2> QED BY <1>1, <2>2, LenProperties
<1> QED BY <1>6, <1>11, <1>12, <1>13, <1>14, Zenon

\* A varint has at most Groups bytes, and enough of them.
LEMMA VarintBytes ==
  ASSUME NEW v \in Nat, v < 2^IntBits
  PROVE  \E n \in 1 .. Groups :
           /\ v < 2^(Group * n)
           /\ Varint(v) = [k \in 1 .. n |-> ((v \div 2^(Group * (k - 1))) % 2^Group)
                                              + (IF k < n THEN 2^Group ELSE 0)]
<1> DEFINE S == {m \in 1 .. Groups : m = Groups \/ v < 2^(Group * m)}
<1>1. Groups \in Nat \ {0}
  BY Widths
<1>2. Groups \in S /\ S \in SUBSET Nat
  BY <1>1
<1>3. PICK n : n = Min(S)
  OBVIOUS
<1>4. n \in S
  <2> HIDE DEF S
  <2>1. \E m \in S : \A k \in S : m <= k
    BY <1>2, LeastExists
  <2>2. Min(S) \in S
    BY <2>1 DEF Min
  <2> QED BY <1>3, <2>2
<1>5. v < 2^(Group * Groups)
  <2>1. PICK g \in Nat : g = Group * Groups /\ IntBits <= g /\ g <= IntBits + ByteBits
    <3>1. Group * Groups \in IntBits .. IntBits + ByteBits /\ IntBits \in Nat
      BY Widths
    <3> QED BY <3>1
  <2>2. PICK i \in Nat, j \in Nat : i = IntBits /\ j = g - IntBits /\ i + j = g
    BY <2>1, Widths
  <2>3. 2^(i + j) = 2^i * 2^j
    BY <2>1, <2>2, PowerOfSum
  <2>4. PICK p \in Nat \ {0}, q \in Nat \ {0} : p = 2^i /\ q = 2^j
    <3>1. i \in 0 .. IntBits + ByteBits /\ j \in 0 .. IntBits + ByteBits
      BY <2>1, <2>2, Widths
    <3> QED BY <3>1, PowersArePositive
  <2>5. p <= p * q
    BY <2>4
  <2>6. v < p
    BY <2>2, <2>4
  <2>7. v < p * q
    BY <2>4, <2>5, <2>6
  <2> QED BY <2>1, <2>2, <2>3, <2>4, <2>7, Zenon
<1>6. n \in 1 .. Groups /\ v < 2^(Group * n)
  <2>1. n \in 1 .. Groups /\ (n = Groups \/ v < 2^(Group * n))
    BY <1>4
  <2> QED BY <1>5, <2>1, Zenon
<1>7. Varint(v) = [k \in 1 .. n |-> ((v \div 2^(Group * (k - 1))) % 2^Group)
                                      + (IF k < n THEN 2^Group ELSE 0)]
  BY <1>3 DEF Varint
<1> QED BY <1>6, <1>7, Zenon

\* The bytes of a varint: all but the last one have the top bit set.
Ends(t, n) ==
  /\ t \in Seq(Nat) /\ Len(t) = n /\ n \in 1 .. Groups /\ t[n] < 2^Group
  /\ \A k \in 1 .. n - 1 : ~(t[k] < 2^Group)

\* What writeUint32 and writeUint64 wrote, readUint32 and readUint64 read.
LEMMA VarintReadsBack ==
  ASSUME NEW v \in Nat, v < 2^IntBits
  PROVE  Unvarint(Varint(v)) = v /\ Ends(Varint(v), Len(Varint(v)))
<1>1. PICK n \in 1 .. Groups :
           /\ v < 2^(Group * n)
           /\ Varint(v) = [k \in 1 .. n |-> ((v \div 2^(Group * (k - 1))) % 2^Group)
                                              + (IF k < n THEN 2^Group ELSE 0)]
  BY VarintBytes
<1>2. Groups \in Nat /\ Group \in Nat \ {0} /\ n \in Nat
  BY <1>1, Widths
<1>3. PICK b \in Nat \ {0} : b = 2^Group
  BY Powers
<1>4. PICK w : w = [j \in 0 .. n |-> 2^(Group * j)]
  OBVIOUS
<1>5. /\ w \in [0 .. n -> Nat \ {0}] /\ Weights(w, n, b) /\ \A j \in 0 .. n : w[j] = 2^(Group * j)
  <2>1. Group * n <= IntBits + ByteBits
    <3>1. Group * n <= Group * Groups
      BY <1>1, <1>2
    <3>2. Group * Groups \in IntBits .. IntBits + ByteBits /\ IntBits \in Nat /\ ByteBits \in Nat
      BY Widths
    <3>3. PICK g \in Int, h \in Nat : g = Group * Groups /\ h = Group * n
      BY <1>2
    <3> QED BY <3>1, <3>2, <3>3
  <2>2. /\ w \in [0 .. n -> Nat \ {0}] /\ Weights(w, n, 2^Group)
        /\ \A j \in 0 .. n : w[j] = 2^(Group * j)
    BY <1>2, <1>4, <2>1, WeightsOf
  <2> QED BY <1>3, <2>2, Zenon
<1>6. PICK t : t = Varint(v)
  OBVIOUS
<1>7. t \in Seq(Nat) /\ Len(t) = n
  <2>1. t \in Seq(Nat) /\ DOMAIN t = 1 .. n
    BY <1>1, <1>6, VarintIsBytes
  <2> QED BY <1>2, <2>1, LenProperties
<1>8. ASSUME NEW k \in 1 .. n
      PROVE  \E d \in Nat : /\ d = (v \div w[k - 1]) % b /\ d < b
                            /\ t[k] = d + (IF k < n THEN b ELSE 0)
  <2>1. PICK p \in Nat \ {0} : p = w[k - 1] /\ p = 2^(Group * (k - 1))
    <3>1. k - 1 \in 0 .. n
      BY <1>2
    <3> QED BY <1>5, <3>1
  <2>2. (v \div p) % b \in Nat /\ (v \div p) % b < b
    <3>1. v \div p \in Nat
      BY <2>1
    <3>2. PICK q \in Nat : q = v \div p
      BY <3>1
    <3>3. q % b \in Nat /\ q % b < b
      BY <1>3, <3>2
    <3> QED BY <3>2, <3>3, Zenon
  <2>3. t[k] = ((v \div 2^(Group * (k - 1))) % 2^Group) + (IF k < n THEN 2^Group ELSE 0)
    BY <1>1, <1>6
  <2> QED BY <1>3, <2>1, <2>2, <2>3, Zenon
<1>9. ASSUME NEW k \in 1 .. n
      PROVE  /\ t[k] % b = (v \div w[k - 1]) % b
             /\ k < n => ~(t[k] < b)
             /\ k = n => t[k] < b
  <2>1. PICK d \in Nat : /\ d = (v \div w[k - 1]) % b /\ d < b
                         /\ t[k] = d + (IF k < n THEN b ELSE 0)
    BY <1>8
  <2>2. d % b = d /\ (d + b) % b = d
    BY <1>3, <2>1, SmallMod
  <2>3. CASE k < n
    <3>1. t[k] = d + b /\ k # n
      BY <1>2, <2>1, <2>3
    <3>2. ~(d + b < b)
      BY <1>3, <2>1
    <3> QED BY <2>1, <2>2, <2>3, <3>1, <3>2, Zenon
  <2>4. CASE ~(k < n)
    <3>1. t[k] = d
      BY <2>1, <2>4
    <3> QED BY <2>1, <2>2, <2>4, <3>1, Zenon
  <2> QED BY <2>3, <2>4
<1>10. Ends(t, n)
  <2>1. t[n] < b
    <3>1. n \in 1 .. n
      BY <1>1, <1>2
    <3> QED BY <1>9, <3>1
  <2>2. ASSUME NEW k \in 1 .. n - 1 PROVE ~(t[k] < b)
    <3>1. k \in 1 .. n /\ k < n
      BY <1>2
    <3> QED BY <1>9, <3>1
  <2> QED BY <1>1, <1>3, <1>7, <2>1, <2>2, Zenon DEF Ends
<1>11. PICK s : s = [k \in 1 .. n |-> (t[k] % 2^Group) * 2^(Group * (k - 1))]
  OBVIOUS
<1>12. ASSUME NEW k \in 1 .. n
       PROVE  s[k] = ((v \div w[k - 1]) % b) * w[k - 1] /\ s[k] \in Nat
  <2>1. k - 1 \in 0 .. n
    BY <1>2
  <2>2. PICK p \in Nat \ {0} : p = w[k - 1] /\ p = 2^(Group * (k - 1))
    BY <1>5, <2>1
  <2>3. s[k] = (t[k] % 2^Group) * 2^(Group * (k - 1))
    BY <1>11
  <2>4. PICK d \in Nat : d = (v \div w[k - 1]) % b
    BY <1>8
  <2>5. s[k] = d * p
    BY <1>3, <1>9, <2>2, <2>3, <2>4, Zenon
  <2>6. d * p \in Nat
    BY <2>2, <2>4
  <2> QED BY <2>2, <2>4, <2>5, <2>6, Zenon
<1>13. s \in [1 .. n -> Nat]
  <2>1. \A k \in 1 .. n : s[k] \in Nat
    BY <1>12
  <2> QED BY <1>11, <2>1
<1>14. Sums(s, n)[n] = v % w[n]
  <2>1. Up(s, v, w, n, b)
    BY <1>12, Zenon DEF Up
  <2>2. n \in Nat /\ b \in Nat \ {0}
    BY <1>2, <1>3
  <2> QED BY <1>5, <1>13, <2>1, <2>2, DigitsUp, Zenon
<1>15. v % w[n] = v
  <2>1. n \in 0 .. n
    BY <1>2
  <2>2. PICK g \in Nat \ {0} : g = w[n] /\ g = 2^(Group * n)
    BY <1>5, <2>1
  <2>3. v < g
    BY <1>1, <2>2, Zenon
  <2>4. v % g = v
    BY <2>2, <2>3, SmallMod
  <2> QED BY <2>2, <2>4, Zenon
<1>16. Unvarint(t) = v % 2^IntBits
  <2>1. Unvarint(t) = Sums(s, n)[n] % 2^IntBits
    BY <1>7, <1>11, Zenon DEF Unvarint
  <2> QED BY <1>14, <1>15, <2>1, Zenon
<1>17. v % 2^IntBits = v
  <2>1. PICK g \in Nat \ {0} : g = 2^IntBits
    BY Powers
  <2>2. v % g = v
    BY <2>1, SmallMod
  <2> QED BY <2>1, <2>2, Zenon
<1> QED BY <1>6, <1>7, <1>10, <1>16, <1>17, Zenon

\* Half of an even and of an odd number.
LEMMA Halves ==
  ASSUME NEW m \in Nat
  PROVE  /\ (2 * m) % 2 = 0 /\ (2 * m) \div 2 = m
         /\ (2 * m + 1) % 2 = 1 /\ (2 * m + 1) \div 2 = m
OBVIOUS

\* What EncodeZigzag gives, DecodeZigzag takes back, the smallest integer included.
LEMMA ZigzagReadsBack ==
  ASSUME NEW u \in 0 .. 2^IntBits - 1, NEW v, v = Signed(u)
  PROVE  Zigzag(v) \in Nat /\ Zigzag(v) < 2^IntBits /\ Unzigzag(Zigzag(v)) = v
<1>1. PICK h \in Nat \ {0} : h = 2^(IntBits - 1)
  BY Powers
<1>2. PICK w \in Nat \ {0} : w = 2^IntBits /\ w = 2 * h
  <2>1. IntBits - 1 \in 0 .. IntBits + ByteBits /\ IntBits - 1 + 1 = IntBits
    BY Widths
  <2>2. 2^(IntBits - 1 + 1) = 2 * 2^(IntBits - 1)
    BY <2>1, PowersDouble
  <2>3. 2^IntBits = 2 * h /\ 2 * h \in Nat \ {0}
    <3>1. 2 * h \in Nat \ {0}
      BY <1>1
    <3> QED BY <1>1, <2>1, <2>2, <3>1, Zenon
  <2> QED BY <2>3, Zenon
<1>3. u \in Nat /\ u < w
  BY <1>2
<1>4. \A i : Signed(i) = IF i < h THEN i ELSE i - w
  BY <1>1, <1>2, Zenon DEF Signed
<1>5. \A i : Zigzag(i) = IF i < 0 THEN (2 * (-i) - 1) % w ELSE (2 * i) % w
  BY <1>2, Zenon DEF Zigzag
<1>6. \A i : Unzigzag(i) = Signed(IF i % 2 = 0 THEN i \div 2 ELSE w - 1 - i \div 2)
  BY <1>2, Zenon DEF Unzigzag
<1>7. CASE u < h
  <2>1. v = u /\ ~(v < 0)
    BY <1>3, <1>4, <1>7
  <2>2. 2 * u \in Nat /\ 2 * u < w
    BY <1>1, <1>2, <1>3, <1>7
  <2>3. (2 * u) % w = 2 * u
    <3>1. PICK k \in Nat : k = 2 * u /\ k < w
      BY <2>2, Zenon
    <3>2. k % w = k
      BY <1>2, <3>1, SmallMod, Zenon
    <3> QED BY <3>1, <3>2, Zenon
  <2>4. Zigzag(v) = 2 * u
    BY <1>5, <2>1, <2>3
  <2>5. Unzigzag(2 * u) = Signed(u)
    BY <1>3, <1>6, Halves
  <2> QED BY <1>2, <2>2, <2>4, <2>5, Zenon
<1>8. CASE ~(u < h)
  <2>1. v = u - w /\ v < 0 /\ v \in Int
    BY <1>2, <1>3, <1>4, <1>8
  <2>2. PICK m \in Nat : m = w - u - 1 /\ 2 * (-v) - 1 = 2 * m + 1 /\ 2 * m + 1 < w
    <3>1. w - u - 1 \in Nat
      BY <1>2, <1>3
    <3>2. PICK m \in Nat : m = w - u - 1
      BY <3>1, Zenon
    <3>3. 2 * (-v) - 1 = 2 * m + 1
      BY <1>2, <1>3, <2>1, <3>2
    <3>4. 2 * m + 1 < w
      BY <1>1, <1>2, <1>3, <1>8, <3>2
    <3> QED BY <3>2, <3>3, <3>4, Zenon
  <2>3. (2 * m + 1) % w = 2 * m + 1
    <3>1. 2 * m + 1 \in Nat
      BY <2>2
    <3>2. PICK k \in Nat : k = 2 * m + 1
      BY <3>1, Zenon
    <3>3. k < w
      BY <2>2, <3>2, Zenon
    <3>4. k % w = k
      BY <1>2, <3>2, <3>3, SmallMod, Zenon
    <3> QED BY <3>2, <3>4, Zenon
  <2>4. Zigzag(v) = 2 * m + 1
    BY <1>5, <2>1, <2>2, <2>3
  <2>5. (2 * m + 1) % 2 # 0 /\ (2 * m + 1) \div 2 = m
    BY <2>2, Halves
  <2>6. w - 1 - m = u
    BY <1>2, <1>3, <2>2
  <2>7. Unzigzag(2 * m + 1) = Signed(u)
    BY <1>6, <2>5, <2>6, Zenon
  <2>8. 2 * m + 1 \in Nat
    BY <2>2
  <2> QED BY <1>2, <2>2, <2>4, <2>7, <2>8, Zenon
<1> QED BY <1>7, <1>8

-----------------------------------------------------------------------------
\* The bytes s lie in the array from place p on.
Holds(x, p, s) ==
  /\ p \in Nat /\ s \in Seq(Nat) /\ p + Len(s) <= x.m_size
  /\ \A i \in 1 .. Len(s) : Flat(x, p + i - 1) = s[i]

LEMMA HoldsParts ==
  ASSUME NEW x, Valid(x), NEW p, NEW s1 \in Seq(Nat), NEW s2 \in Seq(Nat), Holds(x, p, s1 \o s2)
  PROVE  Holds(x, p, s1) /\ Holds(x, p + Len(s1), s2)
<1>1. PICK l1 \in Nat, l2 \in Nat : l1 = Len(s1) /\ l2 = Len(s2)
  BY LenProperties
<1>2. /\ s1 \o s2 \in Seq(Nat) /\ Len(s1 \o s2) = l1 + l2
      /\ \A i \in 1 .. l1 + l2 : (s1 \o s2)[i] = IF i <= l1 THEN s1[i] ELSE s2[i - l1]
  <2>1. /\ s1 \o s2 \in Seq(Nat) /\ Len(s1 \o s2) = Len(s1) + Len(s2)
        /\ \A i \in 1 .. Len(s1) + Len(s2) :
             (s1 \o s2)[i] = IF i <= Len(s1) THEN s1[i] ELSE s2[i - Len(s1)]
    BY ConcatProperties
  <2> QED BY <1>1, <2>1, Zenon
<1>3. /\ p \in Nat /\ p + (l1 + l2) <= x.m_size
      /\ \A i \in 1 .. l1 + l2 : Flat(x, p + i - 1) = (s1 \o s2)[i]
  BY <1>2, Zenon DEF Holds
<1>4. x.m_size \in Nat
  BY ArrayFields
<1>5. ASSUME NEW i \in 1 .. l1 PROVE Flat(x, p + i - 1) = s1[i]
  <2>1. i \in 1 .. l1 + l2 /\ i <= l1
    BY <1>1
  <2> QED BY <1>2, <1>3, <2>1, Zenon
<1>6. ASSUME NEW i \in 1 .. l2 PROVE Flat(x, (p + l1) + i - 1) = s2[i]
  <2>1. PICK j \in 1 .. l1 + l2 : j = l1 + i /\ ~(j <= l1) /\ j - l1 = i
    <3>1. l1 + i \in 1 .. l1 + l2 /\ ~(l1 + i <= l1) /\ (l1 + i) - l1 = i
      BY <1>1
    <3> QED BY <3>1, Zenon
  <2>2. p + j - 1 = (p + l1) + i - 1
    BY <1>1, <1>3, <2>1
  <2>3. (s1 \o s2)[j] = s2[i]
    BY <1>2, <2>1, Zenon
  <2> QED BY <1>3, <2>1, <2>2, <2>3, Zenon
<1>7. p + l1 \in Nat /\ p + l1 <= x.m_size /\ (p + l1) + l2 <= x.m_size
  BY <1>1, <1>3, <1>4
<1> QED BY <1>1, <1>3, <1>5, <1>6, <1>7, Zenon DEF Holds

\* Two arrays with the same bytes.
LEMMA HoldsToo ==
  ASSUME NEW x, NEW y, y.mem = x.mem, y.m_size = x.m_size, NEW p, NEW s, Holds(x, p, s)
  PROVE  Holds(y, p, s)
BY Zenon DEF Holds, Flat

\* read() gives the bytes at the position if it does not run off the list.
LEMMA ReadGives ==
  ASSUME NEW x, Valid(x), NEW s, Holds(x, x.m_position, s)
  PROVE  /\ Ahead(x, Len(s)) = s /\ Len(s) <= getReadSize(x)
         /\ \/ Read(x, Len(s)) = Result(Moved(x, Len(s)), s, FALSE)
            \/ s = <<>> /\ Read(x, Len(s)).a.ok = FALSE
         /\ Valid(Moved(x, Len(s))) /\ SameNodes(x, Moved(x, Len(s)))
         /\ Moved(x, Len(s)).m_position = x.m_position + Len(s)
         /\ Moved(x, Len(s)).m_size = x.m_size
<1>1. /\ x.m_position \in Nat /\ x.m_size \in Nat /\ x.m_capacity \in Nat
      /\ x.m_size <= x.m_capacity
  BY ArrayFields
<1>2. PICK n \in Nat : n = Len(s)
  BY LenProperties DEF Holds
<1>3. /\ s \in Seq(Nat) /\ x.m_position + n <= x.m_size
      /\ \A i \in 1 .. n : Flat(x, x.m_position + i - 1) = s[i]
  BY <1>2, Zenon DEF Holds
<1>4. x.m_position + n <= x.m_capacity
  BY <1>1, <1>2, <1>3
<1>5. PICK t : t = Ahead(x, n)
  OBVIOUS
<1>6. t \in Seq(Nat) /\ Len(t) = n /\ \A k \in 1 .. n : t[k] = Flat(x, x.m_position + k - 1)
  BY <1>2, <1>4, <1>5, AheadIsFlat, Zenon
<1>7. t = s
  <2>1. Len(t) = Len(s) /\ \A i \in 1 .. Len(t) : t[i] = s[i]
    BY <1>2, <1>3, <1>6, Zenon
  <2> QED BY <1>3, <1>6, <2>1, SeqEqual
<1>8. n <= getReadSize(x) /\ ~(n > getReadSize(x))
  BY <1>1, <1>2, <1>3 DEF getReadSize
<1>9. /\ Valid(Moved(x, n)) /\ SameNodes(x, Moved(x, n))
      /\ Moved(x, n).m_position = x.m_position + n /\ Moved(x, n).m_size = x.m_size
  BY <1>2, <1>3, MovedValid, Zenon
<1>10. \/ Read(x, n) = Result(Moved(x, n), s, FALSE)
       \/ s = <<>> /\ Read(x, n).a.ok = FALSE
  <2>1. CASE Reaches(x, x.m_cur, Offset(x), n)
    BY <1>5, <1>7, <1>8, <2>1, Zenon DEF Read
  <2>2. CASE ~Reaches(x, x.m_cur, Offset(x), n)
    <3>1. Read(x, n) = Result(Crashed(x), <<>>, FALSE)
      BY <1>8, <2>2, Zenon DEF Read
    <3>2. Read(x, n).a = Crashed(x)
      BY <3>1 DEF Result
    <3>3. Crashed(x).ok = FALSE
      BY CrashedValid, Zenon
    <3>4. n = 0
      <4>1. ~(x.m_position < x.m_capacity /\ x.m_position + n <= x.m_capacity)
        BY <1>2, <2>2, ReachesIff, Zenon
      <4> QED BY <1>1, <1>2, <1>4, <4>1
    <3>5. s = <<>>
      BY <1>2, <1>3, <3>4, EmptySeq
    <3> QED BY <3>2, <3>3, <3>5, Zenon
  <2> QED BY <2>1, <2>2
<1> QED BY <1>2, <1>5, <1>7, <1>8, <1>9, <1>10, Zenon


\* A fixed-size integer at the position.
LEMMA ReadFixedGives ==
  ASSUME NEW x, Valid(x), NEW v \in Nat, v < 2^IntBits,
         Holds(x, x.m_position, Fixed(v, x.m_endian))
  PROVE  ReadFixed(x) = Result(Moved(x, Len(Fixed(v, x.m_endian))), v, FALSE)
<1>1. PICK s, m : s = Fixed(v, x.m_endian) /\ m = Moved(x, Len(s))
  OBVIOUS
<1>2. Unfixed(s, x.m_endian) = v /\ Len(s) = IntBytes /\ s # <<>>
  <2>1. Unfixed(s, x.m_endian) = v /\ Len(s) = IntBytes
    BY <1>1, FixedReadsBack, Zenon
  <2>2. Len(s) # 0
    BY <2>1, Widths
  <2>3. s # <<>>
    BY <2>2
  <2> QED BY <2>1, <2>3
<1>3. Read(x, IntBytes) = Result(m, s, FALSE)
  <2>1. \/ Read(x, Len(s)) = Result(Moved(x, Len(s)), s, FALSE)
        \/ s = <<>> /\ Read(x, Len(s)).a.ok = FALSE
    BY <1>1, ReadGives, Zenon
  <2> QED BY <1>1, <1>2, <2>1, Zenon
<1>4. PICK r : r = Read(x, IntBytes)
  OBVIOUS
<1>5. /\ r.data = s /\ ~r.thrown /\ Decoded(r, v) = Result(m, v, FALSE)
  <2>1. /\ Result(m, s, FALSE).data = s /\ ~Result(m, s, FALSE).thrown
        /\ Decoded(Result(m, s, FALSE), v) = Result(m, v, FALSE)
    BY DEF Result, Decoded
  <2> QED BY <1>3, <1>4, <2>1, Zenon
<1>6. ReadFixed(x) = Decoded(r, v)
  <2>1. ReadFixed(x) = Decoded(r, Unfixed(r.data, x.m_endian))
    BY <1>4 DEF ReadFixed
  <2> QED BY <1>2, <1>5, <2>1, Zenon
<1> QED BY <1>1, <1>5, <1>6, Zenon

\* The first byte without the top bit.
TopBitUnset(s, most) == {k \in 1 .. most : s[k] < 2^Group}

StartsLike(s, t, n) == \A k \in 1 .. n : s[k] = t[k]

LEMMA EndsAt ==
  ASSUME NEW n \in Nat, NEW t, Ends(t, n), NEW most \in Nat, n <= most, NEW s,
         StartsLike(s, t, n)
  PROVE  TopBitUnset(s, most) # {} /\ Min(TopBitUnset(s, most)) = n
<1> USE DEF StartsLike
<1>0. PICK last : last = {k \in 1 .. most : s[k] < 2^Group} /\ last = TopBitUnset(s, most)
  BY DEF TopBitUnset
<1>1. n \in 1 .. n /\ n \in 1 .. most
  BY DEF Ends
<1>2. n \in last
  BY <1>0, <1>1 DEF Ends
<1>3. ASSUME NEW k \in last PROVE n <= k
  <2>1. k \in 1 .. most /\ s[k] < 2^Group
    BY <1>0
  <2>2. ASSUME ~(n <= k) PROVE FALSE
    <3>1. k \in 1 .. n - 1 /\ k \in 1 .. n
      BY <2>1, <2>2
    <3> QED BY <2>1, <3>1, Zenon DEF Ends
  <2> QED BY <2>2
<1>4. last \in SUBSET Nat
  BY <1>0
<1>5. PICK m : m = Min(last)
  OBVIOUS
<1>6. m \in last /\ \A k \in last : m <= k
  BY <1>2, <1>3, <1>5 DEF Min
<1>7. m \in Nat /\ m <= n /\ n <= m
  BY <1>2, <1>3, <1>4, <1>6
<1> QED BY <1>0, <1>2, <1>5, <1>7

\* A varint at the position.
LEMMA ReadUintGives ==
  ASSUME NEW x, Valid(x), NEW v \in Nat, v < 2^IntBits, Holds(x, x.m_position, Varint(v))
  PROVE  ReadUint(x) = Result(Moved(x, Len(Varint(v))), v, FALSE)
<1>1. PICK t, n : t = Varint(v) /\ n = Len(t)
  OBVIOUS
<1>2. Unvarint(t) = v /\ Ends(t, n)
  BY <1>1, VarintReadsBack, Zenon
<1>3. t \in Seq(Nat) /\ Len(t) = n /\ n \in Nat /\ n <= Groups /\ Groups \in Nat
  BY <1>2, Widths DEF Ends
<1>4. /\ x.m_position \in Nat /\ x.m_size \in Nat /\ x.m_capacity \in Nat
      /\ x.m_position <= x.m_size /\ x.m_size <= x.m_capacity
  BY ArrayFields
<1>5. x.m_position + n <= x.m_size /\ \A i \in 1 .. n : Flat(x, x.m_position + i - 1) = t[i]
  BY <1>1, <1>3, Zenon DEF Holds
<1>6. PICK most : most = IF getReadSize(x) < Groups THEN getReadSize(x) ELSE Groups
  OBVIOUS
<1>7. most \in Nat /\ n <= most /\ x.m_position + most <= x.m_capacity
  <2>1. PICK p \in Nat, z \in Nat, c \in Nat :
          /\ p = x.m_position /\ z = x.m_size /\ c = x.m_capacity
          /\ p <= z /\ z <= c /\ p + n <= z /\ getReadSize(x) = z - p
    BY <1>4, <1>5 DEF getReadSize
  <2>2. most = IF z - p < Groups THEN z - p ELSE Groups
    BY <1>6, <2>1, Zenon
  <2>3. PICK g \in Nat : g = Groups /\ n <= g /\ n \in Nat
    BY <1>3
  <2>4. CASE z - p < g
    <3>1. most = z - p
      BY <2>2, <2>3, <2>4, Zenon
    <3>2. z - p \in Nat /\ n <= z - p /\ p + (z - p) <= c
      BY <2>1, <2>3
    <3> QED BY <2>1, <3>1, <3>2, Zenon
  <2>5. CASE ~(z - p < g)
    <3>1. most = g
      BY <2>2, <2>3, <2>5, Zenon
    <3>2. p + g <= c
      BY <2>1, <2>3, <2>5
    <3> QED BY <2>1, <2>3, <3>1, <3>2, Zenon
  <2> QED BY <2>4, <2>5
<1>8. PICK s : s = Ahead(x, most)
  OBVIOUS
<1>9. s \in Seq(Nat) /\ Len(s) = most /\ \A k \in 1 .. most : s[k] = Flat(x, x.m_position + k - 1)
  BY <1>7, <1>8, AheadIsFlat, Zenon
<1>10. ASSUME NEW k \in 1 .. n PROVE s[k] = t[k]
  <2>1. k \in 1 .. most
    BY <1>3, <1>7
  <2> QED BY <1>5, <1>9, <2>1, Zenon
<1>11. PICK last : last = TopBitUnset(s, most)
  OBVIOUS
<1>12. last # {} /\ Min(last) = n
  <2>1. StartsLike(s, t, n)
    BY <1>10, Zenon DEF StartsLike
  <2>2. TopBitUnset(s, most) # {} /\ Min(TopBitUnset(s, most)) = n
    BY <1>2, <1>3, <1>7, <2>1, EndsAt
  <2> QED BY <1>11, <2>2, Zenon
<1>13. SubSeq(s, 1, n) = t
  <2>1. n \in 0 .. Len(s)
    BY <1>3, <1>7, <1>9
  <2>2. PICK u : u = SubSeq(s, 1, n)
    OBVIOUS
  <2>3. u \in Seq(Nat) /\ Len(u) = n /\ \A i \in 1 .. n : u[i] = s[i]
    BY <1>9, <2>1, <2>2, Prefix, Zenon
  <2>4. Len(u) = Len(t) /\ \A i \in 1 .. Len(u) : u[i] = t[i]
    BY <1>3, <1>10, <2>3, Zenon
  <2> QED BY <1>3, <2>2, <2>3, <2>4, SeqEqual
<1>14. ReadUint(x) = Result(Moved(x, IF last = {} THEN most ELSE Min(last)),
                            Unvarint(SubSeq(s, 1, IF last = {} THEN most ELSE Min(last))),
                            last = {} /\ most < Groups)
  BY <1>6, <1>8, <1>11, Zenon DEF ReadUint, TopBitUnset
<1>15. ReadUint(x) = Result(Moved(x, n), Unvarint(t), FALSE)
  <2>1. (IF last = {} THEN most ELSE Min(last)) = n
    BY <1>12, Zenon
  <2>2. (last = {} /\ most < Groups) = FALSE
    BY <1>12, Zenon
  <2> QED BY <1>13, <1>14, <2>1, <2>2, Zenon
<1> QED BY <1>1, <1>2, <1>15, Zenon

\* The call returned d and left y.
Returned(r, y, d) == r = Result(y, d, FALSE)

LEMMA ReturnedIs ==
  ASSUME NEW r, NEW y, NEW d, Returned(r, y, d), NEW v
  PROVE  r.a = y /\ r.data = d /\ ~r.thrown /\ Returned(Decoded(r, v), y, v)
BY DEF Returned, Result, Decoded

\* What a typed call gives: v, with the position at p, if it returns.
Gives(r, v, p) == r.a.ok => ~r.thrown /\ r.data = v /\ r.a.m_position = p

LEMMA ReturnedGives ==
  ASSUME NEW r, NEW y, NEW v, Returned(r, y, v), NEW p, y.m_position = p
  PROVE  Gives(r, v, p)
<1>1. r.a = y /\ r.data = v /\ ~r.thrown
  BY ReturnedIs
<1> QED BY <1>1, Zenon DEF Gives

\* A string behind its length.
LEMMA TextGives ==
  ASSUME NEW y, Valid(y), NEW t, Holds(y, y.m_position, t), NEW r, Returned(r, y, Len(t))
  PROVE  Gives(Text(r), t, y.m_position + Len(t))
<1>1. PICK n : n = Len(t)
  OBVIOUS
<1>2. r.a = y /\ r.data = n /\ ~r.thrown
  BY <1>1, ReturnedIs, Zenon
<1>3. Text(r) = Read(y, n)
  BY <1>2, Zenon DEF Text
<1>4. /\ \/ Read(y, n) = Result(Moved(y, n), t, FALSE)
         \/ t = <<>> /\ Read(y, n).a.ok = FALSE
      /\ Moved(y, n).m_position = y.m_position + n
  BY <1>1, ReadGives, Zenon
<1>5. CASE Read(y, n) = Result(Moved(y, n), t, FALSE)
  <2>1. Returned(Text(r), Moved(y, n), t)
    BY <1>3, <1>5, Zenon DEF Returned
  <2> QED BY <1>1, <1>4, <2>1, ReturnedGives, Zenon
<1>6. CASE Read(y, n).a.ok = FALSE
  <2>1. ~Text(r).a.ok
    BY <1>3, <1>6, Zenon
  <2> QED BY <2>1, Zenon DEF Gives
<1> QED BY <1>4, <1>5, <1>6, Zenon

\* The length in writeStringF16 ... writeStringVint has IntBits bits; it is cut
\* when the string is longer.
TextsFit == \A s \in Texts : Len(s) < 2^IntBits

LEMMA ItemIs ==
  ASSUME NEW it \in Items
  PROVE  \/ it.kind = "byte" /\ it.value \in Nat
         \/ it.kind \in {"fixed", "uint"} /\ it.value \in Nat /\ it.value < 2^IntBits
         \/ it.kind = "int" /\ \E u \in 0 .. 2^IntBits - 1 : it.value = Signed(u)
         \/ it.kind \in {"stringF", "stringVint"} /\ it.value \in Texts
<1>1. PICK w \in Nat : w = 2^IntBits
  BY Powers
<1>2. \A v \in Values : v \in Nat /\ v < w
  <2>1. \A v \in 0 .. w - 1 : v \in Nat /\ v < w
    BY <1>1
  <2>2. Values \subseteq 0 .. w - 1
    BY <1>1, ByteArrayAssumption, Zenon
  <2> QED BY <2>1, <2>2, Zenon
<1>3. CASE it \in [kind : {"byte"}, value : {v \in Values : v < 2^ByteBits}]
  <2>1. it.kind = "byte" /\ it.value \in Values
    BY <1>3
  <2>2. it.value \in Nat
    BY <1>2, <2>1, Zenon
  <2> QED BY <2>1, <2>2
<1>4. CASE it \in [kind : {"fixed", "uint"}, value : Values]
  <2>1. it.kind \in {"fixed", "uint"} /\ it.value \in Values
    BY <1>4
  <2>2. it.value \in Nat /\ it.value < w
    BY <1>2, <2>1, Zenon
  <2> QED BY <1>1, <2>1, <2>2, Zenon
<1>5. CASE it \in [kind : {"int"}, value : {Signed(v) : v \in Values}]
  <2>1. it.kind = "int" /\ it.value \in {Signed(v) : v \in Values}
    BY <1>5
  <2>2. PICK u \in Values : it.value = Signed(u)
    BY <2>1
  <2>3. u \in 0 .. 2^IntBits - 1
    BY ByteArrayAssumption
  <2> QED BY <2>1, <2>2, <2>3, Zenon
<1>6. CASE it \in [kind : {"stringF", "stringVint"}, value : Texts]
  BY <1>6
<1> QED BY <1>3, <1>4, <1>5, <1>6 DEF Items

\* The bytes of an item in the array.
Bytes(it, endian) == Parts(it, endian)[1] \o Parts(it, endian)[2]

LEMMA OnePart ==
  ASSUME NEW it, NEW endian, NEW s \in Seq(Nat), Parts(it, endian) = <<s, <<>>>>
  PROVE  Bytes(it, endian) = s
<1>1. Bytes(it, endian) = s \o <<>>
  BY DEF Bytes
<1>2. s \o <<>> = s
  BY ConcatEmptySeq
<1> QED BY <1>1, <1>2, Zenon

\* A value in one part.
LEMMA OneReturned ==
  ASSUME NEW x, Valid(x), NEW s, Holds(x, x.m_position, s), NEW r, NEW v,
         Returned(r, Moved(x, Len(s)), v)
  PROVE  Gives(r, v, x.m_position + Len(s))
<1>1. Moved(x, Len(s)).m_position = x.m_position + Len(s)
  BY ReadGives, Zenon
<1> QED BY <1>1, ReturnedGives, Zenon

\* A length and a string.
LEMMA TwoReturned ==
  ASSUME NEW x, Valid(x), NEW s \in Seq(Nat), NEW t \in Seq(Nat), Holds(x, x.m_position, s \o t),
         NEW r, Returned(r, Moved(x, Len(s)), Len(t))
  PROVE  Gives(Text(r), t, x.m_position + Len(s \o t))
<1>1. Holds(x, x.m_position, s) /\ Holds(x, x.m_position + Len(s), t)
  BY HoldsParts
<1>2. PICK y : y = Moved(x, Len(s))
  OBVIOUS
<1>3. Valid(y) /\ SameNodes(x, y) /\ y.m_position = x.m_position + Len(s) /\ y.m_size = x.m_size
  BY <1>1, <1>2, ReadGives, Zenon
<1>4. Holds(y, y.m_position, t)
  <2>1. y.mem = x.mem
    BY <1>3, Zenon DEF SameNodes
  <2>2. Holds(y, x.m_position + Len(s), t)
    BY <1>1, <1>3, <2>1, HoldsToo, Zenon
  <2> QED BY <1>3, <2>2, Zenon
<1>5. Gives(Text(r), t, y.m_position + Len(t))
  BY <1>2, <1>3, <1>4, TextGives, Zenon
<1>6. y.m_position + Len(t) = x.m_position + Len(s \o t)
  <2>1. PICK p \in Nat, l \in Nat, m \in Nat : p = x.m_position /\ l = Len(s) /\ m = Len(t)
    BY ArrayFields, LenProperties
  <2>2. Len(s \o t) = l + m
    BY <2>1, ConcatProperties, Zenon
  <2>3. \A i, j, k \in Nat : (i + j) + k = i + (j + k)
    OBVIOUS
  <2>4. (p + l) + m = p + (l + m)
    BY <2>3, Zenon
  <2>5. y.m_position = p + l
    BY <1>3, <2>1, Zenon
  <2> QED BY <2>1, <2>2, <2>4, <2>5, Zenon
<1> QED BY <1>5, <1>6, Zenon

\* Every typed reading call, at the place where its item was written.
LEMMA ItemGives ==
  ASSUME TextsFit, NEW it \in Items, NEW x, Valid(x),
         Holds(x, x.m_position, Bytes(it, x.m_endian))
  PROVE  Gives(ReadItem(x, it.kind), it.value, x.m_position + Len(Bytes(it, x.m_endian)))
<1>1. PICK e, v, b : e = x.m_endian /\ v = it.value /\ b = Bytes(it, e)
  OBVIOUS
<1>2. CASE it.kind = "byte" /\ v \in Nat
  <2>1. Parts(it, e) = <<<<v>>, <<>>>>
    BY <1>1, <1>2 DEF Parts
  <2>2. PICK s \in Seq(Nat) : s = <<v>> /\ Len(s) = 1 /\ s # <<>> /\ s[1] = v
    <3>1. v \in Nat
      BY <1>2
    <3>2. <<v>> \in Seq(Nat) /\ Len(<<v>>) = 1 /\ <<v>> # <<>> /\ <<v>>[1] = v
      BY <3>1
    <3> QED BY <3>2, Zenon
  <2>3. b = s
    BY <1>1, <2>1, <2>2, OnePart, Zenon
  <2>4. Holds(x, x.m_position, s)
    BY <1>1, <2>3, Zenon
  <2>5. PICK r : r = Read(x, 1)
    OBVIOUS
  <2>6. Returned(r, Moved(x, 1), s)
    <3>1. \/ Read(x, Len(s)) = Result(Moved(x, Len(s)), s, FALSE)
          \/ s = <<>> /\ Read(x, Len(s)).a.ok = FALSE
      BY <2>4, ReadGives, Zenon
    <3> QED BY <2>2, <2>5, <3>1, Zenon DEF Returned
  <2>7. ReadItem(x, it.kind) = Decoded(r, r.data[1])
    BY <1>2, <2>5 DEF ReadItem
  <2>8. Returned(ReadItem(x, it.kind), Moved(x, Len(s)), v)
    <3>1. r.data = s
      BY <2>6, ReturnedIs, Zenon
    <3>2. Returned(Decoded(r, v), Moved(x, 1), v)
      BY <2>6, ReturnedIs, Zenon
    <3>3. ReadItem(x, it.kind) = Decoded(r, v)
      BY <2>2, <2>7, <3>1, Zenon
    <3> QED BY <2>2, <3>2, <3>3, Zenon
  <2> QED BY <1>1, <2>3, <2>4, <2>8, OneReturned, Zenon
<1>3. CASE it.kind = "fixed" /\ v \in Nat /\ v < 2^IntBits
  <2>1. Parts(it, e) = <<Fixed(v, e), <<>>>>
    BY <1>1, <1>3 DEF Parts
  <2>2. b = Fixed(v, e)
    BY <1>1, <1>3, <2>1, FixedIsBytes, OnePart, Zenon
  <2>3. Holds(x, x.m_position, Fixed(v, e))
    BY <1>1, <2>2, Zenon
  <2>4. ReadItem(x, it.kind) = ReadFixed(x)
    BY <1>3 DEF ReadItem
  <2>5. Returned(ReadItem(x, it.kind), Moved(x, Len(Fixed(v, e))), v)
    BY <1>1, <1>3, <2>3, <2>4, ReadFixedGives, Zenon DEF Returned
  <2> QED BY <1>1, <2>2, <2>3, <2>5, OneReturned, Zenon
<1>4. CASE it.kind = "uint" /\ v \in Nat /\ v < 2^IntBits
  <2>1. Parts(it, e) = <<Varint(v), <<>>>>
    BY <1>1, <1>4 DEF Parts
  <2>2. b = Varint(v)
    BY <1>1, <1>4, <2>1, VarintIsBytes, OnePart, Zenon
  <2>3. Holds(x, x.m_position, Varint(v))
    BY <1>1, <2>2, Zenon
  <2>4. ReadItem(x, it.kind) = ReadUint(x)
    BY <1>4 DEF ReadItem
  <2>5. Returned(ReadItem(x, it.kind), Moved(x, Len(Varint(v))), v)
    BY <1>1, <1>4, <2>3, <2>4, ReadUintGives, Zenon DEF Returned
  <2> QED BY <1>1, <2>2, <2>3, <2>5, OneReturned, Zenon
<1>5. CASE it.kind = "int" /\ \E u \in 0 .. 2^IntBits - 1 : v = Signed(u)
  <2>1. PICK z : z = Zigzag(v)
    OBVIOUS
  <2>2. z \in Nat /\ z < 2^IntBits /\ Unzigzag(z) = v
    BY <1>5, <2>1, ZigzagReadsBack, Zenon
  <2>3. Parts(it, e) = <<Varint(z), <<>>>>
    BY <1>1, <1>5, <2>1 DEF Parts
  <2>4. b = Varint(z)
    BY <1>1, <2>2, <2>3, VarintIsBytes, OnePart, Zenon
  <2>5. Holds(x, x.m_position, Varint(z))
    BY <1>1, <2>4, Zenon
  <2>6. PICK r : r = ReadUint(x)
    OBVIOUS
  <2>7. Returned(r, Moved(x, Len(Varint(z))), z)
    BY <2>2, <2>5, <2>6, ReadUintGives, Zenon DEF Returned
  <2>8. ReadItem(x, it.kind) = Decoded(r, Unzigzag(r.data))
    BY <1>5, <2>6 DEF ReadItem
  <2>9. Returned(ReadItem(x, it.kind), Moved(x, Len(Varint(z))), v)
    <3>1. r.data = z
      BY <2>7, ReturnedIs, Zenon
    <3>2. Returned(Decoded(r, v), Moved(x, Len(Varint(z))), v)
      BY <2>7, ReturnedIs, Zenon
    <3>3. ReadItem(x, it.kind) = Decoded(r, v)
      BY <2>2, <2>8, <3>1, Zenon
    <3> QED BY <3>2, <3>3, Zenon
  <2> QED BY <1>1, <2>4, <2>5, <2>9, OneReturned, Zenon
<1>6. ASSUME it.kind \in {"stringF", "stringVint"}, v \in Texts
      PROVE  v \in Seq(Nat) /\ Len(v) \in Nat /\ Len(v) < 2^IntBits
  <2>1. v \in Seq(Nat)
    BY <1>6, ByteArrayAssumption
  <2>2. Len(v) \in Nat
    BY <2>1, LenProperties
  <2> QED BY <1>6, <2>1, <2>2 DEF TextsFit
<1>7. CASE it.kind = "stringF" /\ v \in Texts
  <2>1. PICK n : n = Len(v) /\ n \in Nat /\ n < 2^IntBits /\ v \in Seq(Nat)
    BY <1>6, <1>7
  <2>2. PICK s : s = Fixed(n, e)
    OBVIOUS
  <2>3. b = s \o v
    BY <1>1, <1>7, <2>1, <2>2 DEF Parts, Bytes
  <2>4. s \in Seq(Nat)
    BY <2>1, <2>2, FixedIsBytes
  <2>5. Holds(x, x.m_position, s \o v)
    BY <1>1, <2>3, Zenon
  <2>6. Holds(x, x.m_position, s)
    BY <2>1, <2>4, <2>5, HoldsParts
  <2>7. Returned(ReadFixed(x), Moved(x, Len(s)), n)
    BY <1>1, <2>1, <2>2, <2>6, ReadFixedGives, Zenon DEF Returned
  <2>8. ReadItem(x, it.kind) = Text(ReadFixed(x))
    BY <1>7 DEF ReadItem
  <2>9. Gives(Text(ReadFixed(x)), v, x.m_position + Len(s \o v))
    BY <2>1, <2>4, <2>5, <2>7, TwoReturned, Zenon
  <2> QED BY <1>1, <2>3, <2>8, <2>9, Zenon
<1>8. CASE it.kind = "stringVint" /\ v \in Texts
  <2>1. PICK n : n = Len(v) /\ n \in Nat /\ n < 2^IntBits /\ v \in Seq(Nat)
    BY <1>6, <1>8
  <2>2. PICK s : s = Varint(n)
    OBVIOUS
  <2>3. b = s \o v
    BY <1>1, <1>8, <2>1, <2>2 DEF Parts, Bytes
  <2>4. s \in Seq(Nat)
    BY <2>1, <2>2, VarintIsBytes
  <2>5. Holds(x, x.m_position, s \o v)
    BY <1>1, <2>3, Zenon
  <2>6. Holds(x, x.m_position, s)
    BY <2>1, <2>4, <2>5, HoldsParts
  <2>7. Returned(ReadUint(x), Moved(x, Len(s)), n)
    BY <2>1, <2>2, <2>6, ReadUintGives, Zenon DEF Returned
  <2>8. ReadItem(x, it.kind) = Text(ReadUint(x))
    BY <1>8 DEF ReadItem
  <2>9. Gives(Text(ReadUint(x)), v, x.m_position + Len(s \o v))
    BY <2>1, <2>4, <2>5, <2>7, TwoReturned, Zenon
  <2> QED BY <1>1, <2>3, <2>8, <2>9, Zenon
<1> QED
  <2>1. \/ it.kind = "byte" /\ v \in Nat
        \/ it.kind \in {"fixed", "uint"} /\ v \in Nat /\ v < 2^IntBits
        \/ it.kind = "int" /\ \E u \in 0 .. 2^IntBits - 1 : v = Signed(u)
        \/ it.kind \in {"stringF", "stringVint"} /\ v \in Texts
    BY <1>1, ItemIs, Zenon
  <2> QED BY <1>2, <1>3, <1>4, <1>5, <1>7, <1>8, <2>1, Zenon

\* y has the bytes of x, perhaps more.
Keeps(x, y) == y.mem = x.mem /\ x.m_size <= y.m_size

LEMMA TookKeeps ==
  ASSUME NEW x, Valid(x), NEW y, Took(x, y)
  PROVE  Keeps(x, y)
<1>1. x.m_size \in Nat
  BY ArrayFields
<1> QED BY <1>1 DEF Took, SameNodes, Keeps

-----------------------------------------------------------------------------
\* The inductive invariant: the array has the shape of CurFollowsPosition with
\* bytes in all its nodes, and the file holds bytes.
Inv == Valid(a) /\ file \in Seq(Nat)

LEMMA ContentIsOf == Content = ContentOf(a) /\ Content' = ContentOf(a')
BY DEF Content, ContentOf, Flat

LEMMA InvInit == Init => Inv
<1>1. SUFFICES ASSUME Init PROVE Inv
  OBVIOUS
<1>2. PICK fill \in Fills : a = New(fill)
  BY <1>1 DEF Init
<1>3. fill \in Nat
  BY ByteArrayAssumption
<1>4. Valid(New(fill))
  BY <1>3, NewValid, Zenon
<1>5. file \in Seq(Nat)
  BY <1>1 DEF Init
<1> QED BY <1>2, <1>4, <1>5 DEF Inv

\* Every writing call is a write of the flat buffer, of the bytes that went in.
LEMMA WriteStep ==
  ASSUME Inv, NEW s \in Seq(Nat), Wrote(a, a', s), Did("write", s), UNCHANGED file
  PROVE  Inv' /\ Buffer!Write /\ io'.op # "dump"
<1>1. Valid(a) /\ Valid(a') /\ file' \in Seq(Nat)
  BY DEF Inv, Wrote
<1>2. io'.op = "write" /\ io'.data = Passed(a, a', s)
  BY DEF Did, Passed
<1>3. /\ a'.m_position = a.m_position + Len(io'.data)
      /\ ContentOf(a') = Buffer!Overwritten(ContentOf(a), a.m_position, io'.data)
  BY <1>1, <1>2, WroteIsOverwritten
<1>4. Buffer!Write
  BY <1>2, <1>3, ContentIsOf, Zenon DEF Buffer!Write
<1> QED BY <1>1, <1>2, <1>4 DEF Inv

\* Every reading call is a read of the flat buffer, or it throws.
LEMMA ReadStep ==
  ASSUME Inv, Took(a, a'), NEW m \in Nat, a.m_position + m <= a.m_size,
         a'.m_position <= a.m_position + m, NEW op \in {"read", "throw"},
         Did(op, Ahead(a, m)), UNCHANGED file
  PROVE  Inv' /\ (Buffer!Read \/ Buffer!Throw) /\ io'.op # "dump"
<1>1. Valid(a) /\ Valid(a') /\ file' \in Seq(Nat) /\ a.m_position <= a'.m_position
  BY DEF Inv, Took
<1>2. io'.op = op /\ io'.data = Passed(a, a', Ahead(a, m))
  BY DEF Did, Passed
<1>3. /\ ContentOf(a') = ContentOf(a) /\ a'.m_position = a.m_position + Len(io'.data)
      /\ a'.m_position <= Len(ContentOf(a))
      /\ io'.data = SubSeq(ContentOf(a), a.m_position + 1, a'.m_position)
  BY <1>1, <1>2, TookIsRead
<1>4. ASSUME op = "read" PROVE Buffer!Read
  <2>1. io'.op = "read"
    BY <1>2, <1>4
  <2> QED BY <1>3, <2>1, ContentIsOf, Zenon DEF Buffer!Read
<1>5. ASSUME op = "throw" PROVE Buffer!Throw
  <2>1. io'.op = "throw"
    BY <1>2, <1>5
  <2>2. a'.m_position \in a.m_position .. Len(ContentOf(a))
    <3>1. a.m_position \in Nat /\ a'.m_position \in Nat /\ ContentOf(a) \in Seq(Nat)
      BY <1>1, ArrayFields, ContentIs
    <3>2. PICK p \in Nat, q \in Nat, l \in Nat :
            p = a.m_position /\ q = a'.m_position /\ l = Len(ContentOf(a))
      <4>1. Len(ContentOf(a)) \in Nat
        BY <3>1, LenProperties
      <4> QED BY <3>1, <4>1
    <3>3. p <= q /\ q <= l
      BY <1>1, <1>3, <3>2
    <3>4. q \in p .. l
      BY <3>2, <3>3
    <3> QED BY <3>2, <3>4
  <2> QED BY <1>3, <2>1, <2>2, ContentIsOf, Zenon DEF Buffer!Throw
<1> QED BY <1>1, <1>2, <1>4, <1>5 DEF Inv

\* A call that leaves the bytes and the position as they are.
LEMMA UnmovedValid ==
  ASSUME Inv, a' = a \/ a' = Crashed(a), UNCHANGED file
  PROVE  /\ Inv' /\ ContentOf(a') = ContentOf(a) /\ a'.m_position = a.m_position
         /\ Keeps(a, a')
<1>1. Valid(a) /\ file' \in Seq(Nat)
  BY DEF Inv
<1>2. Keeps(a, a')
  <2>1. Took(a, a')
    BY <1>1, TookNothing, Zenon
  <2> QED BY <1>1, <2>1, TookKeeps
<1>3. CASE a' = a
  BY <1>1, <1>3, <1>2, Zenon DEF Inv
<1>4. CASE a' = Crashed(a)
  <2>1. /\ Valid(Crashed(a)) /\ Crashed(a).mem = a.mem
        /\ Crashed(a).m_position = a.m_position /\ Crashed(a).m_size = a.m_size
    BY <1>1, CrashedValid, Zenon DEF SameNodes
  <2>2. ContentOf(Crashed(a)) = ContentOf(a)
    BY <2>1, Zenon DEF ContentOf, Flat
  <2>3. Inv'
    BY <1>1, <1>4, <2>1, Zenon DEF Inv
  <2> QED BY <1>4, <1>2, <2>1, <2>2, <2>3, Zenon
<1> QED BY <1>3, <1>4

LEMMA WriteItemStep ==
  ASSUME Inv, NEW it \in Items, NEW fill \in Fills, WriteItem(it, fill)
  PROVE  /\ Inv' /\ Buffer!Write /\ io'.op # "dump"
         /\ Wrote(a, a', Bytes(it, a.m_endian))
<1>1. Valid(a) /\ fill \in Nat
  BY ByteArrayAssumption DEF Inv
<1>2. PICK s1, s2 : s1 = Parts(it, a.m_endian)[1] /\ s2 = Parts(it, a.m_endian)[2]
  OBVIOUS
<1>3. s1 \in Seq(Nat) /\ s2 \in Seq(Nat)
  BY <1>2, PartsAreBytes
<1>4. PICK w1, w2 : w1 = Write(a, s1, fill) /\ w2 = Write(w1, s2, fill)
  OBVIOUS
<1>5. a' = w2 /\ Did("write", s1 \o s2) /\ UNCHANGED file
  BY <1>2, <1>4, Zenon DEF WriteItem
<1>6. Wrote(a, w1, s1)
  BY <1>1, <1>3, <1>4, WriteWrote, Zenon
<1>7. Wrote(w1, w2, s2)
  <2>1. Valid(w1)
    BY <1>6 DEF Wrote
  <2> QED BY <1>1, <1>3, <1>4, <2>1, WriteWrote, Zenon
<1>8. ~w1.ok => w2 = w1
  BY <1>4 DEF Write
<1>9. Wrote(a, w2, s1 \o s2)
  BY <1>1, <1>3, <1>6, <1>7, <1>8, WroteTwice
<1>10. s1 \o s2 \in Seq(Nat)
  BY <1>3
<1>11. Wrote(a, a', s1 \o s2)
  BY <1>5, <1>9, Zenon
<1>12. Wrote(a, a', Bytes(it, a.m_endian))
  BY <1>2, <1>11, Zenon DEF Bytes
<1> QED BY <1>5, <1>10, <1>11, <1>12, WriteStep

LEMMA WriteBytesStep ==
  ASSUME Inv, NEW buf \in Texts, NEW fill \in Fills, WriteBytes(buf, fill)
  PROVE  Inv' /\ Buffer!Write /\ io'.op # "dump" /\ Wrote(a, a', buf)
<1>1. Valid(a) /\ fill \in Nat /\ buf \in Seq(Nat)
  BY ByteArrayAssumption DEF Inv
<1>2. a' = Write(a, buf, fill) /\ Did("write", buf) /\ UNCHANGED file
  BY DEF WriteBytes
<1>3. Wrote(a, a', buf)
  BY <1>1, <1>2, WriteWrote, Zenon
<1> QED BY <1>1, <1>2, <1>3, WriteStep

LEMMA ReadFromFileStep ==
  ASSUME Inv, NEW fill \in Fills, ReadFromFile(fill)
  PROVE  Inv' /\ Buffer!Write /\ io'.op # "dump" /\ Wrote(a, a', file)
<1>1. Valid(a) /\ fill \in Nat /\ file \in Seq(Nat)
  BY ByteArrayAssumption DEF Inv
<1>2. a' = Loaded(a, file, fill) /\ Did("write", file) /\ UNCHANGED file
  BY DEF ReadFromFile
<1>3. Wrote(a, a', file)
  BY <1>1, <1>2, LoadedWrote, Zenon
<1> QED BY <1>1, <1>2, <1>3, WriteStep

LEMMA ReceiveStep ==
  ASSUME Inv, NEW fill \in Fills, NEW length \in 1 .. BaseSize + 1, NEW bytes \in Texts,
         Receive(length, bytes, fill)
  PROVE  Inv' /\ Buffer!Write /\ io'.op # "dump" /\ Wrote(a, a', bytes)
<1>1. Valid(a) /\ fill \in Nat /\ bytes \in Seq(Nat) /\ length \in Nat
  BY ByteArrayAssumption DEF Inv
<1>2. PICK y : y = addCapacity(a, length, fill)
  OBVIOUS
<1>3. Extended(a, y)
  BY <1>1, <1>2, CapacityAdded
<1>4. /\ Valid(y) /\ y.m_position = a.m_position /\ y.m_size = a.m_size /\ y.m_endian = a.m_endian
      /\ y.ok = a.ok /\ \A i \in Nat : i < a.m_capacity => Flat(y, i) = Flat(a, i)
  BY <1>3, Zenon DEF Extended
<1>5. /\ Len(bytes) <= length /\ Did("write", bytes) /\ UNCHANGED file
      /\ IF Reaches(y, y.m_cur, Offset(y), length)
         THEN IF bytes = <<>> THEN a' = y
              ELSE a' = setPosition(Stored(y, bytes), y.m_position + Len(bytes))
         ELSE a' = Crashed(a)
  BY <1>2, Zenon DEF Receive
<1>6. /\ a.m_size \in Nat /\ a.m_capacity \in Nat /\ a.m_size <= a.m_capacity
      /\ y.m_position \in Nat /\ y.m_capacity \in Nat
  BY <1>1, <1>4, ArrayFields
<1>7. CASE Reaches(y, y.m_cur, Offset(y), length) /\ bytes = <<>>
  <2>1. a' = y
    BY <1>5, <1>7
  <2>2. \A i \in Nat : i < a.m_size => Flat(y, i) = Flat(a, i)
    <3>1. \A i \in Nat : i < a.m_size => i < a.m_capacity
      BY <1>6
    <3> QED BY <1>4, <3>1, Zenon
  <2>3. y.ok => a.ok /\ bytes = <<>>
    BY <1>4, <1>7, Zenon
  <2>4. Wrote(a, y, bytes)
    BY <1>1, <1>4, <2>2, <2>3, NothingWrote, Zenon
  <2>5. Wrote(a, a', bytes)
    BY <2>1, <2>4, Zenon
  <2> QED BY <1>1, <1>5, <2>5, WriteStep
<1>8. CASE Reaches(y, y.m_cur, Offset(y), length) /\ bytes # <<>>
  <2>1. PICK z : z = Stored(y, bytes)
    OBVIOUS
  <2>2. PICK p \in Nat : p = y.m_position + Len(bytes)
    BY <1>1, <1>6
  <2>3. PICK w : w = setPosition(z, p)
    OBVIOUS
  <2>4. a' = w
    BY <1>5, <1>8, <2>1, <2>2, <2>3, Zenon
  <2>5. y.m_position < y.m_capacity /\ p <= y.m_capacity
    <3>1. y.m_position < y.m_capacity /\ y.m_position + length <= y.m_capacity
      BY <1>1, <1>4, <1>8, ReachesIff, Zenon
    <3>2. Len(bytes) \in Nat
      BY <1>1
    <3> QED BY <1>1, <1>5, <1>6, <2>2, <3>1, <3>2
  <2>6. /\ Valid(z) /\ z.m_size = y.m_size /\ z.ok = y.ok /\ z.m_capacity = y.m_capacity
        /\ z.m_endian = y.m_endian
    <3>1. Valid(y) /\ bytes \in Seq(Nat) /\ y.m_position < y.m_capacity
      BY <1>1, <1>4, <2>5
    <3> QED BY <2>1, <3>1, StoredValid
  <2>7. p <= z.m_capacity
    BY <2>5, <2>6, Zenon
  <2>8. /\ Valid(w) /\ w.mem = z.mem /\ w.m_endian = z.m_endian /\ w.m_position = p
        /\ w.m_size = Larger(p, z.m_size) /\ w.ok = z.ok
    <3>1. Valid(z) /\ p \in Nat
      BY <2>2, <2>6
    <3>2. /\ Valid(w) /\ SameNodes(z, w) /\ w.m_position = p /\ w.ok = z.ok
          /\ w.m_size = Larger(p, z.m_size)
      BY <2>3, <2>7, <3>1, SetPositionValid
    <3> QED BY <3>2, Zenon DEF SameNodes
  <2>9. /\ w.mem = Stored(y, bytes).mem /\ w.m_position = y.m_position + Len(bytes)
        /\ w.m_size = Larger(w.m_position, y.m_size) /\ w.ok = y.ok /\ w.m_endian = y.m_endian
        /\ y.m_position + Len(bytes) <= y.m_capacity
    BY <2>1, <2>2, <2>5, <2>6, <2>8, Zenon
  <2>10. Wrote(a, w, bytes)
    BY <1>1, <1>3, <1>8, <2>8, <2>9, BufferWrote
  <2>11. Wrote(a, a', bytes)
    BY <2>4, <2>10, Zenon
  <2> QED BY <1>1, <1>5, <2>11, WriteStep
<1>9. CASE ~Reaches(y, y.m_cur, Offset(y), length)
  <2>1. a' = Crashed(a)
    BY <1>5, <1>9
  <2>2. /\ Valid(Crashed(a)) /\ Crashed(a).mem = a.mem /\ Crashed(a).m_endian = a.m_endian
        /\ Crashed(a).ok = FALSE
        /\ Crashed(a).m_position = a.m_position /\ Crashed(a).m_size = a.m_size
    BY <1>1, CrashedValid, Zenon DEF SameNodes
  <2>3. \A i \in Nat : i < a.m_size => Flat(Crashed(a), i) = Flat(a, i)
    BY <2>2, Zenon DEF Flat
  <2>4. Wrote(a, Crashed(a), bytes)
    BY <1>1, <2>2, <2>3, NothingWrote, Zenon
  <2>5. Wrote(a, a', bytes)
    BY <2>1, <2>4, Zenon
  <2> QED BY <1>1, <1>5, <2>5, WriteStep
<1> QED BY <1>7, <1>8, <1>9

LEMMA ReadAnyStep ==
  ASSUME Inv, NEW kind \in Kinds, ReadAny(kind)
  PROVE  Inv' /\ (Buffer!Read \/ Buffer!Throw) /\ io'.op # "dump" /\ Keeps(a, a')
<1>1. Valid(a)
  BY DEF Inv
<1>2. PICK r : r = ReadItem(a, kind)
  OBVIOUS
<1>3. PICK m : m = getReadSize(a)
  OBVIOUS
<1>4. PICK op : op = IF r.thrown THEN "throw" ELSE "read"
  OBVIOUS
<1>5. a' = r.a /\ Did(op, Ahead(a, m)) /\ UNCHANGED file
  BY <1>2, <1>3, <1>4, Zenon DEF ReadAny
<1>6. Took(a, a')
  BY <1>1, <1>2, <1>5, ReadItemTook, Zenon
<1>7. /\ a.m_position \in Nat /\ a.m_size \in Nat /\ a.m_position <= a.m_size
      /\ a'.m_position \in Nat /\ a'.m_position <= a.m_size
  <2>1. Valid(a') /\ a'.m_size = a.m_size
    BY <1>6 DEF Took
  <2> QED BY <1>1, <2>1, ArrayFields
<1>8. m \in Nat /\ a.m_position + m <= a.m_size /\ a'.m_position <= a.m_position + m
  BY <1>3, <1>7 DEF getReadSize
<1>9. op \in {"read", "throw"}
  BY <1>4
<1> QED BY <1>1, <1>5, <1>6, <1>8, <1>9, ReadStep, TookKeeps

LEMMA SendStep ==
  ASSUME Inv, NEW length \in Nat, NEW n \in Nat, Send(length, n)
  PROVE  Inv' /\ (Buffer!Read \/ Buffer!Throw) /\ io'.op # "dump" /\ Keeps(a, a')
<1>1. Valid(a)
  BY DEF Inv
<1>2. PICK m : m = IF length < getReadSize(a) THEN length ELSE getReadSize(a)
  OBVIOUS
<1>3. /\ n <= m /\ Did("read", Ahead(a, m)) /\ UNCHANGED file
      /\ a' = IF m > 0 /\ ~Reaches(a, a.m_cur, Offset(a), m) THEN Crashed(a)
              ELSE IF n > 0 THEN setPosition(a, a.m_position + n) ELSE a
  BY <1>2, Zenon DEF Send
<1>4. /\ a.m_position \in Nat /\ a.m_size \in Nat /\ a.m_position <= a.m_size
      /\ a.m_size <= a.m_capacity /\ a.m_capacity \in Nat
  BY <1>1, ArrayFields
<1>5. m \in Nat /\ a.m_position + m <= a.m_size
  BY <1>2, <1>4 DEF getReadSize
<1>6. Took(a, a') /\ a'.m_position <= a.m_position + m
  <2>1. CASE a' = a
    <3>1. Took(a, a')
      BY <1>1, <2>1, TookNothing, Zenon
    <3> QED BY <1>4, <1>5, <2>1, <3>1
  <2>2. CASE a' = Crashed(a)
    <3>1. Took(a, a')
      BY <1>1, <2>2, TookNothing, Zenon
    <3>2. a'.m_position = a.m_position
      BY <1>1, <2>2, CrashedValid, Zenon
    <3> QED BY <1>4, <1>5, <3>1, <3>2
  <2>3. CASE a' = setPosition(a, a.m_position + n)
    <3>1. PICK p \in Nat : p = a.m_position + n /\ p <= a.m_position + m /\ p <= a.m_size
                           /\ p <= a.m_capacity /\ a.m_position <= p
      BY <1>3, <1>4, <1>5
    <3>2. PICK y : y = setPosition(a, p)
      OBVIOUS
    <3>3. Valid(y) /\ SameNodes(a, y) /\ y.m_position = p /\ y.m_size = Larger(p, a.m_size)
      BY <1>1, <3>1, <3>2, SetPositionValid
    <3>4. y.m_size = a.m_size
      BY <1>4, <3>1, <3>3 DEF Larger
    <3>5. Took(a, y)
      BY <3>1, <3>3, <3>4 DEF Took
    <3>6. a' = y
      BY <2>3, <3>1, <3>2, Zenon
    <3> QED BY <3>1, <3>3, <3>5, <3>6
  <2> QED BY <1>3, <2>1, <2>2, <2>3
<1> QED BY <1>1, <1>3, <1>5, <1>6, ReadStep, TookKeeps

LEMMA PeekStep ==
  ASSUME Inv, NEW n \in Nat, Peek(n)
  PROVE  Inv' /\ Buffer!Peek /\ io'.op # "dump" /\ Keeps(a, a')
<1>1. Valid(a)
  BY DEF Inv
<1>2. /\ n <= getReadSize(a) /\ (a' = a \/ a' = Crashed(a))
      /\ io' = [op |-> "peek", data |-> Ahead(a, n)] /\ UNCHANGED file
  BY DEF Peek, Said
<1>3. /\ Inv' /\ ContentOf(a') = ContentOf(a) /\ a'.m_position = a.m_position
      /\ Keeps(a, a')
  BY <1>2, UnmovedValid
<1>4. io'.op = "peek" /\ io'.data = Ahead(a, n)
  BY <1>2
<1>7. Len(io'.data) <= Len(RestOf(a)) /\ io'.data = SubSeq(RestOf(a), 1, Len(io'.data))
  <2>1. /\ Len(Ahead(a, n)) <= Len(RestOf(a))
        /\ Ahead(a, n) = SubSeq(RestOf(a), 1, Len(Ahead(a, n)))
    BY <1>1, <1>2, AheadIsPeek
  <2> QED BY <1>4, <2>1, Zenon
<1>8. Buffer!Rest = RestOf(a)
  BY ContentIsOf, Zenon DEF Buffer!Rest, RestOf
<1>9. Buffer!Peek
  BY <1>3, <1>4, <1>7, <1>8, ContentIsOf, Zenon DEF Buffer!Peek
<1> QED BY <1>3, <1>4, <1>9

LEMMA SetPositionStep ==
  ASSUME Inv, NEW v \in Nat, SetPosition(v)
  PROVE  Inv' /\ (Buffer!Seek \/ Buffer!Throw) /\ io'.op # "dump" /\ Keeps(a, a')
<1>1. Valid(a) /\ UNCHANGED file /\ file' \in Seq(Nat) /\ a.m_capacity \in Nat
  BY ArrayFields DEF Inv, SetPosition
<1>2. CASE v > a.m_capacity
  <2>1. a' = a /\ io' = [op |-> "throw", data |-> <<>>]
    BY <1>2 DEF SetPosition, Said
  <2>2. /\ Inv' /\ ContentOf(a') = ContentOf(a) /\ a'.m_position = a.m_position
        /\ Keeps(a, a')
    BY <1>1, <2>1, UnmovedValid
  <2>3. a.m_position \in Nat /\ a.m_position <= a.m_size /\ Len(ContentOf(a)) = a.m_size
        /\ a.m_size \in Nat
    BY <1>1, ArrayFields, ContentIs
  <2>4. a.m_position \in a.m_position .. Len(ContentOf(a))
    <3>1. a.m_position \in a.m_position .. a.m_size
      BY <2>3
    <3> QED BY <2>3, <3>1, Zenon
  <2>5. io'.op = "throw"
    BY <2>1
  <2>6. Buffer!Throw
    BY <2>2, <2>4, <2>5, ContentIsOf, Zenon DEF Buffer!Throw
  <2> QED BY <2>2, <2>5, <2>6
<1>3. CASE ~(v > a.m_capacity)
  <2>1. a' = setPosition(a, v) /\ io' = [op |-> "seek", data |-> <<>>]
    BY <1>3 DEF SetPosition, Said
  <2>2. v <= a.m_capacity
    BY <1>1, <1>3
  <2>3. PICK y, c, e : y = setPosition(a, v) /\ c = ContentOf(a) /\ e = ContentOf(y)
    OBVIOUS
  <2>4. /\ Valid(y) /\ y.m_position = v
        /\ Len(e) = (IF v > Len(c) THEN v ELSE Len(c)) /\ SubSeq(e, 1, Len(c)) = c
    BY <1>1, <2>2, <2>3, SetPositionIsSeek
  <2>5. a' = y /\ a'.m_position = v /\ Content = c /\ Content' = e
    BY <2>1, <2>3, <2>4, ContentIsOf, Zenon
  <2>6. io'.op = "seek" /\ v >= 0
    BY <2>1
  <2>7. Buffer!Seek
    BY <2>4, <2>5, <2>6, Zenon DEF Buffer!Seek
  <2>8. Inv'
    BY <1>1, <2>4, <2>5, Zenon DEF Inv
  <2>9. Keeps(a, a')
    <3>1. SameNodes(a, y) /\ y.m_size = Larger(v, a.m_size)
      BY <1>1, <2>2, <2>3, SetPositionValid
    <3>2. y.mem = a.mem
      BY <3>1, Zenon DEF SameNodes
    <3>3. a.m_size \in Nat
      BY <1>1, ArrayFields
    <3>4. a.m_size <= y.m_size
      BY <3>1, <3>3 DEF Larger
    <3> QED BY <2>5, <3>2, <3>4, Zenon DEF Keeps
  <2> QED BY <2>6, <2>7, <2>8, <2>9
<1> QED BY <1>2, <1>3

LEMMA ClearStep ==
  ASSUME Inv, Clear
  PROVE  Inv' /\ Buffer!Clear /\ io'.op # "dump"
<1>1. Valid(a) /\ UNCHANGED file /\ file' \in Seq(Nat)
  BY DEF Inv, Clear
<1>2. a' = Cleared(a) /\ io' = [op |-> "clear", data |-> <<>>]
  BY DEF Clear, Said
<1>3. Valid(a') /\ a'.m_position = 0 /\ a'.m_size = 0
  BY <1>1, <1>2, ClearedValid, Zenon
<1>4. Content' = <<>>
  <2>1. ContentOf(a') \in Seq(Nat) /\ Len(ContentOf(a')) = 0
    BY <1>3, ContentIs
  <2>2. ContentOf(a') = <<>>
    BY <2>1, EmptySeq
  <2> QED BY <2>2, ContentIsOf, Zenon
<1>5. io'.op = "clear"
  BY <1>2
<1>6. Buffer!Clear
  BY <1>3, <1>4, <1>5, Zenon DEF Buffer!Clear
<1> QED BY <1>1, <1>3, <1>5, <1>6 DEF Inv

LEMMA SetIsLittleEndianStep ==
  ASSUME Inv, NEW val \in BOOLEAN, SetIsLittleEndian(val)
  PROVE  Inv' /\ Buffer!Silent /\ io'.op # "dump" /\ Keeps(a, a')
<1>1. Valid(a) /\ UNCHANGED file /\ file' \in Seq(Nat)
  BY DEF Inv, SetIsLittleEndian
<1>2. PICK e \in {"big", "little"} : a' = [a EXCEPT !.m_endian = e]
  BY DEF SetIsLittleEndian
<1>3. Valid(a') /\ a'.m_position = a.m_position /\ a'.m_size = a.m_size /\ a'.mem = a.mem
  BY <1>1, <1>2, EndianValid
<1>4. ContentOf(a') = ContentOf(a)
  BY <1>3, Zenon DEF ContentOf, Flat
<1>5. io'.op = "silent"
  BY DEF SetIsLittleEndian, Said
<1>6. io'.op \in {"silent", "dump"}
  BY <1>5
<1>7. Buffer!Silent
  BY <1>3, <1>4, <1>6, ContentIsOf, Zenon DEF Buffer!Silent
<1>8. Keeps(a, a')
  <2>1. a.m_size \in Nat
    BY <1>1, ArrayFields
  <2> QED BY <1>3, <2>1 DEF Keeps
<1> QED BY <1>1, <1>3, <1>5, <1>7, <1>8 DEF Inv

LEMMA WriteToFileStep ==
  ASSUME Inv, WriteToFile
  PROVE  /\ Inv' /\ Buffer!Silent /\ Keeps(a, a')
         /\ a.m_position % BaseSize = 0 =>
              a'.ok /\ file' = SubSeq(Content, a.m_position + 1, a.m_size)
<1>1. Valid(a) /\ file \in Seq(Nat)
  BY DEF Inv
<1>2. PICK d : d = Dumped(a)
  OBVIOUS
<1>3. /\ a.ok /\ a' = IF d.rest > 0 THEN Crashed(a) ELSE a
      /\ file' = IF d.rest > 0 THEN file ELSE d.data
      /\ io' = [op |-> "dump", data |-> <<>>]
  BY <1>2, Zenon DEF WriteToFile, Call, Said
<1>4. d.data \in Seq(Nat)
  BY <1>1, <1>2, DumpedTyped DEF Dumps
<1>5. file' \in Seq(Nat)
  BY <1>1, <1>3, <1>4
<1>6. Valid(a') /\ ContentOf(a') = ContentOf(a) /\ a'.m_position = a.m_position
  <2>1. CASE a' = a
    BY <1>1, <2>1, Zenon
  <2>2. CASE a' = Crashed(a)
    <3>1. /\ Valid(Crashed(a)) /\ Crashed(a).mem = a.mem
          /\ Crashed(a).m_position = a.m_position /\ Crashed(a).m_size = a.m_size
      BY <1>1, CrashedValid, Zenon DEF SameNodes
    <3>2. ContentOf(Crashed(a)) = ContentOf(a)
      BY <3>1, Zenon DEF ContentOf, Flat
    <3> QED BY <2>2, <3>1, <3>2, Zenon
  <2> QED BY <1>3, <2>1, <2>2
<1>7. io'.op \in {"silent", "dump"}
  BY <1>3
<1>8. Buffer!Silent
  BY <1>6, <1>7, ContentIsOf, Zenon DEF Buffer!Silent
<1>9. ASSUME a.m_position % BaseSize = 0
      PROVE  a'.ok /\ file' = SubSeq(Content, a.m_position + 1, a.m_size)
  <2>1. d.rest = 0 /\ d.data = SubSeq(ContentOf(a), a.m_position + 1, a.m_size)
    BY <1>1, <1>2, <1>9, DumpedRest, Zenon
  <2>2. a' = a /\ file' = d.data
    BY <1>3, <2>1
  <2> QED BY <1>3, <2>1, <2>2, ContentIsOf, Zenon
<1>10. Keeps(a, a')
  <2>1. Took(a, a')
    BY <1>1, <1>3, TookNothing
  <2> QED BY <1>1, <2>1, TookKeeps
<1> QED BY <1>5, <1>6, <1>8, <1>9, <1>10 DEF Inv

-----------------------------------------------------------------------------
\* What a step may do to the file.
DumpStep ==
  io'.op = "dump" /\ a.m_position % BaseSize = 0 =>
    a'.ok /\ file' = SubSeq(Content, a.m_position + 1, a.m_size)

\* One step per action: the invariant, the flat buffer and the file.
LEMMA NextStep ==
  ASSUME Inv, Next
  PROVE  Inv' /\ Buffer!Next /\ DumpStep
<1>1. 0 .. MaxCapacity \subseteq Nat
  BY ByteArrayAssumption
<1>2. ASSUME NEW fill \in Fills, NEW it \in Items, WriteItem(it, fill)
      PROVE  Inv' /\ Buffer!Next /\ DumpStep
  BY <1>2, WriteItemStep, Zenon DEF Buffer!Next, DumpStep
<1>3. ASSUME NEW fill \in Fills, NEW buf \in Texts, WriteBytes(buf, fill)
      PROVE  Inv' /\ Buffer!Next /\ DumpStep
  BY <1>3, WriteBytesStep, Zenon DEF Buffer!Next, DumpStep
<1>4. ASSUME NEW fill \in Fills, ReadFromFile(fill)
      PROVE  Inv' /\ Buffer!Next /\ DumpStep
  BY <1>4, ReadFromFileStep, Zenon DEF Buffer!Next, DumpStep
<1>5. ASSUME NEW fill \in Fills, NEW length \in 1 .. BaseSize + 1, NEW bytes \in Texts,
             Receive(length, bytes, fill)
      PROVE  Inv' /\ Buffer!Next /\ DumpStep
  BY <1>5, ReceiveStep, Zenon DEF Buffer!Next, DumpStep
<1>6. ASSUME NEW kind \in Kinds, ReadAny(kind)
      PROVE  Inv' /\ Buffer!Next /\ DumpStep
  BY <1>6, ReadAnyStep, Zenon DEF Buffer!Next, DumpStep
<1>7. ASSUME NEW n \in 0 .. MaxCapacity, Peek(n)
      PROVE  Inv' /\ Buffer!Next /\ DumpStep
  <2>1. n \in Nat
    BY <1>1
  <2> QED BY <1>7, <2>1, PeekStep, Zenon DEF Buffer!Next, DumpStep
<1>8. ASSUME NEW v \in 0 .. MaxCapacity, SetPosition(v)
      PROVE  Inv' /\ Buffer!Next /\ DumpStep
  <2>1. v \in Nat
    BY <1>1
  <2> QED BY <1>8, <2>1, SetPositionStep, Zenon DEF Buffer!Next, DumpStep
<1>9. ASSUME Clear PROVE Inv' /\ Buffer!Next /\ DumpStep
  BY <1>9, ClearStep, Zenon DEF Buffer!Next, DumpStep
<1>10. ASSUME NEW val \in BOOLEAN, SetIsLittleEndian(val)
       PROVE  Inv' /\ Buffer!Next /\ DumpStep
  BY <1>10, SetIsLittleEndianStep, Zenon DEF Buffer!Next, DumpStep
<1>11. ASSUME WriteToFile PROVE Inv' /\ Buffer!Next /\ DumpStep
  BY <1>11, WriteToFileStep, Zenon DEF Buffer!Next, DumpStep
<1>12. ASSUME NEW length \in 0 .. MaxCapacity, NEW n \in 0 .. MaxCapacity, Send(length, n)
       PROVE  Inv' /\ Buffer!Next /\ DumpStep
  <2>1. length \in Nat /\ n \in Nat
    BY <1>1
  <2> QED BY <1>12, <2>1, SendStep, Zenon DEF Buffer!Next, DumpStep
<1> QED BY <1>2, <1>3, <1>4, <1>5, <1>6, <1>7, <1>8, <1>9, <1>10, <1>11, <1>12 DEF Next

LEMMA InvStutter ==
  ASSUME Inv, UNCHANGED vars
  PROVE  Inv' /\ UNCHANGED Buffer!vars
<1>1. a' = a /\ file' = file /\ io' = io
  BY DEF vars
<1>2. Inv'
  BY <1>1, Zenon DEF Inv
<1>3. Content' = Content
  BY <1>1, ContentIsOf, Zenon
<1> QED BY <1>1, <1>2, <1>3 DEF Buffer!vars

LEMMA InvHolds == Spec => []Inv
<1>1. Inv /\ [Next]_vars => Inv'
  BY NextStep, InvStutter
<1> QED BY <1>1, InvInit, PTL DEF Spec

\* The shape of a ByteArray: m_capacity counts the nodes, position and size lie
\* within it, and m_cur is the node the position lies in, nullptr behind the
\* last byte, whatever calls of write, read, setPosition, clear, addCapacity,
\* readFromFile and SocketStream led there, for nodes of any size.
THEOREM CurFollowsPositionHolds == Spec => []CurFollowsPosition
<1>1. Inv => CurFollowsPosition
  <2>1. SUFFICES ASSUME Inv PROVE CurFollowsPosition
    OBVIOUS
  <2>2. Valid(a)
    BY <2>1 DEF Inv
  <2>3. DOMAIN a.mem = (0 .. a.nodes - 1) \X Offsets
    BY <2>2, ArrayFields DEF Memory
  <2>4. /\ a.m_capacity = a.nodes * BaseSize /\ 0 <= a.m_position
        /\ a.m_position <= a.m_size /\ a.m_size <= a.m_capacity
    BY <2>2, ArrayFields
  <2>5. a.m_cur = IF a.m_position = a.m_capacity THEN Null ELSE a.m_position \div BaseSize
    BY <2>2, Zenon DEF Valid, Shape
  <2> QED BY <2>3, <2>4, <2>5, Zenon DEF CurFollowsPosition
<1> QED BY <1>1, InvHolds, PTL

\* The list of nodes implements the flat buffer of ByteBuffer: every call of
\* the class, of readFromFile and of the streams is one step of the buffer, so
\* no byte is lost, repeated or misplaced at a node boundary.
THEOREM IsFlatBufferHolds == Spec => IsFlatBuffer
<1>1. Init => Buffer!Init
  <2>1. SUFFICES ASSUME Init PROVE Buffer!Init
    OBVIOUS
  <2>2. PICK fill \in Fills : a = New(fill)
    BY <2>1 DEF Init
  <2>3. fill \in Nat
    BY ByteArrayAssumption
  <2>4. Valid(New(fill)) /\ New(fill).m_position = 0 /\ New(fill).m_size = 0
    BY <2>3, NewValid, Zenon
  <2>5. Valid(a) /\ a.m_position = 0 /\ a.m_size = 0
    BY <2>2, <2>4, Zenon
  <2>6. ContentOf(a) \in Seq(Nat) /\ Len(ContentOf(a)) = 0
    BY <2>5, ContentIs
  <2>7. ContentOf(a) = <<>>
    BY <2>6, EmptySeq
  <2>8. io = [op |-> "none", data |-> <<>>]
    BY <2>1 DEF Init
  <2>9. Content = <<>>
    BY <2>7, ContentIsOf, Zenon
  <2> QED BY <2>5, <2>8, <2>9, Zenon DEF Buffer!Init
<1>2. Inv /\ [Next]_vars => [Buffer!Next]_(Buffer!vars)
  BY NextStep, InvStutter
<1> QED BY <1>1, <1>2, InvHolds, PTL DEF Spec, IsFlatBuffer, Buffer!Spec

\* writeToFile, called at the start of a node, writes all that is left of the
\* array, through the nodes from m_cur on, and returns.
THEOREM DumpsTheRestHolds == Spec => DumpsTheRest
<1>1. Inv /\ [Next]_vars =>
        [io'.op = "dump" /\ a.m_position % BaseSize = 0 =>
           a'.ok /\ file' = SubSeq(Content, a.m_position + 1, a.m_size)]_vars
  BY NextStep DEF DumpStep
<1> QED BY <1>1, InvHolds, PTL DEF Spec, DumpsTheRest

-----------------------------------------------------------------------------
LEMMA IndexIn ==
  ASSUME NEW p \in Nat, NEW l \in Nat, NEW i \in 1 .. l
  PROVE  \E j \in Nat : j = p + i - 1 /\ p <= j /\ j < p + l /\ j - p + 1 = i
<1>1. p + i - 1 \in Nat /\ p <= p + i - 1 /\ p + i - 1 < p + l /\ (p + i - 1) - p + 1 = i
  OBVIOUS
<1> QED BY <1>1, Zenon

\* An item written and not overwritten since: its bytes lie where it was written.
Entry(x, e) ==
  /\ e.item \in Items /\ e.endian \in {"big", "little"}
  /\ Holds(x, e.from, Bytes(e.item, e.endian))
  /\ e.to = e.from + Len(Bytes(e.item, e.endian))

WrittenInv == a.ok => \A e \in written : Entry(a, e)

LEMMA BytesAreBytes ==
  ASSUME NEW it \in Items, NEW endian
  PROVE  Bytes(it, endian) \in Seq(Nat)
<1>1. PICK s, t : s = Parts(it, endian)[1] /\ t = Parts(it, endian)[2]
  OBVIOUS
<1>2. s \in Seq(Nat) /\ t \in Seq(Nat)
  BY <1>1, PartsAreBytes
<1>3. s \o t \in Seq(Nat)
  BY <1>2
<1> QED BY <1>1, <1>3, Zenon DEF Bytes

\* A step that leaves the bytes alone.
LEMMA EntryStays ==
  ASSUME NEW x, Valid(x), NEW y, Valid(y), Keeps(x, y), NEW e, Entry(x, e)
  PROVE  Entry(y, e)
<1>1. PICK s, p : s = Bytes(e.item, e.endian) /\ p = e.from
  OBVIOUS
<1>2. /\ p \in Nat /\ s \in Seq(Nat) /\ p + Len(s) <= x.m_size
      /\ \A i \in 1 .. Len(s) : Flat(x, p + i - 1) = s[i]
  BY <1>1, Zenon DEF Entry, Holds
<1>3. p + Len(s) <= y.m_size
  <2>1. x.m_size \in Nat /\ y.m_size \in Nat /\ x.m_size <= y.m_size /\ Len(s) \in Nat
    BY <1>2, ArrayFields, LenProperties DEF Keeps
  <2> QED BY <1>2, <2>1
<1>4. \A i \in 1 .. Len(s) : Flat(y, p + i - 1) = s[i]
  BY <1>2, Zenon DEF Keeps, Flat
<1>5. Holds(y, p, s)
  BY <1>2, <1>3, <1>4, Zenon DEF Holds
<1> QED BY <1>1, <1>5, Zenon DEF Entry

\* A write elsewhere.
LEMMA EntryKept ==
  ASSUME NEW x, Valid(x), NEW w, NEW s, Wrote(x, w, s), NEW e, Entry(x, e),
         e.to <= x.m_position \/ e.from >= w.m_position
  PROVE  Entry(w, e)
<1>1. PICK b, p : b = Bytes(e.item, e.endian) /\ p = e.from
  OBVIOUS
<1>2. /\ p \in Nat /\ b \in Seq(Nat) /\ p + Len(b) <= x.m_size
      /\ \A i \in 1 .. Len(b) : Flat(x, p + i - 1) = b[i]
  BY <1>1, Zenon DEF Entry, Holds
<1>3. PICK l \in Nat : l = Len(b)
  BY <1>2, LenProperties
<1>4. Valid(w) /\ w.m_size = Larger(w.m_position, x.m_size)
  BY DEF Wrote
<1>5. PICK q \in Nat, z \in Nat, q1 \in Nat, z1 \in Nat :
        /\ q = x.m_position /\ z = x.m_size /\ q1 = w.m_position /\ z1 = w.m_size
        /\ z <= z1 /\ p + l <= z
  BY <1>2, <1>3, <1>4, ArrayFields DEF Larger
<1>6. p + l <= q \/ p >= q1
  BY <1>1, <1>3, <1>5, Zenon DEF Entry
<1>7. ASSUME NEW i \in 1 .. l PROVE Flat(w, p + i - 1) = b[i]
  <2>1. PICK j \in Nat : j = p + i - 1 /\ p <= j /\ j < p + l
    <3>1. p \in Nat /\ l \in Nat
      BY <1>2, <1>3
    <3> QED BY <3>1, IndexIn
  <2>2. j < z1 /\ ~(q <= j /\ j < q1)
    <3>1. /\ p \in Nat /\ l \in Nat /\ q \in Nat /\ q1 \in Nat /\ z \in Nat /\ z1 \in Nat
          /\ p + l <= z /\ z <= z1
      BY <1>2, <1>3, <1>5, Zenon
    <3> QED BY <1>6, <2>1, <3>1
  <2>3. Flat(w, j) = IF q <= j /\ j < q1 THEN s[j - q + 1] ELSE Flat(x, j)
    BY <1>5, <2>1, <2>2, Zenon DEF Wrote
  <2>4. Flat(w, j) = Flat(x, j)
    BY <2>2, <2>3, Zenon
  <2> QED BY <1>2, <1>3, <2>1, <2>4, Zenon
<1>8. p + l <= z1
  BY <1>2, <1>3, <1>5
<1>9. Holds(w, p, b)
  BY <1>2, <1>3, <1>5, <1>7, <1>8, Zenon DEF Holds
<1> QED BY <1>1, <1>9, Zenon DEF Entry

\* The bytes written now.
LEMMA WroteHolds ==
  ASSUME NEW x, Valid(x), NEW s \in Seq(Nat), NEW w, Wrote(x, w, s), w.ok
  PROVE  Holds(w, x.m_position, s) /\ w.m_position = x.m_position + Len(s)
<1>1. PICK l \in Nat : l = Len(s)
  BY LenProperties
<1>2. w.m_position = x.m_position + l /\ Valid(w)
  BY <1>1 DEF Wrote
<1>3. PICK q \in Nat, q1 \in Nat, z1 \in Nat :
        q = x.m_position /\ q1 = w.m_position /\ z1 = w.m_size /\ q1 <= z1 /\ q1 = q + l
  BY <1>2, ArrayFields
<1>4. ASSUME NEW i \in 1 .. l PROVE Flat(w, q + i - 1) = s[i]
  <2>1. PICK j \in Nat : j = q + i - 1 /\ j < z1 /\ q <= j /\ j < q1 /\ j - q + 1 = i
    <3>1. PICK j \in Nat : j = q + i - 1 /\ q <= j /\ j < q + l /\ j - q + 1 = i
      BY <1>1, <1>3, IndexIn
    <3>2. j < q1
      BY <1>3, <3>1, Zenon
    <3>3. \A c, d, f \in Nat : c < d /\ d <= f => c < f
      OBVIOUS
    <3>4. j < z1
      BY <1>3, <3>2, <3>3, Zenon
    <3> QED BY <3>1, <3>2, <3>4, Zenon
  <2>2. Flat(w, j) = IF q <= j /\ j < q1 THEN s[j - q + 1] ELSE Flat(x, j)
    BY <1>3, <2>1, Zenon DEF Wrote
  <2> QED BY <2>1, <2>2, Zenon
<1>5. q + l <= z1
  BY <1>1, <1>3
<1> QED BY <1>1, <1>2, <1>3, <1>4, <1>5, Zenon DEF Holds

LEMMA WrittenKept ==
  ASSUME Inv, WrittenInv, a.ok, NEW s, Wrote(a, a', s)
  PROVE  \A e \in Kept : Entry(a', e)
<1>1. Valid(a)
  BY DEF Inv
<1>2. ASSUME NEW e \in Kept PROVE Entry(a', e)
  <2>1. e \in written /\ (e.to <= a.m_position \/ e.from >= a'.m_position)
    BY DEF Kept
  <2>2. Entry(a, e)
    BY <2>1, Zenon DEF WrittenInv
  <2> QED BY <1>1, <2>1, <2>2, EntryKept
<1> QED BY <1>2

LEMMA WrittenStays ==
  ASSUME Inv, WrittenInv, a.ok, Inv', Keeps(a, a'), UNCHANGED written
  PROVE  WrittenInv'
<1>1. Valid(a) /\ Valid(a')
  BY DEF Inv
<1>2. ASSUME NEW e \in written PROVE Entry(a', e)
  <2>1. Entry(a, e)
    BY Zenon DEF WrittenInv
  <2> QED BY <1>1, <2>1, EntryStays
<1> QED BY <1>2, Zenon DEF WrittenInv

LEMMA WrittenNext ==
  ASSUME Inv, WrittenInv, Next
  PROVE  WrittenInv'
<1>1. Valid(a) /\ 0 .. MaxCapacity \subseteq Nat
  BY ByteArrayAssumption DEF Inv
<1>2. ASSUME NEW fill \in Fills, NEW it \in Items, WriteItem(it, fill) PROVE WrittenInv'
  <2>1. PICK s, n : s = Bytes(it, a.m_endian) /\ n = [item |-> it, endian |-> a.m_endian,
                                                      from |-> a.m_position, to |-> a'.m_position]
    OBVIOUS
  <2>2. Wrote(a, a', s) /\ s \in Seq(Nat)
    BY <1>2, <2>1, WriteItemStep, BytesAreBytes, Zenon
  <2>3. a.ok /\ written' = Kept \cup {n}
    BY <1>2, <2>1, Zenon DEF WriteItem, Call
  <2>4. \A e \in Kept : Entry(a', e)
    BY <2>2, <2>3, WrittenKept
  <2>5. ASSUME a'.ok PROVE Entry(a', n)
    <3>1. Holds(a', a.m_position, s) /\ a'.m_position = a.m_position + Len(s)
      BY <1>1, <2>2, <2>5, WroteHolds
    <3>2. n.item = it /\ n.endian = a.m_endian /\ n.from = a.m_position /\ n.to = a'.m_position
      BY <2>1
    <3>3. a.m_endian \in {"big", "little"}
      BY <1>1, ArrayFields
    <3> QED BY <2>1, <3>1, <3>2, <3>3, Zenon DEF Entry
  <2> QED BY <2>3, <2>4, <2>5, Zenon DEF WrittenInv
<1>3. ASSUME NEW fill \in Fills, NEW buf \in Texts, WriteBytes(buf, fill) PROVE WrittenInv'
  <2>1. Wrote(a, a', buf) /\ a.ok /\ written' = Kept
    BY <1>3, WriteBytesStep DEF WriteBytes, Call
  <2> QED BY <2>1, WrittenKept, Zenon DEF WrittenInv
<1>4. ASSUME NEW fill \in Fills, ReadFromFile(fill) PROVE WrittenInv'
  <2>1. Wrote(a, a', file) /\ a.ok /\ written' = Kept
    BY <1>4, ReadFromFileStep DEF ReadFromFile, Call
  <2> QED BY <2>1, WrittenKept, Zenon DEF WrittenInv
<1>5. ASSUME NEW fill \in Fills, NEW length \in 1 .. BaseSize + 1, NEW bytes \in Texts,
             Receive(length, bytes, fill)
      PROVE  WrittenInv'
  <2>1. Wrote(a, a', bytes) /\ a.ok /\ written' = Kept
    BY <1>5, ReceiveStep, Zenon DEF Receive, Call
  <2> QED BY <2>1, WrittenKept, Zenon DEF WrittenInv
<1>6. ASSUME NEW kind \in Kinds, ReadAny(kind) PROVE WrittenInv'
  <2>1. Inv' /\ Keeps(a, a')
    BY <1>6, ReadAnyStep
  <2>2. a.ok /\ UNCHANGED written
    BY <1>6, Zenon DEF ReadAny, Call
  <2> QED BY <2>1, <2>2, WrittenStays
<1>7. ASSUME NEW n \in 0 .. MaxCapacity, Peek(n) PROVE WrittenInv'
  <2>1. n \in Nat
    BY <1>1
  <2>2. Inv' /\ Keeps(a, a')
    BY <1>7, <2>1, PeekStep
  <2>3. a.ok /\ UNCHANGED written
    BY <1>7, Zenon DEF Peek, Call
  <2> QED BY <2>2, <2>3, WrittenStays
<1>8. ASSUME NEW v \in 0 .. MaxCapacity, SetPosition(v) PROVE WrittenInv'
  <2>1. v \in Nat
    BY <1>1
  <2>2. Inv' /\ Keeps(a, a')
    BY <1>8, <2>1, SetPositionStep
  <2>3. a.ok /\ UNCHANGED written
    BY <1>8, Zenon DEF SetPosition, Call
  <2> QED BY <2>2, <2>3, WrittenStays
<1>9. ASSUME Clear PROVE WrittenInv'
  <2>1. written' = {}
    BY <1>9 DEF Clear
  <2> QED BY <2>1, Zenon DEF WrittenInv
<1>10. ASSUME NEW val \in BOOLEAN, SetIsLittleEndian(val) PROVE WrittenInv'
  <2>1. Inv' /\ Keeps(a, a')
    BY <1>10, SetIsLittleEndianStep
  <2>2. a.ok /\ UNCHANGED written
    BY <1>10, Zenon DEF SetIsLittleEndian, Call
  <2> QED BY <2>1, <2>2, WrittenStays
<1>11. ASSUME WriteToFile PROVE WrittenInv'
  <2>1. Inv' /\ Keeps(a, a')
    BY <1>11, WriteToFileStep, Zenon
  <2>2. a.ok /\ UNCHANGED written
    BY <1>11, Zenon DEF WriteToFile, Call
  <2> QED BY <2>1, <2>2, WrittenStays
<1>12. ASSUME NEW length \in 0 .. MaxCapacity, NEW n \in 0 .. MaxCapacity, Send(length, n)
       PROVE  WrittenInv'
  <2>1. length \in Nat /\ n \in Nat
    BY <1>1
  <2>2. Inv' /\ Keeps(a, a')
    BY <1>12, <2>1, SendStep
  <2>3. a.ok /\ UNCHANGED written
    BY <1>12, Zenon DEF Send, Call
  <2> QED BY <2>2, <2>3, WrittenStays
<1> QED BY <1>2, <1>3, <1>4, <1>5, <1>6, <1>7, <1>8, <1>9, <1>10, <1>11, <1>12 DEF Next

\* What was written with writeFint8 ... writeStringVint and not overwritten
\* since is read back by the matching call at its place, in the byte order of
\* then: the same value, with the position behind it, if the call returns.
\* For nodes of any size, bytes and integers of any width, all integers of that
\* width, and all strings the length of which fits into one.
THEOREM ReadsBackHolds == ASSUME TextsFit PROVE Spec => []ReadsBack
<1>1. Init => WrittenInv
  BY DEF Init, WrittenInv
<1>2. Inv /\ WrittenInv /\ [Next]_vars => WrittenInv'
  <2>1. ASSUME WrittenInv, UNCHANGED vars PROVE WrittenInv'
    <3>1. a' = a /\ written' = written
      BY <2>1 DEF vars
    <3> QED BY <2>1, <3>1, Zenon DEF WrittenInv
  <2> QED BY <2>1, WrittenNext
<1>3. Inv /\ WrittenInv => ReadsBack
  <2>1. SUFFICES ASSUME Inv, WrittenInv, a.ok, NEW e \in written
                 PROVE  Gives(ReadItem(setPosition([a EXCEPT !.m_endian = e.endian], e.from),
                                       e.item.kind), e.item.value, e.to)
    BY Zenon DEF ReadsBack, Gives
  <2>2. Valid(a) /\ Entry(a, e)
    BY <2>1, Zenon DEF Inv, WrittenInv
  <2>3. PICK it, n, p, s : it = e.item /\ n = e.endian /\ p = e.from /\ s = Bytes(it, n)
    OBVIOUS
  <2>4. it \in Items /\ n \in {"big", "little"} /\ Holds(a, p, s) /\ e.to = p + Len(s)
    BY <2>2, <2>3, Zenon DEF Entry
  <2>5. PICK x : x = [a EXCEPT !.m_endian = n]
    OBVIOUS
  <2>6. Valid(x) /\ x.m_size = a.m_size /\ x.mem = a.mem
    BY <2>2, <2>4, <2>5, EndianValid
  <2>7. x.m_endian = n
    BY <2>2, <2>5 DEF Valid, Arrays
  <2>8. p \in Nat /\ p <= x.m_size /\ p <= x.m_capacity /\ x.m_size \in Nat
    <3>1. p \in Nat /\ p + Len(s) <= a.m_size /\ Len(s) \in Nat
      BY <2>4, LenProperties DEF Holds
    <3>2. x.m_size \in Nat /\ x.m_capacity \in Nat /\ x.m_size <= x.m_capacity
      BY <2>6, ArrayFields
    <3> QED BY <2>6, <3>1, <3>2
  <2>9. PICK y : y = setPosition(x, p)
    OBVIOUS
  <2>10. Valid(y) /\ SameNodes(x, y) /\ y.m_position = p /\ y.m_size = Larger(p, x.m_size)
    BY <2>6, <2>8, <2>9, SetPositionValid
  <2>11. y.m_size = a.m_size /\ y.mem = a.mem /\ y.m_endian = n
    <3>1. Larger(p, x.m_size) = x.m_size
      BY <2>8 DEF Larger
    <3> QED BY <2>6, <2>7, <2>10, <3>1, Zenon DEF SameNodes
  <2>12. Holds(y, y.m_position, Bytes(it, y.m_endian))
    <3>1. Holds(y, p, s)
      BY <2>4, <2>11, HoldsToo
    <3> QED BY <2>3, <2>10, <2>11, <3>1, Zenon
  <2>13. Gives(ReadItem(y, it.kind), it.value, y.m_position + Len(Bytes(it, y.m_endian)))
    BY <2>4, <2>10, <2>12, ItemGives
  <2> QED BY <2>3, <2>4, <2>5, <2>9, <2>10, <2>11, <2>13, Zenon
<1> QED BY <1>1, <1>2, <1>3, InvHolds, PTL DEF Spec

==============================================================================
