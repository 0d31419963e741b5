----------------------------- MODULE HookProofs -----------------------------
(***************************************************************************)
(* Proofs about Hook, for any fibres, numbers and workload.                *)
(*                                                                         *)
(* What the properties rest on is that a fibre is in one place: it runs,   *)
(* is queued once, sleeps, or waits for one event (Tokens); that the       *)
(* context of an event is filled once, so that a suspended call owns it    *)
(* (Owners); and that the descriptor table, the kernel's flag and the      *)
(* user's agree for every number that was never closed behind the hook's   *)
(* back (Table).                                                           *)
(***************************************************************************)
EXTENDS Hook, FiniteSetTheorems, SequenceTheorems, TLAPS

-----------------------------------------------------------------------------
\* The types of the records.
Files == [id : Nat \ {0}, sock : BOOLEAN, nonblock : BOOLEAN,
          conn : {"no", "pending", "yes", "refused", "taken"}, user : BOOLEAN, raw : BOOLEAN]
Ctxs == [id : Nat \ {0}, sock : {TRUE}, user : BOOLEAN, sys : {TRUE},
         timed : [Evs -> BOOLEAN]]
CallRecords == [id : Nat \ {0}, op : IoOps \cup {"connect"}, num : Nums, ev : Evs,
                file : Nat, timed : BOOLEAN, cancelled : BOOLEAN]
Items == {it \in [kind : {"fiber", "wake", "timer"}, fiber : Fibers, id : Nat] :
            it.kind = "timer" => it.id # 0}
ContextRecords == [fiber : Fibers \cup {None}, id : Nat]

\* The kernel and the descriptor table.
KernelType ==
  /\ hook \in BOOLEAN
  /\ file \in [Nums -> Files \cup {NoFile}]
  /\ m_datas \in [Nums -> Ctxs \cup {NoCtx}]
  /\ rawClosed \subseteq Nums
  /\ opened \in Nat
  /\ \A n \in Nums : file[n].id <= opened /\ m_datas[n].id <= opened

\* The loop and the calls.
LoopType ==
  /\ halt \in {"no", "blocked", "iomanager.cpp:37", "iomanager.cpp:111",
               "iomanager.cpp:131"}
  /\ phase \in {"run", "timers", "events"}
  /\ queue \in Seq(Items)
  /\ cur \in Fibers \cup {None}
  /\ sleepers \subseteq Fibers

WaitType ==
  /\ events \subseteq Nums \X Evs
  /\ ctx \in [Nums \X Evs -> ContextRecords]
  /\ armed \subseteq Fibers \X (1 .. MaxCalls)
  /\ call \in [Fibers -> CallRecords \cup {NoCall}]
  /\ calls \in 0 .. MaxCalls
  /\ \A f \in Fibers : call[f].id <= calls

\* For a number that was never closed with the hook off, a context belongs to the
\* open file and holds the user's flag; a socket made with the hook on has one, and
\* is nonblocking unless ioctl made it otherwise.
Agree(f, x) ==
  /\ x # NoCtx => x.id = f.id /\ x.user = f.user
  /\ f # NoFile /\ x = NoCtx => f.nonblock = f.user
  /\ f # NoFile /\ f.sock /\ ~f.raw => x # NoCtx /\ f.nonblock

Table == \A n \in Nums \ rawClosed : Agree(file[n], m_datas[n])

\* The fibres a queue will resume, and those an event will.
Queued(q) == {q[i].fiber : i \in {k \in DOMAIN q : q[k].kind # "timer"}}
OnceIn(q) == \A i, j \in DOMAIN q :
               q[i].kind # "timer" /\ q[j].kind # "timer" /\ q[i].fiber = q[j].fiber => i = j
Waiting == {ctx[p].fiber : p \in events}

\* A fibre is in at most one place.
Tokens ==
  /\ OnceIn(queue)
  /\ cur \notin Queued(queue) \cup sleepers \cup Waiting
  /\ sleepers \cap (Queued(queue) \cup Waiting) = {}
  /\ Queued(queue) \cap Waiting = {}

\* The call a fibre is suspended in owns the context of its event, and an event is
\* registered for such a call.
PairOf(c) == <<c.num, c.ev>>
Owners ==
  /\ \A f \in Fibers : call[f] # NoCall => ctx[PairOf(call[f])].fiber = f
  /\ \A p \in events :
       /\ ctx[p].fiber \in Fibers
       /\ call[ctx[p].fiber] # NoCall
       /\ PairOf(call[ctx[p].fiber]) = p

\* An event is registered for the file the call was made for, which is in the table.
OnFiles ==
  \A p \in events :
    p[1] \notin rawClosed =>
      /\ ctx[p].id = file[p[1]].id
      /\ call[ctx[p].fiber].file = file[p[1]].id
      /\ m_datas[p[1]] # NoCtx

\* The armed timers are those of calls in progress, and not of the running fibre.
Timers ==
  halt = "no" => \A t \in armed : call[t[1]].id = t[2] /\ t[1] # cur

\* A connect() that is suspended has begun to connect its file; when its event has
\* fired the peer has decided.
Connecting ==
  \A f \in Fibers :
    call[f] # NoCall /\ call[f].op = "connect" =>
      /\ call[f].file \in 1 .. opened
      /\ file[call[f].num].id = call[f].file =>
           /\ file[call[f].num].conn # "no"
           /\ PairOf(call[f]) \notin events /\ ~call[f].cancelled =>
                file[call[f].num].conn # "pending"

\* What the last call left in ret.
Answered ==
  /\ ThreadNeverBlocks
  /\ UserSeesOwnFlag
  /\ ConnectTellsTruth

\* A call opens at most one file, when it returns.
Suspended == {f \in Fibers : call[f] # NoCall}
Opens == opened + Cardinality(Suspended) <= calls

Inv == /\ KernelType /\ LoopType /\ WaitType
       /\ Table /\ Tokens /\ Owners /\ OnFiles /\ Timers
       /\ Connecting /\ Answered /\ Opens
-----------------------------------------------------------------------------
\* A record that stands for nothing is told apart by its number.
LEMMA Absent ==
  /\ \A f \in Files \cup {NoFile} : (f = NoFile <=> f.id = 0) /\ f.id \in Nat
  /\ \A x \in Ctxs \cup {NoCtx} : (x = NoCtx <=> x.id = 0) /\ x.id \in Nat
  /\ \A c \in CallRecords \cup {NoCall} : (c = NoCall <=> c.id = 0) /\ c.id \in Nat
<1>1. \A f \in Files : f.id \in Nat \ {0}
  BY DEF Files
<1>2. \A x \in Ctxs : x.id \in Nat \ {0}
  BY DEF Ctxs
<1>3. \A c \in CallRecords : c.id \in Nat \ {0}
  BY DEF CallRecords
<1>4. NoFile.id = 0 /\ NoCtx.id = 0 /\ NoCall.id = 0
  BY DEF NoFile, NoCtx, NoCall
<1> QED BY <1>1, <1>2, <1>3, <1>4

\* What OpenFile makes.
LEMMA OpenFileType ==
  ASSUME KernelType, NEW sock \in BOOLEAN
  PROVE  /\ OpenFile(sock) \in Files
         /\ OpenFile(sock).id = opened + 1 /\ OpenFile(sock).sock = sock
         /\ OpenFile(sock).nonblock = FALSE /\ OpenFile(sock).user = FALSE
         /\ OpenFile(sock).conn = "no" /\ OpenFile(sock).raw = TRUE
BY DEF KernelType, OpenFile, Files

\* FdCtx::init of a socket.
LEMMA NewCtxType ==
  ASSUME NEW f \in Files, f.sock = TRUE
  PROVE  /\ NewCtx(f) \in Ctxs
         /\ NewCtx(f).id = f.id /\ NewCtx(f).user = FALSE
BY DEF Files, NewCtx, Ctxs, Evs

\* A step that changes what the kernel and the table hold for the number n, to g
\* and x.
Renews(n, g, x) ==
  /\ g \in Files \cup {NoFile} /\ x \in Ctxs \cup {NoCtx}
  /\ file' = [file EXCEPT ![n] = g] /\ m_datas' = [m_datas EXCEPT ![n] = x]
  /\ hook' \in BOOLEAN /\ opened' \in Nat /\ opened <= opened'
  /\ rawClosed' = rawClosed \/ rawClosed' = rawClosed \cup {n}
  /\ g.id <= opened' /\ x.id <= opened'
  /\ n \notin rawClosed' => Agree(g, x)

LEMMA NumberChanges ==
  ASSUME KernelType, Table, NEW n \in Nums, NEW g, NEW x, Renews(n, g, x)
  PROVE  KernelType' /\ Table'
<1> USE DEF Renews
<1>1. \A k \in Nums : /\ file'[k] = IF k = n THEN g ELSE file[k]
                      /\ m_datas'[k] = IF k = n THEN x ELSE m_datas[k]
  BY DEF KernelType
<1>2. /\ file' \in [Nums -> Files \cup {NoFile}]
      /\ m_datas' \in [Nums -> Ctxs \cup {NoCtx}]
      /\ rawClosed' \subseteq Nums
  BY DEF KernelType
<1>3. \A k \in Nums : file'[k].id <= opened' /\ m_datas'[k].id <= opened'
  BY <1>1, Absent DEF KernelType
<1>4. ASSUME NEW k \in Nums \ rawClosed' PROVE Agree(file'[k], m_datas'[k])
  BY <1>1 DEF Table
<1> QED BY <1>2, <1>3, <1>4 DEF KernelType, Table, Agree

\* A file under a new number, with a context: the table and the flag follow.
LEMMA OpenKeepsTable ==
  ASSUME KernelType, Table, NEW n \in Nums, file[n] = NoFile,
         OpenWithCtx(n, OpenFile(TRUE)), hook' = hook
  PROVE  KernelType' /\ Table'
<1> DEFINE f == OpenFile(TRUE)
           g == [f EXCEPT !.nonblock = FlagAfterGet(n, f), !.raw = FALSE]
<1>1. /\ f \in Files /\ f.id = opened + 1 /\ f.sock = TRUE /\ f.nonblock = FALSE
      /\ f.user = FALSE
  BY OpenFileType
<1>2. FlagAfterGet(n, f) = (m_datas[n] = NoCtx)
  BY <1>1 DEF FlagAfterGet
<1>3. /\ g \in Files /\ g.id = opened + 1 /\ g.user = FALSE
      /\ g.nonblock = (m_datas[n] = NoCtx)
  BY <1>1, <1>2 DEF Files
<1>4. /\ NewCtx(f) \in Ctxs /\ NewCtx(f).id = opened + 1 /\ NewCtx(f).user = FALSE
  BY <1>1, NewCtxType
<1>5. file' = [file EXCEPT ![n] = g]
  BY DEF OpenWithCtx
<1>6. m_datas' = IF m_datas[n] = NoCtx THEN [m_datas EXCEPT ![n] = NewCtx(f)] ELSE m_datas
  BY DEF OpenWithCtx, Created
<1> HIDE DEF f, g
<1>7. NewCtx(f) # NoCtx
  BY <1>4, Absent DEF KernelType
<1>8. n \notin rawClosed => m_datas[n] = NoCtx
  BY Absent DEF KernelType, Table, Agree, NoFile
<1>9. /\ opened' = opened + 1 /\ opened \in Nat /\ rawClosed' = rawClosed
      /\ hook' \in BOOLEAN /\ m_datas[n].id <= opened /\ m_datas[n] \in Ctxs \cup {NoCtx}
      /\ m_datas[n].id \in Nat
  BY Absent DEF KernelType, OpenWithCtx
<1>10. m_datas = [m_datas EXCEPT ![n] = m_datas[n]]
  BY DEF KernelType
<1>11. CASE m_datas[n] = NoCtx
  <2>1. g.nonblock = TRUE
    BY <1>3, <1>11
  <2>2. Agree(g, NewCtx(f))
    BY <1>3, <1>4, <1>7, <2>1 DEF Agree
  <2>3. Renews(n, g, NewCtx(f))
    BY <1>3, <1>4, <1>5, <1>6, <1>9, <1>11, <2>2 DEF Renews
  <2> QED BY <2>3, NumberChanges
<1>12. CASE m_datas[n] # NoCtx
  <2>1. Renews(n, g, m_datas[n])
    BY <1>3, <1>5, <1>6, <1>8, <1>9, <1>10, <1>12 DEF Renews
  <2> QED BY <2>1, NumberChanges
<1> QED BY <1>11, <1>12

\* A file under a new number for which nobody makes a context.
LEMMA BareKeepsTable ==
  ASSUME KernelType, Table, NEW n \in Nums, file[n] = NoFile, NEW sock \in BOOLEAN,
         OpenBare(n, OpenFile(sock)), hook' = hook
  PROVE  KernelType' /\ Table'
<1> DEFINE f == OpenFile(sock)
<1>1. /\ f \in Files /\ f.id = opened + 1 /\ f.nonblock = FALSE /\ f.user = FALSE
      /\ f.raw = TRUE
  BY OpenFileType
<1>2. file' = [file EXCEPT ![n] = f] /\ m_datas' = m_datas
  BY DEF OpenBare
<1> HIDE DEF f
<1>3. n \notin rawClosed => m_datas[n] = NoCtx
  BY Absent DEF KernelType, Table, Agree, NoFile
<1>4. n \notin rawClosed => Agree(f, m_datas[n])
  BY <1>1, <1>3 DEF Agree
<1>5. /\ opened' = opened + 1 /\ opened \in Nat /\ rawClosed' = rawClosed
      /\ m_datas = [m_datas EXCEPT ![n] = m_datas[n]]
      /\ hook' \in BOOLEAN /\ m_datas[n].id <= opened /\ m_datas[n].id \in Nat
      /\ m_datas[n] \in Ctxs \cup {NoCtx}
  BY Absent DEF KernelType, OpenBare
<1>6. Renews(n, f, m_datas[n])
  BY <1>1, <1>2, <1>4, <1>5 DEF Renews
<1> QED BY <1>6, NumberChanges

\* What one attempt of a call does to the kernel: nothing, or accept() opens a file,
\* or the call takes the error of a refused connection.
EventStep == \E n \in Nums, err \in BOOLEAN :
               \E on \in SUBSET ({n} \X Evs) : HandleEvent(n, on, err)
KernelSame == UNCHANGED <<file, opened, rawClosed, m_datas>>
OpensOne == \E n \in Nums : file[n] = NoFile /\ OpenWithCtx(n, OpenFile(TRUE))
TakesError ==
  /\ \E n \in Nums : /\ file[n] # NoFile /\ file[n].conn = "refused"
                     /\ file' = [file EXCEPT ![n].conn = "taken"]
  /\ UNCHANGED <<opened, rawClosed, m_datas>>

LEMMA TellingKernel ==
  ASSUME NEW n \in Nums, file' = ErrorTold(n), UNCHANGED <<opened, rawClosed, m_datas>>
  PROVE  KernelSame \/ TakesError
BY DEF ErrorTold, KernelSame, TakesError

LEMMA AttemptKernel ==
  ASSUME NEW c, c.num \in Nums, NEW plain, NEW ok, Attempt(c, plain, ok)
  PROVE  KernelSame \/ OpensOne \/ TakesError
<1>1. CASE Transfers(c)
  BY <1>1, TellingKernel DEF Transfers, Accepted, kernelVars, KernelSame, OpensOne
<1>2. CASE ~Transfers(c)
  BY <1>2 DEF Attempt, Waits, kernelVars, KernelSame
<1> QED BY <1>1, <1>2

\* The user's flag for a file that is open: what it becomes in the table.
UserSet(n, b) == IF IsSocketCtx(n) THEN [m_datas[n] EXCEPT !.user = b] ELSE m_datas[n]

LEMMA UserSetType ==
  ASSUME KernelType, NEW n \in Nums, NEW b \in BOOLEAN
  PROVE  /\ UserSet(n, b) \in Ctxs \cup {NoCtx} /\ UserSet(n, b).id = m_datas[n].id
         /\ UserSet(n, b) # NoCtx <=> m_datas[n] # NoCtx
         /\ m_datas[n] # NoCtx => UserSet(n, b).user = b /\ m_datas[n].sys = TRUE
         /\ IsSocketCtx(n) <=> m_datas[n] # NoCtx
         /\ m_datas[n].id <= opened /\ m_datas[n].id \in Nat /\ opened \in Nat
<1> DEFINE y == [m_datas[n] EXCEPT !.user = b]
<1>1. m_datas[n] \in Ctxs \cup {NoCtx}
  BY DEF KernelType
<1>2. m_datas[n] # NoCtx => /\ m_datas[n].sock = TRUE /\ m_datas[n].sys = TRUE
                            /\ y \in Ctxs /\ y.id = m_datas[n].id /\ y.user = b
  BY <1>1 DEF Ctxs
<1> HIDE DEF y
<1>3. UserSet(n, b) = IF m_datas[n] # NoCtx THEN y ELSE m_datas[n]
  BY <1>2 DEF UserSet, IsSocketCtx, y
<1>4. m_datas[n] # NoCtx => y # NoCtx
  BY <1>1, <1>2, Absent
<1>5. IsSocketCtx(n) <=> m_datas[n] # NoCtx
  BY <1>2 DEF IsSocketCtx
<1> QED BY <1>1, <1>2, <1>3, <1>4, <1>5, Absent DEF KernelType

\* Flags set with fcntl or ioctl.
LEMMA FlagsKeepTable ==
  ASSUME KernelType, Table, NEW n \in Nums, NEW b \in BOOLEAN, SetFlag(n, b) \/ Ioctl(n, b)
  PROVE  KernelType' /\ Table'
<1>1. /\ file[n] \in Files /\ file[n] # NoFile /\ file[n].id <= opened
      /\ UNCHANGED <<hook, opened, rawClosed>> /\ hook \in BOOLEAN
  BY DEF KernelType, SetFlag, Ioctl
<1>2. m_datas' = [m_datas EXCEPT ![n] = UserSet(n, b)]
  BY DEF KernelType, SetFlag, Ioctl, UserSet
<1>3. CASE SetFlag(n, b)
  <2> DEFINE g == [file[n] EXCEPT !.user = b, !.nonblock = NonblockAfterSetfl(n, b)]
  <2>1. NonblockAfterSetfl(n, b) = IF m_datas[n] # NoCtx THEN TRUE ELSE b
    BY UserSetType DEF NonblockAfterSetfl
  <2>2. /\ g \in Files /\ g.id = file[n].id /\ g.sock = file[n].sock /\ g.raw = file[n].raw
        /\ g.user = b /\ g.nonblock = NonblockAfterSetfl(n, b)
    BY <1>1, <2>1 DEF Files
  <2>3. file' = [file EXCEPT ![n] = g]
    BY <1>3 DEF SetFlag, KernelType
  <2> HIDE DEF g
  <2>4. n \notin rawClosed => Agree(g, UserSet(n, b))
    <3>1. CASE m_datas[n] = NoCtx
      BY <1>1, <2>1, <2>2, <3>1, UserSetType DEF Table, Agree
    <3>2. CASE m_datas[n] # NoCtx
      BY <1>1, <2>1, <2>2, <3>2, UserSetType DEF Table, Agree
    <3> QED BY <3>1, <3>2
  <2>5. /\ hook' \in BOOLEAN /\ opened' = opened /\ opened \in Nat /\ rawClosed' = rawClosed
        /\ UserSet(n, b) \in Ctxs \cup {NoCtx} /\ UserSet(n, b).id <= opened
        /\ g.id <= opened
    BY <1>1, <2>2, UserSetType
  <2>6. Renews(n, g, UserSet(n, b))
    BY <1>2, <2>2, <2>3, <2>4, <2>5 DEF Renews
  <2> QED BY <2>6, NumberChanges
<1>4. CASE Ioctl(n, b)
  <2> DEFINE g == [file[n] EXCEPT !.user = b, !.nonblock = b, !.raw = @ \/ ~b]
  <2>1. /\ g \in Files /\ g.id = file[n].id /\ g.sock = file[n].sock
        /\ g.raw = (file[n].raw \/ ~b) /\ g.user = b /\ g.nonblock = b
    BY <1>1 DEF Files
  <2>2. file' = [file EXCEPT ![n] = g]
    BY <1>4 DEF Ioctl, KernelType
  <2> HIDE DEF g
  <2>3. n \notin rawClosed => Agree(g, UserSet(n, b))
    <3>1. CASE m_datas[n] = NoCtx
      BY <1>1, <2>1, <3>1, UserSetType DEF Table, Agree
    <3>2. CASE m_datas[n] # NoCtx
      BY <1>1, <2>1, <3>2, UserSetType DEF Table, Agree
    <3> QED BY <3>1, <3>2
  <2>4. /\ hook' \in BOOLEAN /\ opened' = opened /\ opened \in Nat /\ rawClosed' = rawClosed
        /\ UserSet(n, b) \in Ctxs \cup {NoCtx} /\ UserSet(n, b).id <= opened
        /\ g.id <= opened
    BY <1>1, <2>1, UserSetType
  <2>5. Renews(n, g, UserSet(n, b))
    BY <1>2, <2>1, <2>2, <2>3, <2>4 DEF Renews
  <2> QED BY <2>5, NumberChanges
<1> QED BY <1>3, <1>4

\* close().
LEMMA CloseKeepsTable ==
  ASSUME KernelType, Table, NEW n \in Nums, Close(n)
  PROVE  KernelType' /\ Table'
<1> DEFINE x == IF hook THEN NoCtx ELSE m_datas[n]
<1>1. /\ hook' = hook /\ opened' = opened /\ hook \in BOOLEAN /\ opened \in Nat
      /\ file' = [file EXCEPT ![n] = NoFile]
      /\ rawClosed' = IF hook THEN rawClosed ELSE rawClosed \cup {n}
      /\ NoFile.id <= opened
  BY DEF Close, KernelType, NoFile
<1>2. m_datas' = [m_datas EXCEPT ![n] = x]
  BY DEF Close, KernelType, Dropped
<1>3. x \in Ctxs \cup {NoCtx} /\ x.id <= opened
  BY DEF KernelType, NoCtx
<1>4. n \notin rawClosed' => Agree(NoFile, x)
  BY <1>1 DEF Agree
<1>5. Renews(n, NoFile, x)
  BY <1>1, <1>2, <1>3, <1>4 DEF Renews
<1> QED BY <1>5, NumberChanges

\* A connection that begins or is decided.
ConnSet(n, st) == /\ file[n] # NoFile
                  /\ file' = [file EXCEPT ![n].conn = st]
                  /\ UNCHANGED <<hook, opened, rawClosed, m_datas>>

LEMMA ConnKeepsTable ==
  ASSUME KernelType, Table, NEW n \in Nums, NEW st \in {"pending", "yes", "refused", "taken"},
         ConnSet(n, st)
  PROVE  KernelType' /\ Table'
<1> DEFINE g == [file[n] EXCEPT !.conn = st]
<1>1. file[n] \in Files /\ file[n] # NoFile /\ file[n].id <= opened
  BY DEF KernelType, ConnSet
<1>2. /\ g \in Files /\ g.id = file[n].id /\ g.sock = file[n].sock /\ g.raw = file[n].raw
      /\ g.user = file[n].user /\ g.nonblock = file[n].nonblock
  BY <1>1 DEF Files
<1>3. file' = [file EXCEPT ![n] = g] /\ m_datas' = [m_datas EXCEPT ![n] = m_datas[n]]
  BY DEF ConnSet, KernelType
<1> HIDE DEF g
<1>4. n \notin rawClosed => Agree(g, m_datas[n])
  BY <1>1, <1>2 DEF Table, Agree
<1>5. /\ hook' \in BOOLEAN /\ opened' = opened /\ opened \in Nat /\ rawClosed' = rawClosed
      /\ m_datas[n] \in Ctxs \cup {NoCtx} /\ m_datas[n].id <= opened
      /\ g.id <= opened
  BY <1>1, <1>2 DEF ConnSet, KernelType
<1>6. Renews(n, g, m_datas[n])
  BY <1>2, <1>3, <1>4, <1>5 DEF Renews
<1> QED BY <1>6, NumberChanges

\* Every step keeps the table.
LEMMA TableStep ==
  ASSUME KernelType, Table, WaitType, LoopType, [Next]_vars
  PROVE  KernelType' /\ Table'
<1>1. CASE KernelSame /\ hook' \in BOOLEAN
  BY <1>1 DEF KernelSame, KernelType, Table
<1>2. CASE OpensOne /\ UNCHANGED hook
  BY <1>2, OpenKeepsTable DEF OpensOne
<1>15. CASE TakesError /\ UNCHANGED hook
  BY <1>15, ConnKeepsTable DEF TakesError, ConnSet
<1>3. ASSUME NEW n \in Nums, Socket(n) PROVE KernelType' /\ Table'
  BY <1>3, OpenKeepsTable, BareKeepsTable DEF Socket
<1>4. ASSUME NEW n \in Nums, OpenOther(n) PROVE KernelType' /\ Table'
  BY <1>4, BareKeepsTable DEF OpenOther
<1>5. ASSUME NEW n \in Nums, NEW ev \in Evs, SetTimeout(n, ev) PROVE KernelType' /\ Table'
  <2> DEFINE x == [m_datas[n] EXCEPT !.timed[ev] = TRUE]
  <2>1. CASE hook /\ m_datas[n] # NoCtx
    <3>1. x \in Ctxs /\ x.id = m_datas[n].id /\ x.user = m_datas[n].user
      BY <2>1 DEF KernelType, Ctxs
    <3>2. m_datas' = [m_datas EXCEPT ![n] = x] /\ UNCHANGED <<hook, file, opened, rawClosed>>
      BY <1>5, <2>1 DEF SetTimeout, kernelVars, KernelType
    <3> HIDE DEF x
    <3>3. x # NoCtx /\ x.id <= opened /\ file[n].id <= opened /\ file[n].id \in Nat
      BY <2>1, <3>1, Absent DEF KernelType
    <3>4. n \notin rawClosed => Agree(file[n], x)
      BY <2>1, <3>1, <3>3 DEF Table, Agree
    <3>5. file = [file EXCEPT ![n] = file[n]] /\ file[n] \in Files \cup {NoFile}
      BY DEF KernelType
    <3>6. Renews(n, file[n], x)
      BY <3>1, <3>2, <3>3, <3>4, <3>5 DEF Renews, KernelType
    <3> QED BY <3>6, NumberChanges
  <2>2. CASE ~(hook /\ m_datas[n] # NoCtx)
    BY <1>1, <1>5, <2>2 DEF SetTimeout, kernelVars, KernelSame, KernelType
  <2> QED BY <2>1, <2>2
<1>6. ASSUME NEW n \in Nums, NEW b \in BOOLEAN, SetFlag(n, b) \/ Ioctl(n, b)
      PROVE  KernelType' /\ Table'
  BY <1>6, FlagsKeepTable
<1>7. ASSUME NEW n \in Nums, Close(n) PROVE KernelType' /\ Table'
  BY <1>7, CloseKeepsTable
<1>8. ASSUME NEW n \in Nums, NEW op \in IoOps, NEW ok \in BOOLEAN, DoIo(op, n, ok)
      PROVE  KernelType' /\ Table'
  <2>1. \A timed : Call(op, n, timed).num = n
    BY DEF Call
  <2>2. (KernelSame \/ OpensOne \/ TakesError) /\ UNCHANGED hook
    BY <1>8, <2>1, AttemptKernel DEF DoIo
  <2> QED BY <1>1, <1>2, <1>15, <2>2 DEF KernelType
<1>9. ASSUME NEW ok \in BOOLEAN, Resumed(ok) PROVE KernelType' /\ Table'
  <2>1. call[cur].num \in Nums
    BY <1>9 DEF Resumed, WaitType, LoopType, CallRecords
  <2>2. (KernelSame \/ OpensOne \/ TakesError) /\ UNCHANGED hook
    BY <1>9, <2>1, AttemptKernel, TellingKernel DEF Resumed, KernelSame
  <2> QED BY <1>1, <1>2, <1>15, <2>2 DEF KernelType
<1>10. ASSUME NEW n \in Nums, NEW timed \in BOOLEAN, NEW ok \in BOOLEAN, Connect(n, timed, ok)
       PROVE  KernelType' /\ Table'
  <2>1. \/ (KernelSame \/ TakesError) /\ UNCHANGED hook
        \/ ConnSet(n, "pending")
    BY <1>10, TellingKernel DEF Connect, Waits, KernelSame, kernelVars, ConnSet
  <2> QED BY <1>1, <1>15, <2>1, ConnKeepsTable DEF KernelType
<1>11. ASSUME NEW n \in Nums, NEW outcome \in {"yes", "refused"}, Decide(n, outcome)
       PROVE  KernelType' /\ Table'
  <2>1. ConnSet(n, outcome)
    BY <1>11 DEF Decide, ConnSet
  <2> QED BY <2>1, ConnKeepsTable
<1>12. CASE SetHookEnable \/ Sleep \/ (\E n \in Nums : GetFlag(n))
  BY <1>1, <1>12 DEF SetHookEnable, Sleep, GetFlag, KernelSame, KernelType, kernelVars
<1>13. CASE TakeFiber \/ TakeWake \/ TakeTimer \/ Finish \/ GoIdle \/ ToEvents \/ IdleSwapOut
  BY <1>1, <1>13 DEF TakeFiber, TakeWake, TakeTimer, Finish, GoIdle, ToEvents, IdleSwapOut,
     KernelSame, KernelType, kernelVars
<1>14. CASE \/ \E f \in Fibers, i \in 1 .. MaxCalls : Expire(<<f, i>>)
            \/ \E f \in Fibers : ExpireSleep(f)
            \/ EventStep
            \/ UNCHANGED vars
  BY <1>1, <1>14 DEF Expire, ExpireSleep, EventStep, HandleEvent, vars, KernelSame, KernelType,
     kernelVars
<1> QED BY <1>1, <1>2, <1>3, <1>4, <1>5, <1>6, <1>7, <1>8, <1>9, <1>10, <1>11, <1>12, <1>13, <1>14
        DEF Next, User, Loop, EventStep, KernelType
-----------------------------------------------------------------------------
\* The items of the queue.
LEMMA ItemTypes ==
  ASSUME NEW f \in Fibers
  PROVE  /\ FiberItem(f) \in Items /\ FiberItem(f).kind = "fiber" /\ FiberItem(f).fiber = f
         /\ WakeItem(f) \in Items /\ WakeItem(f).kind = "wake" /\ WakeItem(f).fiber = f
         /\ \A i \in Nat \ {0} : TimerItem(f, i) \in Items /\ TimerItem(f, i).kind = "timer"
BY DEF FiberItem, WakeItem, TimerItem, Items

\* The fibres of a queue that grows.
LEMMA QueueGrows ==
  ASSUME NEW q \in Seq(Items), NEW s \in Seq(Items)
  PROVE  /\ q \o s \in Seq(Items)
         /\ Queued(q \o s) = Queued(q) \cup Queued(s)
         /\ OnceIn(q) /\ OnceIn(s) /\ Queued(q) \cap Queued(s) = {} => OnceIn(q \o s)
<1>1. /\ q \o s \in Seq(Items) /\ Len(q) \in Nat /\ Len(s) \in Nat
      /\ DOMAIN (q \o s) = 1 .. Len(q) + Len(s)
      /\ DOMAIN q = 1 .. Len(q) /\ DOMAIN s = 1 .. Len(s)
      /\ \A i \in 1 .. Len(q) + Len(s) :
           (q \o s)[i] = IF i <= Len(q) THEN q[i] ELSE s[i - Len(q)]
  BY ConcatProperties, LenProperties
<1>2. ASSUME NEW i \in DOMAIN (q \o s)
      PROVE  \/ i \in DOMAIN q /\ (q \o s)[i] = q[i]
             \/ i - Len(q) \in DOMAIN s /\ (q \o s)[i] = s[i - Len(q)] /\ i > Len(q)
  BY <1>1
<1>3. ASSUME NEW i \in DOMAIN q PROVE i \in DOMAIN (q \o s) /\ (q \o s)[i] = q[i]
  BY <1>1
<1>4. ASSUME NEW i \in DOMAIN s
      PROVE  Len(q) + i \in DOMAIN (q \o s) /\ (q \o s)[Len(q) + i] = s[i]
  BY <1>1
<1>5. Queued(q \o s) = Queued(q) \cup Queued(s)
  <2>1. Queued(q \o s) \subseteq Queued(q) \cup Queued(s)
    BY <1>2 DEF Queued
  <2>2. Queued(q) \subseteq Queued(q \o s)
    BY <1>3 DEF Queued
  <2>3. Queued(s) \subseteq Queued(q \o s)
    BY <1>4 DEF Queued
  <2> QED BY <2>1, <2>2, <2>3
<1>6. ASSUME OnceIn(q), OnceIn(s), Queued(q) \cap Queued(s) = {},
             NEW i \in DOMAIN (q \o s), NEW j \in DOMAIN (q \o s),
             (q \o s)[i].kind # "timer", (q \o s)[j].kind # "timer",
             (q \o s)[i].fiber = (q \o s)[j].fiber
      PROVE  i = j
  <2>1. CASE i \in DOMAIN q /\ j \in DOMAIN q
    BY <1>3, <1>6, <2>1 DEF OnceIn
  <2>2. CASE i > Len(q) /\ j > Len(q)
    <3>1. /\ i - Len(q) \in DOMAIN s /\ (q \o s)[i] = s[i - Len(q)]
          /\ j - Len(q) \in DOMAIN s /\ (q \o s)[j] = s[j - Len(q)]
      BY <1>1, <2>2
    <3>2. i - Len(q) = j - Len(q)
      BY <1>6, <3>1 DEF OnceIn
    <3> QED BY <1>1, <3>2
  <2>3. ASSUME NEW k \in DOMAIN q, NEW l \in DOMAIN s,
               q[k].kind # "timer", s[l].kind # "timer"
        PROVE  q[k].fiber # s[l].fiber
    BY <1>6, <2>3 DEF Queued
  <2> QED BY <1>1, <1>2, <1>6, <2>1, <2>2, <2>3
<1> QED BY <1>1, <1>5, <1>6 DEF OnceIn

\* The fibres of a queue whose head is taken.
LEMMA QueueShrinks ==
  ASSUME NEW q \in Seq(Items), q # <<>>, OnceIn(q)
  PROVE  /\ Head(q) \in Items /\ Tail(q) \in Seq(Items) /\ OnceIn(Tail(q))
         /\ Head(q).kind = "timer" => Queued(Tail(q)) = Queued(q)
         /\ Head(q).kind # "timer" =>
              /\ Head(q).fiber \in Queued(q)
              /\ Queued(Tail(q)) = Queued(q) \ {Head(q).fiber}
<1>1. /\ Head(q) \in Items /\ Tail(q) \in Seq(Items) /\ Len(Tail(q)) = Len(q) - 1
      /\ \A i \in 1 .. Len(Tail(q)) : Tail(q)[i] = q[i + 1]
      /\ DOMAIN q = 1 .. Len(q) /\ DOMAIN Tail(q) = 1 .. Len(Tail(q))
      /\ Len(q) \in Nat /\ Len(q) >= 1 /\ Head(q) = q[1]
  BY HeadTailProperties, LenProperties, EmptySeq
<1>2. ASSUME NEW i \in DOMAIN Tail(q) PROVE i + 1 \in DOMAIN q /\ Tail(q)[i] = q[i + 1]
  BY <1>1
<1>3. ASSUME NEW i \in DOMAIN q, i # 1
      PROVE  i - 1 \in DOMAIN Tail(q) /\ Tail(q)[i - 1] = q[i]
  BY <1>1, <1>3
<1>4. OnceIn(Tail(q))
  <2> SUFFICES ASSUME NEW i \in DOMAIN Tail(q), NEW j \in DOMAIN Tail(q),
                      Tail(q)[i].kind # "timer", Tail(q)[j].kind # "timer",
                      Tail(q)[i].fiber = Tail(q)[j].fiber
               PROVE  i = j
    BY DEF OnceIn
  <2>1. i + 1 = j + 1
    BY <1>2 DEF OnceIn
  <2> QED BY <1>1, <2>1
<1>5. Queued(Tail(q)) \subseteq Queued(q)
  BY <1>2 DEF Queued
<1>6. ASSUME NEW f \in Queued(q) PROVE f \in Queued(Tail(q)) \/ (f = q[1].fiber /\ q[1].kind # "timer")
  BY <1>3 DEF Queued
<1>7. 1 \in DOMAIN q
  BY <1>1
<1>8. ASSUME q[1].kind # "timer", q[1].fiber \in Queued(Tail(q)) PROVE FALSE
  <2>1. PICK i \in DOMAIN Tail(q) : Tail(q)[i].kind # "timer" /\ Tail(q)[i].fiber = q[1].fiber
    BY <1>8 DEF Queued
  <2>2. i + 1 = 1
    BY <1>2, <1>7, <1>8, <2>1 DEF OnceIn
  <2> QED BY <1>1, <2>2
<1>9. q[1].kind # "timer" => q[1].fiber \in Queued(q)
  BY <1>7 DEF Queued
<1> QED BY <1>1, <1>4, <1>5, <1>6, <1>8, <1>9

\* A queue of one item.
LEMMA QueueOfOne ==
  ASSUME NEW it \in Items
  PROVE  /\ <<it>> \in Seq(Items) /\ OnceIn(<<it>>)
         /\ Queued(<<it>>) = IF it.kind = "timer" THEN {} ELSE {it.fiber}
BY DEF Queued, OnceIn

LEMMA QueueOfFiber ==
  ASSUME NEW f \in Fibers
  PROVE  /\ <<FiberItem(f)>> \in Seq(Items) /\ OnceIn(<<FiberItem(f)>>)
         /\ Queued(<<FiberItem(f)>>) = {f}
<1>1. /\ FiberItem(f) \in Items /\ FiberItem(f).kind = "fiber" /\ FiberItem(f).fiber = f
  BY ItemTypes
<1> QED BY <1>1, QueueOfOne

LEMMA QueueOfNone == <<>> \in Seq(Items) /\ OnceIn(<<>>) /\ Queued(<<>>) = {}
BY DEF Queued, OnceIn
-----------------------------------------------------------------------------
\* What a call of the running fibre comes to: it is suspended, it returns, or the
\* process ends.
Stays == UNCHANGED <<phase, queue, cur, events, ctx, sleepers>>

Suspends(c) ==
  /\ PairOf(c) \notin events /\ ctx[PairOf(c)] = NoWait
  /\ events' = events \cup {PairOf(c)}
  /\ ctx' = [ctx EXCEPT ![PairOf(c)] = [fiber |-> cur, id |-> file[c.num].id]]
  /\ call' = [call EXCEPT ![cur] = c]
  /\ cur' = None
  /\ armed' = IF c.timed THEN armed \cup {<<cur, c.id>>} ELSE armed
  /\ UNCHANGED <<halt, phase, queue, sleepers, ret>>

ComesBack(c) ==
  /\ Stays
  /\ call' = [call EXCEPT ![cur] = NoCall]
  /\ \/ armed' = armed
     \/ armed' = WithoutTimer(IF c.timed THEN armed \cup {<<cur, c.id>>} ELSE armed, cur)
  /\ UNCHANGED halt

Dies(c) ==
  /\ Stays
  /\ halt' \in {"blocked", "iomanager.cpp:111", "iomanager.cpp:131"}
  /\ armed' = armed \/ armed' = IF c.timed THEN armed \cup {<<cur, c.id>>} ELSE armed
  /\ UNCHANGED call

Outcome(c) == Suspends(c) \/ ComesBack(c) \/ Dies(c)

LEMMA WaitsOutcome ==
  ASSUME NEW c, NEW ok, Waits(c, ok)
  PROVE  Outcome(c)
BY DEF Waits, Finishes, Outcome, Suspends, ComesBack, Dies, Stays, PairOf, loopVars, eventVars

LEMMA AttemptOutcome ==
  ASSUME NEW c, NEW plain, NEW ok, Attempt(c, plain, ok)
  PROVE  /\ Outcome(c) /\ (Suspends(c) => file[c.num] # NoFile /\ KernelSame /\ ~plain)
         /\ opened' = opened \/ (opened' = opened + 1 /\ ComesBack(c))
<1>1. CASE Waits(c, ok) /\ ~plain /\ UNCHANGED kernelVars /\ "again" \in Answers(c.num)
  BY <1>1, WaitsOutcome DEF Waits, kernelVars, KernelSame, Answers
<1>2. CASE Transfers(c)
  <2>1. ComesBack(c) /\ cur' = cur /\ events' = events
    BY <1>2 DEF Transfers, Finishes, ComesBack, Stays, loopVars, eventVars, timerVars
  <2>2. opened' = opened \/ opened' = opened + 1
    BY <1>2 DEF Transfers, Accepted, OpenWithCtx, kernelVars
  <2>3. ~Suspends(c)
    BY <2>1 DEF Suspends
  <2> QED BY <2>1, <2>2, <2>3 DEF Outcome
<1> QED BY <1>1, <1>2 DEF Attempt, Finishes, Outcome, ComesBack, Dies, Suspends, Stays,
           loopVars, eventVars, timerVars, kernelVars

\* The running fibre makes the call c or goes on with it.
InHand(c) ==
  /\ halt = "no" /\ cur \in Fibers /\ c \in CallRecords
  /\ \/ /\ call[cur] = NoCall
        /\ calls' = calls + 1 /\ c.id = calls + 1 /\ calls' \in 1 .. MaxCalls
        /\ c.cancelled = FALSE /\ c.file = file[c.num].id
     \/ /\ call[cur] # NoCall /\ c = call[cur] /\ calls' = calls

LEMMA CallType ==
  ASSUME KernelType, WaitType, LoopType, NEW op \in IoOps \cup {"connect"}, NEW n \in Nums,
         NEW timed \in BOOLEAN, Makes(op)
  PROVE  /\ InHand(Call(op, n, timed)) /\ call[cur] = NoCall
         /\ Call(op, n, timed).op = op /\ Call(op, n, timed).num = n
<1> DEFINE c == Call(op, n, timed)
<1>1. /\ halt = "no" /\ cur \in Fibers /\ call[cur] = NoCall
      /\ calls' = calls + 1 /\ calls + 1 \in 1 .. MaxCalls
  BY HookAssumption DEF Makes, LoopType, WaitType
<1>2. EventOf(op) \in Evs /\ file[n].id \in Nat /\ calls + 1 \in Nat \ {0}
  BY <1>1, Absent DEF EventOf, Evs, KernelType
<1>3. c \in CallRecords
  BY <1>2 DEF Call, CallRecords
<1>4. /\ c.id = calls + 1 /\ c.cancelled = FALSE /\ c.num = n /\ c.op = op
      /\ c.file = file[n].id
  BY DEF Call
<1> QED BY <1>1, <1>3, <1>4 DEF InHand

\* The call c is hooked: its socket has a context, and keeps it while the call is
\* suspended; a connection has begun.
Hooked(c) ==
  /\ file[c.num] # NoFile /\ m_datas[c.num] # NoCtx
  /\ UNCHANGED <<m_datas, rawClosed>> /\ file'[c.num].id = file[c.num].id
  /\ c.op = "connect" => file'[c.num].conn = "pending"

\* What the hooked calls are, seen from the loop.
CallStep(c) ==
  /\ InHand(c) /\ Outcome(c)
  /\ Suspends(c) /\ call[cur] = NoCall => Hooked(c)
  /\ opened' = opened \/ (opened' = opened + 1 /\ ComesBack(c))

LEMMA CallSteps ==
  ASSUME KernelType, WaitType, LoopType,
         \/ \E n \in Nums, op \in IoOps, ok \in BOOLEAN : DoIo(op, n, ok)
         \/ \E n \in Nums, timed, ok \in BOOLEAN : Connect(n, timed, ok)
         \/ \E ok \in BOOLEAN : Resumed(ok)
  PROVE  \E c : CallStep(c)
<1>1. ASSUME NEW n \in Nums, NEW op \in IoOps, NEW ok \in BOOLEAN, DoIo(op, n, ok)
      PROVE  \E c : CallStep(c)
  <2> DEFINE timed == ~Plain(n) /\ m_datas[n].timed[EventOf(op)]
             c == Call(op, n, timed)
  <2>1. timed \in BOOLEAN
    OBVIOUS
  <2>2. Makes(op) /\ Attempt(c, Plain(n), ok)
    BY <1>1 DEF DoIo
  <2> HIDE DEF timed
  <2>3. InHand(c) /\ c.op = op /\ c.num = n
    BY <2>1, <2>2, CallType
  <2> HIDE DEF c
  <2>4. /\ Outcome(c) /\ (Suspends(c) => file[c.num] # NoFile /\ KernelSame /\ ~Plain(n))
        /\ opened' = opened \/ (opened' = opened + 1 /\ ComesBack(c))
    BY <2>2, AttemptOutcome
  <2>5. Suspends(c) => Hooked(c)
    BY <2>3, <2>4 DEF Hooked, KernelSame, Plain, IsSocketCtx, IoOps
  <2> QED BY <2>3, <2>4, <2>5 DEF CallStep
<1>2. ASSUME NEW n \in Nums, NEW timed \in BOOLEAN, NEW ok \in BOOLEAN, Connect(n, timed, ok)
      PROVE  \E c : CallStep(c)
  <2> DEFINE c == Call("connect", n, timed)
  <2>1. InHand(c) /\ c.num = n
    BY <1>2, CallType DEF Connect
  <2>2. opened' = opened
    BY <1>2 DEF Connect, kernelVars
  <2>3. \/ \E res : Finishes(c, res, FALSE) /\ UNCHANGED <<halt, loopVars, eventVars, timerVars>>
        \/ halt' = "blocked" /\ UNCHANGED <<loopVars, eventVars, timerVars, call>>
        \/ /\ Waits(c, ok) /\ ~Plain(n)
           /\ file' = [file EXCEPT ![n].conn = "pending"] /\ file[n] # NoFile
           /\ UNCHANGED rawClosed
    BY <1>2 DEF Connect
  <2> HIDE DEF c
  <2>4. Outcome(c)
    BY <2>3, WaitsOutcome DEF Finishes, Outcome, ComesBack, Dies, Stays,
       loopVars, eventVars, timerVars
  <2>5. ASSUME Suspends(c) PROVE Hooked(c)
    <3>1. /\ Waits(c, ok) /\ ~Plain(n) /\ UNCHANGED rawClosed
          /\ file' = [file EXCEPT ![n].conn = "pending"] /\ file[n] # NoFile
      BY <2>3, <2>5 DEF Suspends, loopVars, eventVars
    <3>2. file[n] \in Files /\ UNCHANGED m_datas /\ m_datas[n] # NoCtx
      BY <3>1 DEF KernelType, Waits, Plain, IsSocketCtx
    <3>3. file'[n].id = file[n].id /\ file'[n].conn = "pending"
      BY <3>1, <3>2 DEF KernelType, Files
    <3> QED BY <2>1, <3>1, <3>2, <3>3 DEF Hooked
  <2> QED BY <2>1, <2>2, <2>4, <2>5 DEF CallStep
<1>3. ASSUME NEW ok \in BOOLEAN, Resumed(ok) PROVE \E c : CallStep(c)
  <2> DEFINE c == call[cur]
  <2>1. InHand(c) /\ call[cur] # NoCall
    BY <1>3 DEF Resumed, InHand, WaitType, LoopType
  <2>2. \/ /\ \E res : Finishes(c, res, FALSE)
           /\ UNCHANGED <<halt, loopVars, eventVars, timerVars, opened>>
        \/ Attempt(c, FALSE, ok)
    BY <1>3 DEF Resumed, kernelVars
  <2> HIDE DEF c
  <2>3. Outcome(c) /\ (opened' = opened \/ (opened' = opened + 1 /\ ComesBack(c)))
    BY <2>2, AttemptOutcome DEF Finishes, Outcome, ComesBack, Stays,
       loopVars, eventVars, timerVars
  <2> QED BY <2>1, <2>3 DEF CallStep
<1> QED BY <1>1, <1>2, <1>3

\* A context is filled once, so a call that was suspended is not suspended again.
LEMMA SuspendsOnce ==
  ASSUME KernelType, WaitType, LoopType, Owners, NEW c, InHand(c), Suspends(c)
  PROVE  /\ call[cur] = NoCall /\ calls' = calls + 1 /\ c.id = calls + 1
         /\ c.id \in 1 .. MaxCalls /\ c.cancelled = FALSE /\ c.file = file[c.num].id
         /\ PairOf(c) \in Nums \X Evs
<1>1. PairOf(c) \in Nums \X Evs
  BY DEF InHand, CallRecords, PairOf
<1>2. ASSUME call[cur] # NoCall, c = call[cur] PROVE FALSE
  BY <1>2, HookAssumption DEF Suspends, Owners, InHand, NoWait
<1> QED BY <1>1, <1>2 DEF InHand

\* The fibres that the pairs S wake.
FibersOf(S) == {ctx[p].fiber : p \in S}

LEMMA WokenItems ==
  ASSUME WaitType, Owners, NEW n \in Nums, NEW S, S \subseteq events, \A p \in S : p[1] = n
  PROVE  /\ Woken(S, n) \in Seq(Items) /\ OnceIn(Woken(S, n))
         /\ Queued(Woken(S, n)) = FibersOf(S)
<1> DEFINE a == <<n, "READ">>  b == <<n, "WRITE">>
           r == IF a \in S THEN <<FiberItem(ctx[a].fiber)>> ELSE <<>>
           w == IF b \in S THEN <<FiberItem(ctx[b].fiber)>> ELSE <<>>
<1>1. \A p \in S : (p = a \/ p = b) /\ ctx[p].fiber \in Fibers /\ p = PairOf(call[ctx[p].fiber])
  BY DEF WaitType, Evs, Owners
<1>2. /\ r \in Seq(Items) /\ OnceIn(r)
      /\ Queued(r) = IF a \in S THEN {ctx[a].fiber} ELSE {}
  <2>1. CASE a \in S
    BY <1>1, <2>1, QueueOfFiber
  <2>2. CASE a \notin S
    BY <2>2, QueueOfNone
  <2> QED BY <2>1, <2>2
<1>3. /\ w \in Seq(Items) /\ OnceIn(w)
      /\ Queued(w) = IF b \in S THEN {ctx[b].fiber} ELSE {}
  <2>1. CASE b \in S
    BY <1>1, <2>1, QueueOfFiber
  <2>2. CASE b \notin S
    BY <2>2, QueueOfNone
  <2> QED BY <2>1, <2>2
<1>4. Woken(S, n) = r \o w
  BY DEF Woken
<1>5. a # b
  OBVIOUS
<1> HIDE DEF a, b, r, w
<1>6. a \in S /\ b \in S => ctx[a].fiber # ctx[b].fiber
  BY <1>1, <1>5
<1>7. Queued(r) \cap Queued(w) = {}
  BY <1>2, <1>3, <1>6
<1>8. /\ r \o w \in Seq(Items) /\ OnceIn(r \o w)
      /\ Queued(r \o w) = Queued(r) \cup Queued(w)
  BY <1>2, <1>3, <1>7, QueueGrows
<1>9. Queued(r) \cup Queued(w) = FibersOf(S)
  BY <1>1, <1>2, <1>3 DEF FibersOf
<1> QED BY <1>4, <1>8, <1>9

\* Fibres that move from the events to the queue.
Moves(S, q, w) ==
  /\ S \subseteq events
  /\ q \in Seq(Items) /\ OnceIn(q) /\ Queued(q) = Queued(queue)
  /\ w \in Seq(Items) /\ OnceIn(w) /\ Queued(w) = FibersOf(S)
  /\ queue' = q \o w
  /\ events' = events \ S
  /\ UNCHANGED <<ctx, cur, sleepers>>

LEMMA WakeKeepsTokens ==
  ASSUME LoopType, WaitType, Owners, Tokens, NEW S, NEW q, NEW w, Moves(S, q, w)
  PROVE  queue' \in Seq(Items) /\ Tokens'
<1>1. FibersOf(S) \subseteq Waiting
  BY DEF FibersOf, Waiting, Moves
<1>2. Waiting' = Waiting \ FibersOf(S)
  <2>1. Waiting' = {ctx[p].fiber : p \in events \ S}
    BY DEF Waiting, Moves
  <2>2. \A p \in events : p = PairOf(call[ctx[p].fiber])
    BY DEF Owners
  <2>3. S \subseteq events
    BY DEF Moves
  <2> QED BY <2>1, <2>2, <2>3 DEF Waiting, FibersOf
<1>3. /\ q \o w \in Seq(Items) /\ OnceIn(q \o w)
      /\ Queued(q \o w) = Queued(queue) \cup FibersOf(S)
  BY <1>1, QueueGrows DEF Moves, Tokens
<1>4. queue' = q \o w /\ cur' = cur /\ sleepers' = sleepers
  BY DEF Moves
<1> QED BY <1>1, <1>2, <1>3, <1>4 DEF Tokens
-----------------------------------------------------------------------------
\* What a step is to the fibres and the events.
Quiet == /\ UNCHANGED <<halt, queue, cur, events, ctx, armed, sleepers, call>>
         /\ phase' \in {phase, "run", "timers", "events"}
Wakes(n, S) == /\ halt = "no" /\ S \subseteq events /\ \A p \in S : p[1] = n
               /\ Close(n) \/ (KernelSame /\ file[n].conn # "pending")
               /\ events' = events \ S /\ queue' = queue \o Woken(S, n)
               /\ UNCHANGED <<halt, phase, cur, ctx, armed, sleepers, call>>
Aborts == /\ halt = "no" /\ halt' = "iomanager.cpp:37"
          /\ UNCHANGED <<hook, kernelVars, m_datas, loopVars, eventVars, timerVars,
                         call, calls, ret>>
GoesToSleep == /\ halt = "no" /\ cur # None /\ call[cur] = NoCall
               /\ sleepers' = sleepers \cup {cur} /\ cur' = None
               /\ UNCHANGED <<halt, phase, queue, events, ctx, armed, call>>

LEMMA StepShape ==
  ASSUME KernelType, WaitType, LoopType, [Next]_vars
  PROVE  \/ Quiet \/ GoesToSleep \/ Finish \/ Aborts
         \/ TakeFiber \/ TakeWake \/ TakeTimer
         \/ \E c : CallStep(c)
         \/ \E n \in Nums, S \in SUBSET events : Wakes(n, S)
         \/ \E f \in Fibers, i \in 1 .. MaxCalls : Expire(<<f, i>>)
         \/ \E f \in Fibers : ExpireSleep(f)
<1> USE DEF loopVars, eventVars, timerVars
<1>1. CASE \/ SetHookEnable \/ GoIdle \/ ToEvents \/ IdleSwapOut \/ UNCHANGED vars
           \/ \E n \in Nums, outcome \in {"yes", "refused"} : Decide(n, outcome)
  BY <1>1 DEF SetHookEnable, GoIdle, ToEvents, IdleSwapOut, vars, Decide, Quiet
<1>2. ASSUME NEW n \in Nums,
             \/ Socket(n) \/ OpenOther(n) \/ GetFlag(n)
             \/ \E b \in BOOLEAN : SetFlag(n, b) \/ Ioctl(n, b)
             \/ \E ev \in Evs : SetTimeout(n, ev)
      PROVE  Quiet
  BY <1>2 DEF Socket, OpenOther, GetFlag, SetFlag, Ioctl, SetTimeout, ReturnsAtOnce, Quiet
<1>3. CASE Sleep
  BY <1>3 DEF Sleep, Makes, Quiet, GoesToSleep
<1>4. ASSUME NEW n \in Nums, Close(n) PROVE Quiet \/ \E S \in SUBSET events : Wakes(n, S)
  <2>1. CASE hook /\ m_datas[n] # NoCtx
    <3>1. Cancelled(n) \in SUBSET events /\ \A p \in Cancelled(n) : p[1] = n
      BY DEF Cancelled
    <3>2. Wakes(n, Cancelled(n))
      BY <1>4, <2>1, <3>1 DEF Close, Wakes, Makes
    <3> QED BY <3>1, <3>2
  <2>2. CASE ~(hook /\ m_datas[n] # NoCtx)
    BY <1>4, <2>2 DEF Close, Quiet
  <2> QED BY <2>1, <2>2
<1>5. ASSUME NEW n \in Nums, NEW err \in BOOLEAN, NEW on \in SUBSET ({n} \X Evs),
             HandleEvent(n, on, err)
      PROVE  Aborts \/ \E S \in SUBSET events : Wakes(n, S)
  <2> DEFINE S == IF err THEN {n} \X Evs ELSE on
  <2>1. \A p \in S : p[1] = n
    OBVIOUS
  <2>2. CASE S \subseteq events
    BY <1>5, <2>1, <2>2 DEF HandleEvent, Wakes, KernelSame, kernelVars
  <2>3. CASE ~(S \subseteq events)
    BY <1>5, <2>3 DEF HandleEvent, Aborts
  <2> QED BY <2>2, <2>3
<1> QED BY <1>1, <1>2, <1>3, <1>4, <1>5, CallSteps DEF Next, User, Loop

\* Calls are counted.
LEMMA CallsGrow ==
  ASSUME WaitType, [Next]_vars
  PROVE  calls' \in 0 .. MaxCalls /\ calls <= calls'
<1>1. CASE calls' = calls
  BY <1>1, HookAssumption DEF WaitType
<1>2. CASE calls < MaxCalls /\ calls' = calls + 1
  BY <1>2, HookAssumption DEF WaitType
<1>3. CASE User
  <2>1. \E op : Makes(op)
    BY <1>3 DEF User, SetHookEnable, Sleep, Socket, OpenOther, GetFlag, Close, SetFlag,
       Ioctl, SetTimeout, DoIo, Connect
  <2> QED BY <1>2, <2>1 DEF Makes
<1> QED BY <1>1, <1>3 DEF Next, Loop, TakeFiber, TakeWake, TakeTimer, Resumed, Finish, GoIdle,
        ToEvents, IdleSwapOut, Expire, ExpireSleep, EventStep, HandleEvent, Decide, vars

\* The fibres of the queue, and those that wait.
LEMMA PlacesAreFibers ==
  ASSUME LoopType, WaitType, Owners
  PROVE  /\ Queued(queue) \subseteq Fibers /\ Waiting \subseteq Fibers
         /\ None \notin Queued(queue) \cup sleepers \cup Waiting
<1>1. ASSUME NEW i \in DOMAIN queue PROVE queue[i].fiber \in Fibers
  <2>1. queue[i] \in Items
    BY ElementOfSeq, LenProperties DEF LoopType
  <2> QED BY <2>1 DEF Items
<1> QED BY <1>1, HookAssumption DEF Queued, Waiting, Owners, LoopType

\* Every step leaves each fibre in one place.
LEMMA LoopStep ==
  ASSUME KernelType, LoopType, WaitType, Owners, Tokens, [Next]_vars
  PROVE  LoopType' /\ Tokens'
<1>1. CASE Quiet
  BY <1>1 DEF Quiet, LoopType, Tokens, Waiting
<1>2. CASE GoesToSleep
  <2>1. Waiting' = Waiting /\ cur \in Fibers
    BY <1>2 DEF Waiting, GoesToSleep, LoopType
  <2> QED BY <1>2, <2>1, PlacesAreFibers DEF GoesToSleep, LoopType, Tokens
<1>3. CASE Finish
  <2>1. /\ Waiting' = Waiting /\ cur' = None
        /\ UNCHANGED <<halt, phase, queue, sleepers>>
    BY <1>3 DEF Waiting, Finish, eventVars, timerVars
  <2> QED BY <2>1, PlacesAreFibers DEF LoopType, Tokens
<1>4. CASE TakeFiber
  <2>1. /\ Waiting' = Waiting /\ cur' = Head(queue).fiber /\ queue # <<>> /\ queue' = Tail(queue)
        /\ Head(queue).kind = "fiber"
        /\ UNCHANGED <<halt, phase, sleepers>>
    BY <1>4 DEF Waiting, TakeFiber, eventVars
  <2>2. /\ Tail(queue) \in Seq(Items) /\ OnceIn(Tail(queue)) /\ Head(queue).fiber \in Fibers
        /\ Head(queue).fiber \in Queued(queue)
        /\ Queued(Tail(queue)) = Queued(queue) \ {Head(queue).fiber}
    BY <2>1, QueueShrinks DEF LoopType, Tokens, Items
  <2> QED BY <2>1, <2>2 DEF LoopType, Tokens
<1>5. CASE TakeWake
  <2> DEFINE f == Head(queue).fiber
  <2>1. /\ Waiting' = Waiting /\ queue # <<>> /\ Head(queue).kind = "wake"
        /\ queue' = Append(Tail(queue), FiberItem(f))
        /\ UNCHANGED <<halt, phase, cur, sleepers>>
    BY <1>5 DEF Waiting, TakeWake, eventVars, timerVars
  <2>2. /\ Tail(queue) \in Seq(Items) /\ OnceIn(Tail(queue)) /\ f \in Fibers
        /\ f \in Queued(queue)
        /\ Queued(Tail(queue)) = Queued(queue) \ {f}
    BY <2>1, QueueShrinks DEF LoopType, Tokens, Items
  <2> HIDE DEF f
  <2>3. Append(Tail(queue), FiberItem(f)) = Tail(queue) \o <<FiberItem(f)>>
    BY <2>2, ItemTypes
  <2>4. /\ queue' \in Seq(Items) /\ OnceIn(queue')
        /\ Queued(queue') = (Queued(queue) \ {f}) \cup {f}
    <3>1. /\ <<FiberItem(f)>> \in Seq(Items) /\ OnceIn(<<FiberItem(f)>>)
          /\ Queued(<<FiberItem(f)>>) = {f}
      BY <2>2, QueueOfFiber
    <3>2. Queued(Tail(queue)) \cap Queued(<<FiberItem(f)>>) = {}
      BY <2>2, <3>1
    <3> QED BY <2>1, <2>2, <2>3, <3>1, <3>2, QueueGrows
  <2> QED BY <2>1, <2>2, <2>4 DEF LoopType, Tokens
<1>6. CASE TakeTimer
  <2> DEFINE t == Head(queue)
             p == PairOf(call[t.fiber])
             w == <<FiberItem(ctx[p].fiber)>>
  <2>1. /\ queue # <<>> /\ t.kind = "timer"
        /\ UNCHANGED <<halt, phase, cur, ctx, sleepers>>
        /\ \/ events' = events /\ queue' = Tail(queue)
           \/ /\ p \in events /\ events' = events \ {p}
              /\ queue' = Append(Tail(queue), FiberItem(ctx[p].fiber))
    BY <1>6 DEF TakeTimer, PairOf, timerVars
  <2>2. /\ Tail(queue) \in Seq(Items) /\ OnceIn(Tail(queue))
        /\ Queued(Tail(queue)) = Queued(queue)
    BY <2>1, QueueShrinks DEF LoopType, Tokens
  <2> HIDE DEF t, p
  <2>3. CASE events' = events /\ queue' = Tail(queue)
    BY <2>1, <2>2, <2>3 DEF LoopType, Tokens, Waiting
  <2>4. CASE /\ p \in events /\ events' = events \ {p}
             /\ queue' = Append(Tail(queue), FiberItem(ctx[p].fiber))
    <3>1. ctx[p].fiber \in Fibers
      BY <2>4 DEF Owners
    <3>2. queue' = Tail(queue) \o w
      BY <2>2, <2>4, <3>1, ItemTypes
    <3>3. w \in Seq(Items) /\ OnceIn(w) /\ Queued(w) = {ctx[p].fiber}
      BY <3>1, QueueOfFiber
    <3> HIDE DEF w
    <3>4. Moves({p}, Tail(queue), w)
      BY <2>1, <2>2, <2>4, <3>2, <3>3 DEF Moves, FibersOf
    <3> QED BY <2>1, <3>4, WakeKeepsTokens DEF LoopType
  <2> QED BY <2>1, <2>3, <2>4
<1>7. ASSUME NEW c, CallStep(c) PROVE LoopType' /\ Tokens'
  <2>1. CASE Stays /\ (halt' = halt \/ halt' \in {"blocked", "iomanager.cpp:111", "iomanager.cpp:131"})
    BY <2>1 DEF Stays, LoopType, Tokens, Waiting
  <2>2. CASE Suspends(c)
    <3>1. /\ PairOf(c) \notin events /\ PairOf(c) \in Nums \X Evs /\ cur \in Fibers
          /\ events' = events \cup {PairOf(c)} /\ cur' = None
          /\ UNCHANGED <<halt, phase, queue, sleepers>>
          /\ ctx' = [ctx EXCEPT ![PairOf(c)] = [fiber |-> cur, id |-> file[c.num].id]]
      BY <1>7, <2>2, SuspendsOnce DEF CallStep, Suspends, InHand
    <3>2. ctx'[PairOf(c)].fiber = cur /\ \A p \in events : ctx'[p] = ctx[p]
      BY <3>1 DEF WaitType
    <3>3. Waiting' = Waiting \cup {cur}
      BY <3>1, <3>2 DEF Waiting
    <3>4. LoopType'
      BY <3>1 DEF LoopType
    <3>5. /\ queue' = queue /\ sleepers' = sleepers /\ cur' = None /\ Waiting' = Waiting \cup {cur}
      BY <3>1, <3>3
    <3>6. None \notin Queued(queue) \cup sleepers \cup Waiting /\ None # cur
      BY <3>1, PlacesAreFibers, HookAssumption
    <3> QED BY <3>4, <3>5, <3>6 DEF Tokens
  <2> QED BY <1>7, <2>1, <2>2 DEF CallStep, Outcome, ComesBack, Dies
<1>8. ASSUME NEW n \in Nums, NEW S \in SUBSET events, Wakes(n, S) PROVE LoopType' /\ Tokens'
  <2>1. /\ Woken(S, n) \in Seq(Items) /\ OnceIn(Woken(S, n))
        /\ Queued(Woken(S, n)) = FibersOf(S)
    BY <1>8, WokenItems DEF Wakes
  <2>2. Moves(S, queue, Woken(S, n))
    BY <1>8, <2>1 DEF Moves, Wakes, LoopType, Tokens
  <2> QED BY <1>8, <2>2, WakeKeepsTokens DEF LoopType, Wakes
<1>9. ASSUME NEW f \in Fibers, NEW i \in 1 .. MaxCalls, Expire(<<f, i>>)
      PROVE  LoopType' /\ Tokens'
  <2>1. /\ queue' = Append(queue, TimerItem(f, i)) /\ Waiting' = Waiting
        /\ UNCHANGED <<halt, phase, cur, sleepers>>
    BY <1>9 DEF Expire, Waiting, eventVars
  <2>2. TimerItem(f, i) \in Items /\ TimerItem(f, i).kind = "timer"
    BY ItemTypes, HookAssumption
  <2>3. queue' = queue \o <<TimerItem(f, i)>> /\ queue \in Seq(Items)
    BY <2>1, <2>2 DEF LoopType
  <2>4. /\ queue' \in Seq(Items) /\ Queued(queue') = Queued(queue) /\ OnceIn(queue')
    BY <2>2, <2>3, QueueOfOne, QueueGrows DEF Tokens
  <2> QED BY <2>1, <2>4 DEF LoopType, Tokens
<1>11. CASE Aborts
  BY <1>11 DEF Aborts, LoopType, Tokens, Waiting, loopVars, eventVars, timerVars
<1>10. ASSUME NEW f \in Fibers, ExpireSleep(f) PROVE LoopType' /\ Tokens'
  <2>1. /\ queue' = Append(queue, WakeItem(f)) /\ Waiting' = Waiting
        /\ f \in sleepers /\ sleepers' = sleepers \ {f}
        /\ UNCHANGED <<halt, phase, cur>>
    BY <1>10 DEF ExpireSleep, Waiting, eventVars
  <2>2. WakeItem(f) \in Items /\ WakeItem(f).kind = "wake" /\ WakeItem(f).fiber = f
    BY ItemTypes
  <2>3. queue' = queue \o <<WakeItem(f)>> /\ queue \in Seq(Items)
    BY <2>1, <2>2 DEF LoopType
  <2>4. f \notin Queued(queue)
    BY <2>1 DEF Tokens
  <2>5. /\ queue' \in Seq(Items) /\ Queued(queue') = Queued(queue) \cup {f} /\ OnceIn(queue')
    <3>1. /\ <<WakeItem(f)>> \in Seq(Items) /\ OnceIn(<<WakeItem(f)>>)
          /\ Queued(<<WakeItem(f)>>) = {f}
      BY <2>2, QueueOfOne
    <3>2. Queued(queue) \cap Queued(<<WakeItem(f)>>) = {}
      BY <2>4, <3>1
    <3> QED BY <2>3, <3>1, <3>2, QueueGrows DEF Tokens
  <2> QED BY <2>1, <2>5 DEF LoopType, Tokens
<1> QED BY <1>1, <1>2, <1>3, <1>4, <1>5, <1>6, <1>7, <1>8, <1>9, <1>10, <1>11, StepShape
-----------------------------------------------------------------------------
\* A step that registers and arms nothing and leaves the calls as they are, or marks
\* one as timed out.
Lighter == events' \subseteq events /\ armed' \subseteq armed /\ UNCHANGED ctx
Cancels(f) == /\ f \in Fibers /\ call[f] # NoCall /\ UNCHANGED <<cur, armed, halt>>
              /\ call' = [call EXCEPT ![f].cancelled = TRUE]

LEMMA CancelsCall ==
  ASSUME WaitType, NEW f, Cancels(f)
  PROVE  /\ call' \in [Fibers -> CallRecords \cup {NoCall}]
         /\ \A g \in Fibers : g # f => call'[g] = call[g]
         /\ call'[f] # NoCall
         /\ call'[f].id = call[f].id /\ call'[f].op = call[f].op /\ call'[f].num = call[f].num
         /\ call'[f].ev = call[f].ev /\ call'[f].file = call[f].file
         /\ call'[f].cancelled = TRUE
<1> DEFINE c == [call[f] EXCEPT !.cancelled = TRUE]
<1>1. call[f] \in CallRecords /\ call[f].id # 0
  BY Absent DEF Cancels, WaitType
<1>2. /\ c \in CallRecords /\ c.id = call[f].id /\ c.op = call[f].op /\ c.num = call[f].num
      /\ c.ev = call[f].ev /\ c.file = call[f].file /\ c.cancelled = TRUE
  BY <1>1 DEF CallRecords
<1>3. call' = [call EXCEPT ![f] = c]
  BY DEF Cancels, WaitType
<1> HIDE DEF c
<1>4. c # NoCall
  BY <1>1, <1>2, Absent
<1>5. f \in Fibers /\ call \in [Fibers -> CallRecords \cup {NoCall}]
  BY DEF Cancels, WaitType
<1>6. call'[f] = c /\ call' \in [Fibers -> CallRecords \cup {NoCall}]
  BY <1>2, <1>3, <1>5
<1> QED BY <1>2, <1>3, <1>4, <1>5, <1>6

LEMMA TimerShape ==
  ASSUME WaitType, LoopType, TakeTimer
  PROVE  Lighter /\ (UNCHANGED <<call, cur, armed, halt>> \/ \E f : Cancels(f))
<1> DEFINE t == Head(queue)
<1>1. t \in Items
  BY HeadTailProperties, EmptySeq DEF LoopType, TakeTimer
<1>2. CASE TimerFires(t)
  <2>1. t.fiber \in Fibers
    BY <1>1 DEF Items
  <2>2. call[t.fiber] # NoCall
    BY <1>1, <1>2 DEF TimerFires, NoCall, TakeTimer, Items
  <2> QED BY <1>2, <2>1, <2>2 DEF TakeTimer, Cancels, Lighter, timerVars
<1>3. CASE ~TimerFires(t)
  BY <1>3 DEF TakeTimer, Lighter, timerVars
<1> QED BY <1>2, <1>3

\* A suspended call is recorded with its context.
LEMMA SuspendsRecords ==
  ASSUME KernelType, WaitType, LoopType, Owners, NEW c, InHand(c), Suspends(c)
  PROVE  /\ events' = events \cup {PairOf(c)} /\ PairOf(c) \in Nums \X Evs
         /\ PairOf(c) \notin events
         /\ ctx' \in [Nums \X Evs -> ContextRecords]
         /\ ctx'[PairOf(c)].fiber = cur /\ ctx'[PairOf(c)].id = file[c.num].id
         /\ \A p \in Nums \X Evs : p # PairOf(c) => ctx'[p] = ctx[p]
         /\ call' \in [Fibers -> CallRecords \cup {NoCall}]
         /\ call'[cur] = c /\ c # NoCall /\ \A f \in Fibers : f # cur => call'[f] = call[f]
         /\ \A f \in Fibers : call[f] # NoCall => f # cur /\ PairOf(call[f]) # PairOf(c)
         /\ armed' \subseteq armed \cup {<<cur, c.id>>} /\ c.id \in 1 .. MaxCalls
         /\ cur \in Fibers /\ cur' = None /\ halt' = halt
<1>1. /\ call[cur] = NoCall /\ PairOf(c) \in Nums \X Evs /\ c.id \in 1 .. MaxCalls
  BY SuspendsOnce
<1>2. c \in CallRecords /\ cur \in Fibers /\ c # NoCall /\ c.num \in Nums
  BY <1>1, HookAssumption, Absent DEF InHand, CallRecords
<1>3. file[c.num].id \in Nat
  BY <1>2, Absent DEF KernelType
<1>4. [fiber |-> cur, id |-> file[c.num].id] \in ContextRecords
  BY <1>2, <1>3 DEF ContextRecords
<1>5. /\ ctx' \in [Nums \X Evs -> ContextRecords]
      /\ ctx'[PairOf(c)].fiber = cur /\ ctx'[PairOf(c)].id = file[c.num].id
      /\ \A p \in Nums \X Evs : p # PairOf(c) => ctx'[p] = ctx[p]
  BY <1>1, <1>4 DEF Suspends, WaitType
<1>6. /\ call' \in [Fibers -> CallRecords \cup {NoCall}]
      /\ call'[cur] = c /\ \A f \in Fibers : f # cur => call'[f] = call[f]
  BY <1>2 DEF Suspends, WaitType
<1>7. ctx[PairOf(c)].fiber = None
  BY DEF Suspends, NoWait
<1>8. \A f \in Fibers : call[f] # NoCall => f # cur /\ PairOf(call[f]) # PairOf(c)
  BY <1>1, <1>7, HookAssumption DEF Owners
<1> QED BY <1>1, <1>2, <1>5, <1>6, <1>8 DEF Suspends

LEMMA ComesBackClears ==
  ASSUME WaitType, LoopType, NEW c, InHand(c), ComesBack(c)
  PROVE  /\ call' \in [Fibers -> CallRecords \cup {NoCall}]
         /\ call'[cur] = NoCall /\ \A f \in Fibers : f # cur => call'[f] = call[f]
         /\ armed' \subseteq armed
         /\ cur \in Fibers /\ UNCHANGED <<events, ctx, cur, halt>>
<1>1. cur \in Fibers
  BY DEF InHand
<1>2. armed' \subseteq armed
  BY DEF ComesBack, WithoutTimer
<1>3. call' = [call EXCEPT ![cur] = NoCall] /\ UNCHANGED <<events, ctx, cur, halt>>
  BY DEF ComesBack, Stays
<1>4. call \in [Fibers -> CallRecords \cup {NoCall}]
  BY DEF WaitType
<1> QED BY <1>1, <1>2, <1>3, <1>4

\* The events, the contexts and the calls stay what they are to each other.
LEMMA WaitStep ==
  ASSUME KernelType, LoopType, WaitType, Owners, Tokens, [Next]_vars
  PROVE  WaitType' /\ Owners'
<1>1. calls' \in 0 .. MaxCalls /\ calls <= calls' /\ calls \in Nat /\ calls' \in Nat
  BY CallsGrow, HookAssumption DEF WaitType
<1>2. \A f \in Fibers : call[f].id \in Nat /\ call[f].id <= calls'
  BY <1>1, Absent DEF WaitType
<1>3. CASE Lighter /\ UNCHANGED call
  BY <1>1, <1>2, <1>3 DEF Lighter, WaitType, Owners
<1>4. ASSUME NEW f, Lighter, Cancels(f) PROVE WaitType' /\ Owners'
  <2>1. /\ call' \in [Fibers -> CallRecords \cup {NoCall}]
        /\ \A g \in Fibers : /\ call'[g].id = call[g].id /\ PairOf(call'[g]) = PairOf(call[g])
                             /\ call'[g] # NoCall <=> call[g] # NoCall
    <3>1. f \in Fibers /\ call[f] # NoCall
      BY <1>4 DEF Cancels
    <3> QED BY <1>4, <3>1, CancelsCall DEF PairOf
  <2>2. WaitType'
    BY <1>1, <1>2, <1>4, <2>1 DEF WaitType, Lighter
  <2>3. Owners'
    BY <1>4, <2>1 DEF Owners, Lighter
  <2> QED BY <2>2, <2>3
<1>5. ASSUME NEW c, CallStep(c) PROVE WaitType' /\ Owners'
  <2>1. InHand(c) /\ Outcome(c) /\ cur \in Fibers /\ c \in CallRecords
    BY <1>5 DEF CallStep, InHand
  <2>2. CASE Suspends(c)
    <3>1. c.id <= calls'
      <4>1. c.id = calls + 1 /\ calls' = calls + 1
        BY <2>1, <2>2, SuspendsOnce
      <4> QED BY <1>1, <4>1
    <3>2. WaitType'
      BY <1>1, <1>2, <2>1, <2>2, <3>1, SuspendsRecords DEF WaitType
    <3>3. ASSUME NEW f \in Fibers, call'[f] # NoCall PROVE ctx'[PairOf(call'[f])].fiber = f
      <4>1. CASE f = cur
        BY <2>1, <2>2, <4>1, SuspendsRecords
      <4>2. CASE f # cur
        <5>1. call'[f] = call[f] /\ call[f] # NoCall /\ PairOf(call[f]) # PairOf(c)
          BY <2>1, <2>2, <3>3, <4>2, SuspendsRecords
        <5>2. PairOf(call[f]) \in Nums \X Evs
          BY <5>1 DEF WaitType, PairOf, CallRecords
        <5>3. ctx'[PairOf(call[f])] = ctx[PairOf(call[f])]
          BY <2>1, <2>2, <5>1, <5>2, SuspendsRecords
        <5> QED BY <5>1, <5>3 DEF Owners
      <4> QED BY <4>1, <4>2
    <3>4. ASSUME NEW p \in events'
          PROVE  ctx'[p].fiber \in Fibers /\ call'[ctx'[p].fiber] # NoCall
                 /\ PairOf(call'[ctx'[p].fiber]) = p
      <4>1. CASE p = PairOf(c)
        BY <2>1, <2>2, <4>1, SuspendsRecords
      <4>2. CASE p # PairOf(c)
        <5>1. p \in events /\ p \in Nums \X Evs
          BY <2>1, <2>2, <4>2, SuspendsRecords DEF WaitType
        <5>2. ctx'[p] = ctx[p]
          BY <2>1, <2>2, <4>2, <5>1, SuspendsRecords
        <5>3. /\ ctx[p].fiber \in Fibers /\ call[ctx[p].fiber] # NoCall
              /\ PairOf(call[ctx[p].fiber]) = p
          BY <5>1 DEF Owners
        <5>4. call'[ctx[p].fiber] = call[ctx[p].fiber]
          BY <2>1, <2>2, <5>3, SuspendsRecords
        <5> QED BY <5>2, <5>3, <5>4
      <4> QED BY <4>1, <4>2
    <3> QED BY <3>2, <3>3, <3>4 DEF Owners
  <2>3. CASE ComesBack(c)
    <3>1. WaitType'
      <4>1. \A f \in Fibers : call'[f].id <= calls'
        BY <1>1, <1>2, <2>1, <2>3, ComesBackClears DEF NoCall
      <4> QED BY <1>1, <2>1, <2>3, <4>1, ComesBackClears DEF WaitType
    <3>2. \A p \in events : ctx[p].fiber # cur
      BY DEF Tokens, Waiting
    <3>3. Owners'
      BY <2>1, <2>3, <3>2, ComesBackClears DEF Owners
    <3> QED BY <3>1, <3>3
  <2>4. CASE Dies(c)
    <3>1. UNCHANGED <<events, ctx, call>>
      BY <2>4 DEF Dies, Stays
    <3>2. armed' \subseteq Fibers \X (1 .. MaxCalls)
      <4>1. c.id \in 1 .. MaxCalls
        BY <1>1, <2>1, HookAssumption, Absent DEF InHand, WaitType
      <4> QED BY <2>1, <2>4, <4>1 DEF Dies, WaitType
    <3> QED BY <1>1, <1>2, <3>1, <3>2 DEF WaitType, Owners
  <2> QED BY <2>1, <2>2, <2>3, <2>4 DEF Outcome
<1>6. CASE Quiet \/ GoesToSleep \/ Finish \/ TakeFiber \/ TakeWake \/ Aborts
  BY <1>3, <1>6 DEF Lighter, Quiet, GoesToSleep, Finish, TakeFiber, TakeWake, Aborts, eventVars,
     timerVars, WithoutTimer
<1>7. CASE TakeTimer
  BY <1>3, <1>4, <1>7, TimerShape
<1>8. CASE \/ \E n \in Nums, S \in SUBSET events : Wakes(n, S)
           \/ \E f \in Fibers, i \in 1 .. MaxCalls : Expire(<<f, i>>)
           \/ \E f \in Fibers : ExpireSleep(f)
  BY <1>3, <1>8 DEF Lighter, Wakes, Expire, ExpireSleep, eventVars, timerVars
<1> QED BY <1>5, <1>6, <1>7, <1>8, StepShape
-----------------------------------------------------------------------------
\* No timer is left to a fibre that runs.
LEMMA TimersStep ==
  ASSUME KernelType, LoopType, WaitType, Owners, Tokens, Timers, [Next]_vars
  PROVE  Timers'
<1>1. ASSUME NEW t \in armed PROVE t[1] \in Fibers /\ t[2] # 0 /\ t[1] # None
  BY HookAssumption DEF WaitType
<1>2. CASE armed' \subseteq armed /\ UNCHANGED <<call, halt>> /\ cur' \in {cur, None}
  BY <1>1, <1>2 DEF Timers
<1>3. CASE TakeFiber
  <2> DEFINE f == Head(queue).fiber
  <2>1. f \in Fibers
    BY <1>3, HeadTailProperties, EmptySeq DEF LoopType, TakeFiber, Items
  <2>2. ASSUME NEW t \in armed' PROVE call[t[1]].id = t[2] /\ t[1] # f
    <3>1. CASE call[f] # NoCall
      BY <1>3, <2>2, <3>1 DEF TakeFiber, WithoutTimer, Timers
    <3>2. CASE call[f] = NoCall
      BY <1>1, <1>3, <2>2, <3>2 DEF TakeFiber, NoCall, Timers
    <3> QED BY <3>1, <3>2
  <2> QED BY <1>3, <2>2 DEF TakeFiber, Timers
<1>4. CASE TakeTimer
  <2>1. ASSUME NEW f, Cancels(f), Lighter PROVE Timers'
    <3>1. f \in Fibers /\ \A g \in Fibers : call'[g].id = call[g].id
      BY <2>1, CancelsCall DEF Cancels
    <3> QED BY <1>1, <2>1, <3>1 DEF Timers, Cancels
  <2> QED BY <1>2, <1>4, <2>1, TimerShape DEF Lighter
<1>5. ASSUME NEW c, CallStep(c) PROVE Timers'
  <2>1. InHand(c) /\ Outcome(c) /\ halt = "no"
    BY <1>5 DEF CallStep, InHand
  <2>2. CASE Suspends(c)
    <3>1. ASSUME NEW t \in armed' PROVE call'[t[1]].id = t[2] /\ t[1] # cur'
      <4>1. CASE t = <<cur, c.id>>
        BY <2>1, <2>2, <4>1, SuspendsRecords, HookAssumption
      <4>2. CASE t # <<cur, c.id>>
        <5>1. t \in armed
          BY <2>1, <2>2, <4>2, SuspendsRecords
        <5>2. call[t[1]].id = t[2] /\ t[1] # cur
          BY <2>1, <5>1 DEF Timers
        <5> QED BY <1>1, <2>1, <2>2, <5>1, <5>2, SuspendsRecords
      <4> QED BY <4>1, <4>2
    <3> QED BY <3>1 DEF Timers
  <2>3. CASE ComesBack(c)
    <3>1. ASSUME NEW t \in armed' PROVE call'[t[1]].id = t[2] /\ t[1] # cur'
      <4>1. t \in armed
        BY <2>1, <2>3, ComesBackClears
      <4>2. call[t[1]].id = t[2] /\ t[1] # cur
        BY <2>1, <4>1 DEF Timers
      <4> QED BY <1>1, <2>1, <2>3, <4>1, <4>2, ComesBackClears
    <3> QED BY <3>1 DEF Timers
  <2>4. CASE Dies(c)
    BY <2>4 DEF Dies, Timers
  <2> QED BY <2>1, <2>2, <2>3, <2>4 DEF Outcome
<1>6. CASE Quiet \/ GoesToSleep \/ Finish \/ TakeWake
  BY <1>2, <1>6 DEF Quiet, GoesToSleep, Finish, TakeWake, eventVars, timerVars
<1>8. CASE Aborts
  BY <1>8 DEF Aborts, Timers
<1>7. CASE \/ \E n \in Nums, S \in SUBSET events : Wakes(n, S)
           \/ \E f \in Fibers, i \in 1 .. MaxCalls : Expire(<<f, i>>)
           \/ \E f \in Fibers : ExpireSleep(f)
  BY <1>2, <1>7 DEF Wakes, Expire, ExpireSleep, eventVars, timerVars
<1> QED BY <1>3, <1>4, <1>5, <1>6, <1>7, <1>8, StepShape

\* The call of a fibre after a step: the one it was suspended in, or a new one.
SameCall(f) ==
  /\ call[f] # NoCall
  /\ call'[f].op = call[f].op /\ call'[f].file = call[f].file
  /\ PairOf(call'[f]) = PairOf(call[f])
  /\ call'[f].num = call[f].num
  /\ ~call'[f].cancelled => ~call[f].cancelled
NewCall(f) ==
  \E c : CallStep(c) /\ Suspends(c) /\ f = cur /\ call'[f] = c

LEMMA CallFate ==
  ASSUME KernelType, LoopType, WaitType, Owners, [Next]_vars, NEW f \in Fibers,
         call'[f] # NoCall
  PROVE  SameCall(f) \/ NewCall(f)
<1>1. CASE UNCHANGED call
  BY <1>1 DEF SameCall
<1>2. CASE TakeTimer
  <2>1. ASSUME NEW g, Cancels(g) PROVE SameCall(f)
    <3>1. CASE f = g
      BY <2>1, <3>1, CancelsCall DEF Cancels, SameCall, PairOf
    <3>2. CASE f # g
      <4>1. call'[f] = call[f]
        BY <2>1, <3>2, CancelsCall
      <4> QED BY <4>1 DEF SameCall
    <3> QED BY <3>1, <3>2
  <2> QED BY <1>1, <1>2, <2>1, TimerShape
<1>3. ASSUME NEW c, CallStep(c) PROVE SameCall(f) \/ NewCall(f)
  <2>1. InHand(c) /\ Outcome(c)
    BY <1>3 DEF CallStep
  <2>2. CASE Suspends(c)
    <3>1. f = cur => call'[f] = c
      BY <2>1, <2>2, SuspendsRecords
    <3>2. f # cur => call'[f] = call[f]
      BY <2>1, <2>2, SuspendsRecords
    <3> QED BY <1>3, <2>2, <3>1, <3>2 DEF SameCall, NewCall
  <2>3. CASE ComesBack(c)
    <3>1. call'[f] = call[f]
      BY <2>1, <2>3, ComesBackClears
    <3> QED BY <3>1 DEF SameCall
  <2>4. CASE Dies(c)
    BY <1>1, <2>4 DEF Dies
  <2> QED BY <2>1, <2>2, <2>3, <2>4 DEF Outcome
<1>4. CASE \/ Quiet \/ GoesToSleep \/ Finish \/ TakeFiber \/ TakeWake \/ Aborts
           \/ \E n \in Nums, S \in SUBSET events : Wakes(n, S)
           \/ \E g \in Fibers, i \in 1 .. MaxCalls : Expire(<<g, i>>)
           \/ \E g \in Fibers : ExpireSleep(g)
  BY <1>1, <1>4 DEF Quiet, GoesToSleep, Finish, TakeFiber, TakeWake, Aborts, Wakes, Expire,
     ExpireSleep
<1> QED BY <1>2, <1>3, <1>4, StepShape

\* A registered event after a step was registered before, or is that of a new call.
LEMMA EventFate ==
  ASSUME KernelType, LoopType, WaitType, Owners, [Next]_vars, NEW p \in events'
  PROVE  \/ p \in events /\ ctx'[p] = ctx[p]
         \/ \E c : /\ CallStep(c) /\ Suspends(c) /\ p = PairOf(c)
<1>1. CASE Lighter
  BY <1>1 DEF Lighter
<1>2. ASSUME NEW c, CallStep(c)
      PROVE  \/ p \in events /\ ctx'[p] = ctx[p]
             \/ CallStep(c) /\ Suspends(c) /\ p = PairOf(c)
  <2>1. InHand(c) /\ Outcome(c)
    BY <1>2 DEF CallStep
  <2>2. CASE Suspends(c) /\ p # PairOf(c)
    <3>1. p \in events /\ p \in Nums \X Evs
      BY <2>1, <2>2, SuspendsRecords DEF WaitType
    <3> QED BY <2>1, <2>2, <3>1, SuspendsRecords
  <2>3. CASE ComesBack(c) \/ Dies(c)
    BY <2>3 DEF ComesBack, Dies, Stays
  <2> QED BY <1>2, <2>1, <2>2, <2>3 DEF Outcome
<1>3. CASE TakeTimer
  BY <1>1, <1>3, TimerShape
<1>4. CASE \/ Quiet \/ GoesToSleep \/ Finish \/ TakeFiber \/ TakeWake \/ Aborts
           \/ \E n \in Nums, S \in SUBSET events : Wakes(n, S)
           \/ \E g \in Fibers, i \in 1 .. MaxCalls : Expire(<<g, i>>)
           \/ \E g \in Fibers : ExpireSleep(g)
  BY <1>4 DEF Quiet, GoesToSleep, Finish, TakeFiber, TakeWake, Aborts, Wakes, Expire,
     ExpireSleep, eventVars
<1> QED BY <1>2, <1>3, <1>4, StepShape
-----------------------------------------------------------------------------
\* The file of a number after a step: the same one, whose connection may have moved on,
\* a new one, or none after close().
SameFile(n) ==
  /\ file'[n].id = file[n].id
  /\ m_datas[n] # NoCtx => m_datas'[n] # NoCtx
  /\ file[n].conn # "no" => file'[n].conn # "no"
  /\ file[n].conn \notin {"no", "pending"} => file'[n].conn \notin {"no", "pending"}
NewFile(n) == file[n] = NoFile /\ file'[n].id = opened + 1 /\ opened' = opened + 1

LEMMA OpenFate ==
  ASSUME KernelType, NEW n \in Nums, NEW k \in Nums, file[k] = NoFile, NEW sock \in BOOLEAN,
         \/ sock /\ OpenWithCtx(k, OpenFile(sock))
         \/ OpenBare(k, OpenFile(sock))
  PROVE  SameFile(n) \/ NewFile(n)
<1> DEFINE f == OpenFile(sock)
           g == [f EXCEPT !.nonblock = FlagAfterGet(k, f), !.raw = FALSE]
<1>1. f \in Files /\ f.id = opened + 1
  BY OpenFileType
<1>2. g.id = opened + 1
  BY <1>1 DEF Files
<1>3. (file' = [file EXCEPT ![k] = g] \/ file' = [file EXCEPT ![k] = f]) /\ opened' = opened + 1
  BY DEF OpenWithCtx, OpenBare
<1>4. n # k => m_datas'[n] = m_datas[n]
  BY DEF OpenWithCtx, OpenBare, Created, KernelType
<1> HIDE DEF f, g
<1>5. n # k => file'[n] = file[n]
  BY <1>3 DEF KernelType
<1>6. n = k => file'[n].id = opened + 1
  BY <1>1, <1>2, <1>3 DEF KernelType
<1> QED BY <1>3, <1>4, <1>5, <1>6 DEF SameFile, NewFile

LEMMA FileFate ==
  ASSUME KernelType, LoopType, WaitType, [Next]_vars, NEW n \in Nums
  PROVE  SameFile(n) \/ NewFile(n) \/ Close(n)
<1>1. file'[n] = file[n] /\ m_datas'[n] = m_datas[n] => SameFile(n)
  BY DEF SameFile
<1>2. KernelSame => SameFile(n)
  BY <1>1 DEF KernelSame
<1>3. OpensOne => SameFile(n) \/ NewFile(n)
  BY OpenFate DEF OpensOne
<1>4. ASSUME NEW k \in Nums, Socket(k) PROVE SameFile(n) \/ NewFile(n)
  BY <1>4, OpenFate DEF Socket
<1>5. ASSUME NEW k \in Nums, OpenOther(k) PROVE SameFile(n) \/ NewFile(n)
  BY <1>5, OpenFate DEF OpenOther
<1>6. ASSUME NEW k \in Nums, NEW ev \in Evs, SetTimeout(k, ev) PROVE SameFile(n)
  <2> DEFINE x == [m_datas[k] EXCEPT !.timed[ev] = TRUE]
  <2>1. file' = file
    BY <1>6 DEF SetTimeout, kernelVars
  <2>2. CASE m_datas' = m_datas
    BY <1>1, <2>1, <2>2
  <2>3. CASE m_datas' = [m_datas EXCEPT ![k].timed[ev] = TRUE] /\ m_datas[k] # NoCtx
    <3>1. x \in Ctxs
      BY <2>3 DEF KernelType, Ctxs
    <3>2. m_datas' = [m_datas EXCEPT ![k] = x]
      BY <2>3 DEF KernelType
    <3> HIDE DEF x
    <3>3. x # NoCtx
      BY <3>1, Absent DEF Ctxs
    <3> QED BY <2>1, <3>2, <3>3 DEF KernelType, SameFile
  <2> QED BY <1>6, <2>2, <2>3 DEF SetTimeout
<1>7. ASSUME NEW k \in Nums, NEW b \in BOOLEAN, SetFlag(k, b) \/ Ioctl(k, b) PROVE SameFile(n)
  <2>1. m_datas' = [m_datas EXCEPT ![k] = UserSet(k, b)]
    BY <1>7 DEF KernelType, SetFlag, Ioctl, UserSet
  <2>2. m_datas[n] # NoCtx => m_datas'[n] # NoCtx
    BY <2>1, UserSetType DEF KernelType
  <2>3. file[k] \in Files
    BY <1>7 DEF SetFlag, Ioctl, KernelType
  <2>4. n = k => file'[n].id = file[n].id /\ file'[n].conn = file[n].conn
    BY <1>7, <2>3 DEF SetFlag, Ioctl, KernelType, Files
  <2>5. n # k => file'[n] = file[n]
    BY <1>7 DEF SetFlag, Ioctl, KernelType
  <2> QED BY <2>2, <2>4, <2>5 DEF SameFile
<1>8. ASSUME NEW k \in Nums, Close(k) PROVE SameFile(n) \/ Close(n)
  <2>1. n # k => file'[n] = file[n] /\ m_datas'[n] = m_datas[n]
    BY <1>8 DEF Close, Dropped, KernelType
  <2> QED BY <1>1, <1>8, <2>1
<1>11. ASSUME NEW k \in Nums, NEW st \in {"pending", "yes", "refused", "taken"}, ConnSet(k, st),
              file[k].conn = (CASE st = "pending" -> "no" [] st = "taken" -> "refused"
                                [] OTHER -> "pending")
       PROVE  SameFile(n)
  <2>1. file[k] \in Files
    BY <1>11 DEF ConnSet, KernelType
  <2>2. n = k => file'[n].id = file[n].id /\ file'[n].conn = st
    BY <1>11, <2>1 DEF ConnSet, KernelType, Files
  <2>3. n # k => file'[n] = file[n]
    BY <1>11 DEF ConnSet, KernelType
  <2> QED BY <1>11, <2>2, <2>3 DEF SameFile, ConnSet
<1>17. TakesError /\ UNCHANGED hook => SameFile(n)
  BY <1>11 DEF TakesError, ConnSet
<1>9. ASSUME NEW k \in Nums, NEW op \in IoOps, NEW ok \in BOOLEAN, DoIo(op, k, ok)
      PROVE  SameFile(n) \/ NewFile(n)
  <2>1. \A timed : Call(op, k, timed).num = k
    BY DEF Call
  <2>2. KernelSame \/ OpensOne \/ (TakesError /\ UNCHANGED hook)
    BY <1>9, <2>1, AttemptKernel DEF DoIo
  <2> QED BY <1>2, <1>3, <1>17, <2>2
<1>10. ASSUME NEW ok \in BOOLEAN, Resumed(ok) PROVE SameFile(n) \/ NewFile(n)
  <2>1. call[cur].num \in Nums
    BY <1>10 DEF Resumed, WaitType, LoopType, CallRecords
  <2>2. KernelSame \/ OpensOne \/ (TakesError /\ UNCHANGED hook)
    BY <1>10, <2>1, AttemptKernel, TellingKernel DEF Resumed, KernelSame
  <2> QED BY <1>2, <1>3, <1>17, <2>2
<1>12. ASSUME NEW k \in Nums, NEW timed \in BOOLEAN, NEW ok \in BOOLEAN, Connect(k, timed, ok)
       PROVE  SameFile(n)
  <2>1. \/ KernelSame \/ (TakesError /\ UNCHANGED hook)
        \/ ConnSet(k, "pending") /\ file[k].conn = "no"
    BY <1>12, TellingKernel DEF Connect, Waits, KernelSame, kernelVars, ConnSet
  <2> QED BY <1>2, <1>11, <1>17, <2>1
<1>13. ASSUME NEW k \in Nums, NEW outcome \in {"yes", "refused"}, Decide(k, outcome)
       PROVE  SameFile(n)
  <2>1. ConnSet(k, outcome) /\ file[k].conn = "pending"
    BY <1>13 DEF Decide, ConnSet
  <2> QED BY <1>11, <2>1
<1>14. CASE SetHookEnable \/ Sleep \/ (\E k \in Nums : GetFlag(k))
  BY <1>2, <1>14 DEF SetHookEnable, Sleep, GetFlag, KernelSame, kernelVars
<1>15. CASE TakeFiber \/ TakeWake \/ TakeTimer \/ Finish \/ GoIdle \/ ToEvents \/ IdleSwapOut
  BY <1>2, <1>15 DEF TakeFiber, TakeWake, TakeTimer, Finish, GoIdle, ToEvents, IdleSwapOut,
     KernelSame, kernelVars
<1>16. CASE \/ \E f \in Fibers, i \in 1 .. MaxCalls : Expire(<<f, i>>)
            \/ \E f \in Fibers : ExpireSleep(f)
            \/ EventStep
            \/ UNCHANGED vars
  BY <1>2, <1>16 DEF Expire, ExpireSleep, EventStep, HandleEvent, vars, KernelSame, kernelVars
<1> QED BY <1>4, <1>5, <1>6, <1>7, <1>8, <1>9, <1>10, <1>12, <1>13, <1>14, <1>15, <1>16
        DEF Next, User, Loop, EventStep

\* Numbers closed behind the hook's back stay so, and files are counted.
LEMMA KernelGrows ==
  ASSUME KernelType, WaitType, LoopType, [Next]_vars
  PROVE  rawClosed \subseteq rawClosed' /\ opened' \in {opened, opened + 1}
<1>1. CASE UNCHANGED <<opened, rawClosed>>
  BY <1>1
<1>2. CASE User
  <2>1. ASSUME NEW n \in Nums, NEW op \in IoOps, NEW ok \in BOOLEAN, DoIo(op, n, ok)
        PROVE  rawClosed' = rawClosed /\ opened' \in {opened, opened + 1}
    <3>1. \A timed : Call(op, n, timed).num = n
      BY DEF Call
    <3>2. KernelSame \/ OpensOne \/ TakesError
      BY <2>1, <3>1, AttemptKernel DEF DoIo
    <3> QED BY <3>2 DEF KernelSame, OpensOne, TakesError, OpenWithCtx
  <2> QED BY <1>2, <2>1 DEF User, SetHookEnable, Sleep, Socket, OpenOther, GetFlag, Close,
          SetFlag, Ioctl, SetTimeout, Connect, OpenWithCtx, OpenBare, kernelVars
<1>3. ASSUME NEW ok \in BOOLEAN, Resumed(ok)
      PROVE  rawClosed' = rawClosed /\ opened' \in {opened, opened + 1}
  <2>1. call[cur].num \in Nums
    BY <1>3 DEF Resumed, WaitType, LoopType, CallRecords
  <2> QED BY <1>3, <2>1, AttemptKernel DEF Resumed, KernelSame, OpensOne, TakesError, OpenWithCtx
<1> QED BY <1>1, <1>2, <1>3 DEF Next, Loop, TakeFiber, TakeWake, TakeTimer, Finish, GoIdle,
        ToEvents, IdleSwapOut, Expire, ExpireSleep, EventStep, HandleEvent, Decide, vars, kernelVars
-----------------------------------------------------------------------------
\* close() cancels every event of its number, so that none meets the next file.
LEMMA OnFilesStep ==
  ASSUME KernelType, LoopType, WaitType, Table, Owners, Tokens, OnFiles, [Next]_vars
  PROVE  OnFiles'
<1> SUFFICES ASSUME NEW p \in events', p[1] \notin rawClosed'
             PROVE  /\ ctx'[p].id = file'[p[1]].id
                    /\ call'[ctx'[p].fiber].file = file'[p[1]].id
                    /\ m_datas'[p[1]] # NoCtx
  BY DEF OnFiles
<1> DEFINE n == p[1]
<1>1. n \notin rawClosed
  BY KernelGrows
<1>2. CASE p \in events /\ ctx'[p] = ctx[p]
  <2> DEFINE f == ctx[p].fiber
  <2>1. n \in Nums /\ f \in Fibers /\ call[f] # NoCall
    BY <1>2 DEF WaitType, Owners
  <2>2. ctx[p].id = file[n].id /\ call[f].file = file[n].id /\ m_datas[n] # NoCtx
    BY <1>1, <1>2 DEF OnFiles
  <2>3. call'[f] # NoCall
    BY <1>2, WaitStep DEF Owners
  <2> HIDE DEF f
  <2>4. call'[f].file = call[f].file
    <3>1. CASE SameCall(f)
      BY <3>1 DEF SameCall
    <3>2. CASE NewCall(f)
      <4>1. f = cur
        BY <3>2 DEF NewCall
      <4> QED BY <1>2, <4>1 DEF Tokens, Waiting, f
    <3> QED BY <2>1, <2>3, <3>1, <3>2, CallFate
  <2>5. file[n] # NoFile
    BY <1>1, <2>1, <2>2, Absent DEF Table, Agree, KernelType
  <2>6. ~Close(n)
    <3>1. SUFFICES ASSUME Close(n) PROVE FALSE
      OBVIOUS
    <3>2. hook
      BY <2>1, <3>1 DEF Close
    <3>3. events' = events \ Cancelled(n)
      BY <2>2, <3>1, <3>2 DEF Close
    <3>4. \A r \in events : r[1] = n => ctx[r].id = file[n].id
      BY <1>1 DEF OnFiles
    <3>5. p \in Cancelled(n)
      BY <1>2, <3>4 DEF Cancelled
    <3> QED BY <3>3, <3>5
  <2>7. SameFile(n)
    BY <2>1, <2>5, <2>6, FileFate DEF NewFile
  <2> QED BY <1>2, <2>2, <2>4, <2>7 DEF SameFile, f
<1>3. ASSUME NEW c, CallStep(c), Suspends(c), p = PairOf(c)
      PROVE  /\ ctx'[p].id = file'[n].id
             /\ call'[ctx'[p].fiber].file = file'[n].id
             /\ m_datas'[n] # NoCtx
  <2>1. InHand(c) /\ n = c.num /\ call[cur] = NoCall
    BY <1>3, SuspendsOnce DEF CallStep, PairOf
  <2>2. Hooked(c)
    BY <1>3, <2>1 DEF CallStep
  <2>3. ctx'[p].fiber = cur /\ ctx'[p].id = file[n].id /\ call'[cur] = c
    BY <1>3, <2>1, SuspendsRecords
  <2>4. c.file = file[n].id
    BY <1>3, <2>1, SuspendsOnce
  <2> QED BY <2>1, <2>2, <2>3, <2>4 DEF Hooked
<1> QED BY <1>2, <1>3, EventFate

\* How a registered event goes away: its number is closed, the kernel reports a file
\* that does not connect any more, or the timer of its call has fired.
LEMMA EventGone ==
  ASSUME KernelType, LoopType, WaitType, Owners, [Next]_vars, NEW p \in events, p \notin events'
  PROVE  \/ Close(p[1])
         \/ KernelSame /\ file[p[1]].conn # "pending"
         \/ KernelSame /\ call'[ctx[p].fiber].cancelled = TRUE
<1>1. CASE events \subseteq events'
  BY <1>1
<1>2. ASSUME NEW n \in Nums, NEW S \in SUBSET events, Wakes(n, S)
      PROVE  Close(p[1]) \/ (KernelSame /\ file[p[1]].conn # "pending")
  <2>1. p[1] = n
    BY <1>2 DEF Wakes
  <2> QED BY <1>2, <2>1 DEF Wakes
<1>3. CASE TakeTimer
  <2> DEFINE t == Head(queue)
  <2>1. /\ TimerFires(t) /\ t.kind = "timer"
        /\ call' = [call EXCEPT ![t.fiber].cancelled = TRUE]
        /\ p = PairOf(call[t.fiber]) /\ KernelSame
    BY <1>3 DEF TakeTimer, KernelSame, kernelVars, PairOf
  <2>2. t \in Items
    BY <1>3, HeadTailProperties, EmptySeq DEF LoopType, TakeTimer
  <2>3. t.fiber \in Fibers /\ call[t.fiber] # NoCall
    BY <2>1, <2>2 DEF Items, TimerFires, NoCall
  <2>4. ctx[p].fiber = t.fiber
    BY <2>1, <2>3 DEF Owners
  <2>5. call[t.fiber] \in CallRecords
    BY <2>3 DEF WaitType
  <2>6. call'[t.fiber].cancelled = TRUE
    BY <2>1, <2>3, <2>5 DEF WaitType, CallRecords
  <2> QED BY <2>1, <2>4, <2>6
<1>4. ASSUME NEW c, CallStep(c) PROVE events \subseteq events'
  BY <1>4 DEF CallStep, Outcome, Suspends, ComesBack, Dies, Stays
<1>5. CASE \/ Quiet \/ GoesToSleep \/ Finish \/ TakeFiber \/ TakeWake \/ Aborts
           \/ \E g \in Fibers, i \in 1 .. MaxCalls : Expire(<<g, i>>)
           \/ \E g \in Fibers : ExpireSleep(g)
  BY <1>5 DEF Quiet, GoesToSleep, Finish, TakeFiber, TakeWake, Aborts, Expire, ExpireSleep,
     eventVars
<1> QED BY <1>1, <1>2, <1>3, <1>4, <1>5, StepShape

\* A fibre that comes back from connect() finds a decided connection, a time-out or
\* another file.
LEMMA ConnectingStep ==
  ASSUME KernelType, LoopType, WaitType, Owners, Tokens, Connecting, [Next]_vars
  PROVE  Connecting'
<1> SUFFICES ASSUME NEW f \in Fibers, call'[f] # NoCall, call'[f].op = "connect"
             PROVE  /\ call'[f].file \in 1 .. opened'
                    /\ file'[call'[f].num].id = call'[f].file =>
                         /\ file'[call'[f].num].conn # "no"
                         /\ PairOf(call'[f]) \notin events' /\ ~call'[f].cancelled =>
                              file'[call'[f].num].conn # "pending"
  BY DEF Connecting
<1> DEFINE n == call'[f].num
<1>0. opened \in Nat /\ opened' \in {opened, opened + 1}
  BY KernelGrows DEF KernelType
<1>1. CASE SameCall(f)
  <2> DEFINE c == call[f]
  <2>1. /\ c # NoCall /\ c.op = "connect" /\ call'[f].file = c.file /\ n = c.num
        /\ PairOf(call'[f]) = PairOf(c) /\ (~call'[f].cancelled => ~c.cancelled)
    BY <1>1 DEF SameCall
  <2>2. c.file \in 1 .. opened /\ c \in CallRecords /\ n \in Nums
    BY <2>1 DEF Connecting, WaitType, CallRecords
  <2>3. /\ file[n].id = c.file => file[n].conn # "no"
        /\ file[n].id = c.file /\ PairOf(c) \notin events /\ ~c.cancelled =>
             file[n].conn # "pending"
    BY <2>1 DEF Connecting
  <2> HIDE DEF n
  <2>4. c.file \in 1 .. opened'
    BY <1>0, <2>2
  <2>5. ASSUME file'[n].id = c.file PROVE SameFile(n) /\ file[n].id = c.file /\ ~Close(n)
    <3>1. c.file # opened + 1 /\ c.file # 0
      BY <1>0, <2>2
    <3>2. ~NewFile(n)
      BY <2>5, <3>1 DEF NewFile
    <3>3. ~Close(n)
      BY <2>2, <2>5, <3>1 DEF Close, KernelType, NoFile
    <3> QED BY <2>2, <2>5, <3>2, <3>3, FileFate DEF SameFile
  <2>6. ASSUME file'[n].id = c.file PROVE file'[n].conn # "no"
    BY <2>3, <2>5, <2>6 DEF SameFile
  <2>7. ASSUME file'[n].id = c.file, PairOf(c) \notin events', ~call'[f].cancelled
        PROVE  file'[n].conn # "pending"
    <3>1. CASE PairOf(c) \notin events
      BY <2>1, <2>3, <2>5, <2>7, <3>1 DEF SameFile
    <3>2. CASE PairOf(c) \in events
      <4>1. PairOf(c)[1] = n /\ ctx[PairOf(c)].fiber = f
        BY <2>1 DEF PairOf, Owners
      <4>2. KernelSame /\ file[n].conn # "pending"
        BY <2>5, <2>7, <3>2, <4>1, EventGone
      <4> QED BY <4>2 DEF KernelSame
    <3> QED BY <3>1, <3>2
  <2> QED BY <2>1, <2>4, <2>6, <2>7 DEF n
<1>2. CASE NewCall(f)
  <2>1. PICK c : CallStep(c) /\ Suspends(c) /\ f = cur /\ call'[f] = c
    BY <1>2 DEF NewCall
  <2>2. InHand(c)
    BY <2>1 DEF CallStep
  <2>3. Hooked(c) /\ c.file = file[c.num].id /\ PairOf(c) \in events' /\ c.num \in Nums
    BY <2>1, <2>2, SuspendsOnce DEF CallStep, Suspends, PairOf, InHand, CallRecords
  <2>4. c.file \in 1 .. opened'
    BY <1>0, <2>3, Absent DEF Hooked, KernelType
  <2>5. file'[c.num].conn = "pending"
    BY <2>1, <2>3 DEF Hooked
  <2> QED BY <2>1, <2>3, <2>4, <2>5
<1> QED BY <1>1, <1>2, CallFate
-----------------------------------------------------------------------------
\* Steps after which ret says nothing new.
Silent == \/ UNCHANGED <<halt, ret>>
          \/ ret' \in {ret, NoRet} /\ halt' # "blocked"

LEMMA SilentAnswers ==
  ASSUME Answered, rawClosed \subseteq rawClosed', Silent
  PROVE  Answered'
<1>1. NoRet.op = "none"
  BY DEF NoRet
<1>2. ThreadNeverBlocks'
  BY DEF Silent, Answered, ThreadNeverBlocks
<1>3. UserSeesOwnFlag'
  BY <1>1 DEF Silent, Answered, UserSeesOwnFlag
<1>4. ConnectTellsTruth'
  BY <1>1 DEF Silent, Answered, ConnectTellsTruth
<1> QED BY <1>2, <1>3, <1>4 DEF Answered

\* A system call blocks only on a socket that was made nonblocking by nobody.
Blocks(op, n, id) ==
  /\ op # "getfl" /\ halt' = "blocked" /\ ret' = Returned(op, "blocked", n, id, FALSE)
  /\ file[n] # NoFile /\ file[n].sock /\ ~file[n].nonblock /\ UNCHANGED rawClosed

LEMMA BlocksAnswers ==
  ASSUME KernelType, Table, NEW op, NEW n \in Nums, NEW id, Blocks(op, n, id)
  PROVE  Answered'
<1>1. /\ ret'.op # "getfl" /\ ret'.res # "ok" /\ ret'.num = n /\ ret'.met = file[n]
  BY DEF Blocks, Returned
<1>2. file[n].raw \/ n \in rawClosed
  BY DEF Blocks, Table, Agree
<1>3. ThreadNeverBlocks'
  BY <1>1, <1>2 DEF Blocks, ThreadNeverBlocks
<1> QED BY <1>1, <1>3 DEF Answered, UserSeesOwnFlag, ConnectTellsTruth

\* connect() returns.
LEMMA ConnectAnswers ==
  ASSUME NEW res, NEW n, NEW id, NEW refused, halt' # "blocked",
         ret' = Returned("connect", res, n, id, refused),
         res = "ok" /\ ~refused /\ id = file[n].id => file[n].conn \in {"yes", "taken"}
  PROVE  Answered'
<1>1. /\ ret'.op = "connect" /\ ret'.res = res /\ ret'.id = id /\ ret'.met = file[n]
      /\ ret'.refused = refused
  BY DEF Returned
<1> QED BY <1>1 DEF Answered, ThreadNeverBlocks, UserSeesOwnFlag, ConnectTellsTruth

\* fcntl(F_GETFL) returns.
LEMMA GetFlagAnswers ==
  ASSUME KernelType, Table, NEW n \in Nums, GetFlag(n)
  PROVE  Answered'
<1>1. /\ ret'.op = "getfl" /\ ret'.num = n /\ ret'.met = file[n] /\ ret'.res = FlagOf(n)
      /\ file[n] # NoFile /\ rawClosed' = rawClosed /\ halt' = "no"
  BY DEF Returned, GetFlag, Makes, kernelVars
<1>2. IsSocketCtx(n) <=> m_datas[n] # NoCtx
  BY UserSetType
<1>3. n \notin rawClosed => FlagOf(n) = file[n].user
  BY <1>1, <1>2 DEF FlagOf, Table, Agree
<1> QED BY <1>1, <1>3 DEF Answered, ThreadNeverBlocks, UserSeesOwnFlag, ConnectTellsTruth

\* One attempt of a call that is no connect().
LEMMA AttemptAnswers ==
  ASSUME KernelType, Table, Answered, halt = "no", rawClosed \subseteq rawClosed',
         NEW c \in CallRecords, c.op # "connect", NEW plain, NEW ok, Attempt(c, plain, ok)
  PROVE  Answered'
<1>1. PICK a \in Answers(c.num) :
        \/ a = "done" /\ Transfers(c)
        \/ /\ a = "blocked" /\ halt' = "blocked"
           /\ ret' = Returned(c.op, a, c.num, c.file, FALSE) /\ UNCHANGED kernelVars
        \/ Finishes(c, a, FALSE) /\ UNCHANGED halt
        \/ Waits(c, ok)
  BY DEF Attempt
<1>2. c.num \in Nums /\ c.op \in IoOps
  BY DEF CallRecords
<1>3. CASE /\ a = "blocked" /\ halt' = "blocked"
           /\ ret' = Returned(c.op, a, c.num, c.file, FALSE) /\ UNCHANGED kernelVars
  <2>1. file[c.num] # NoFile /\ file[c.num].sock /\ ~file[c.num].nonblock
    BY <1>3 DEF Answers
  <2>2. Blocks(c.op, c.num, c.file)
    BY <1>2, <1>3, <2>1 DEF Blocks, kernelVars, IoOps
  <2> QED BY <1>2, <2>2, BlocksAnswers
<1>4. CASE Transfers(c) \/ (Finishes(c, a, FALSE) /\ UNCHANGED halt) \/ Waits(c, ok)
  <2>1. Silent
    BY <1>4 DEF Transfers, Finishes, Waits, Silent
  <2> QED BY <2>1, SilentAnswers
<1> QED BY <1>1, <1>3, <1>4

\* connect() up to its return or its wait.
LEMMA ConnectStepAnswers ==
  ASSUME KernelType, LoopType, WaitType, Table, Answered, rawClosed \subseteq rawClosed',
         NEW n \in Nums, NEW timed \in BOOLEAN, NEW ok \in BOOLEAN, Connect(n, timed, ok)
  PROVE  Answered'
<1> DEFINE c == Call("connect", n, timed)
<1>1. c.op = "connect" /\ c.num = n /\ halt = "no"
  BY CallType DEF Connect, Makes
<1>2. \/ /\ \E res \in {"ebadf", "error", "again"} : Finishes(c, res, FALSE)
         /\ UNCHANGED halt
      \/ /\ file[n] # NoFile /\ file[n].sock /\ ~file[n].nonblock /\ halt' = "blocked"
         /\ ret' = Returned("connect", "blocked", n, file[n].id, FALSE)
         /\ UNCHANGED kernelVars
      \/ Waits(c, ok)
  BY DEF Connect
<1> HIDE DEF c
<1>3. ASSUME NEW res \in {"ebadf", "error", "again"}, Finishes(c, res, FALSE), UNCHANGED halt
      PROVE  Answered'
  <2>1. ret' = Returned("connect", res, n, c.file, FALSE) /\ halt' # "blocked"
    BY <1>1, <1>3 DEF Finishes
  <2>2. res # "ok"
    OBVIOUS
  <2> QED BY <2>1, <2>2, ConnectAnswers
<1>4. CASE /\ file[n] # NoFile /\ file[n].sock /\ ~file[n].nonblock /\ halt' = "blocked"
           /\ ret' = Returned("connect", "blocked", n, file[n].id, FALSE)
           /\ UNCHANGED kernelVars
  <2>1. Blocks("connect", n, file[n].id)
    BY <1>4 DEF Blocks, kernelVars
  <2> QED BY <2>1, BlocksAnswers
<1>5. CASE Waits(c, ok)
  <2>1. CASE Silent
    BY <2>1, SilentAnswers
  <2>2. ASSUME NEW res, Finishes(c, res, TRUE), UNCHANGED halt PROVE Answered'
    <3>1. ret' = Returned("connect", res, n, c.file, TRUE) /\ halt' # "blocked"
      BY <1>1, <2>2 DEF Finishes
    <3> QED BY <3>1, ConnectAnswers
  <2> QED BY <1>5, <2>1, <2>2 DEF Waits, Silent
<1> QED BY <1>2, <1>3, <1>4, <1>5

\* A fibre comes back from its wait.
LEMMA ResumedAnswers ==
  ASSUME KernelType, LoopType, WaitType, Table, Tokens, Owners, Connecting, Answered,
         rawClosed \subseteq rawClosed', NEW ok \in BOOLEAN, Resumed(ok)
  PROVE  Answered'
<1> DEFINE c == call[cur]
<1>1. c \in CallRecords /\ c # NoCall /\ halt = "no" /\ cur \in Fibers /\ c.num \in Nums
  BY DEF Resumed, LoopType, WaitType, CallRecords
<1>2. CASE c.cancelled /\ c.op = "connect"
  <2>1. ret' = Returned("connect", "timedout", c.num, c.file, FALSE) /\ halt' = halt
    BY <1>2 DEF Resumed, Finishes
  <2> QED BY <1>1, <2>1, ConnectAnswers
<1>3. CASE ~c.cancelled /\ c.op = "connect"
  <2>1. /\ ret' = Returned("connect", ConnectResult(c.num), c.num, c.file, FALSE)
        /\ halt' = halt
    BY <1>3 DEF Resumed, Finishes
  <2>2. PairOf(c) \notin events
    BY <1>1 DEF Owners, Tokens, Waiting
  <2>3. ASSUME ConnectResult(c.num) = "ok", c.file = file[c.num].id
        PROVE  file[c.num].conn \in {"yes", "taken"}
    <3>1. file[c.num] # NoFile /\ file[c.num].conn # "refused"
      BY <2>3 DEF ConnectResult
    <3>2. file[c.num].conn # "no" /\ file[c.num].conn # "pending"
      BY <1>1, <1>3, <2>2, <2>3 DEF Connecting
    <3> QED BY <1>1, <3>1, <3>2 DEF KernelType, Files
  <2> QED BY <1>1, <2>1, <2>3, ConnectAnswers
<1>4. CASE c.cancelled /\ c.op # "connect"
  <2>1. ret' = NoRet /\ halt' = halt
    BY <1>4 DEF Resumed, Finishes
  <2> QED BY <1>1, <2>1, SilentAnswers DEF Silent
<1>5. CASE ~c.cancelled /\ c.op # "connect"
  <2>1. Attempt(c, FALSE, ok)
    BY <1>5 DEF Resumed
  <2> QED BY <1>1, <1>5, <2>1, AttemptAnswers
<1> QED BY <1>2, <1>3, <1>4, <1>5

\* What the calls report stays true.
LEMMA AnsweredStep ==
  ASSUME KernelType, LoopType, WaitType, Table, Tokens, Owners, Connecting, Answered,
         [Next]_vars
  PROVE  Answered'
<1>1. rawClosed \subseteq rawClosed'
  BY KernelGrows
<1>2. CASE Silent
  BY <1>1, <1>2, SilentAnswers
<1>3. ASSUME NEW n \in Nums, NEW op \in IoOps, NEW ok \in BOOLEAN, DoIo(op, n, ok)
      PROVE  Answered'
  <2> DEFINE timed == ~Plain(n) /\ m_datas[n].timed[EventOf(op)]
             c == Call(op, n, timed)
  <2>1. timed \in BOOLEAN
    OBVIOUS
  <2>2. Makes(op) /\ Attempt(c, Plain(n), ok)
    BY <1>3 DEF DoIo
  <2> HIDE DEF timed
  <2>3. InHand(c) /\ c.op = op
    BY <2>1, <2>2, CallType
  <2> HIDE DEF c
  <2>4. c \in CallRecords /\ c.op # "connect" /\ halt = "no"
    BY <2>3 DEF InHand, IoOps
  <2> QED BY <1>1, <2>2, <2>4, AttemptAnswers
<1>4. ASSUME NEW n \in Nums, NEW timed \in BOOLEAN, NEW ok \in BOOLEAN, Connect(n, timed, ok)
      PROVE  Answered'
  BY <1>1, <1>4, ConnectStepAnswers
<1>5. ASSUME NEW ok \in BOOLEAN, Resumed(ok) PROVE Answered'
  BY <1>1, <1>5, ResumedAnswers
<1>6. ASSUME NEW n \in Nums, GetFlag(n) PROVE Answered'
  BY <1>6, GetFlagAnswers
<1>7. CASE \/ SetHookEnable \/ Sleep
           \/ \E n \in Nums :
                \/ Socket(n) \/ OpenOther(n) \/ Close(n)
                \/ \E b \in BOOLEAN : SetFlag(n, b) \/ Ioctl(n, b)
                \/ \E ev \in Evs : SetTimeout(n, ev)
  <2>1. halt = "no" /\ halt' = halt /\ ret' \in {ret, NoRet}
    BY <1>7 DEF SetHookEnable, Sleep, Socket, OpenOther, Close, SetFlag, Ioctl, SetTimeout,
       ReturnsAtOnce, Makes
  <2> QED BY <1>2, <2>1 DEF Silent
<1>8. CASE TakeFiber \/ TakeWake \/ TakeTimer \/ Finish \/ GoIdle \/ ToEvents \/ IdleSwapOut
  BY <1>2, <1>8 DEF TakeFiber, TakeWake, TakeTimer, Finish, GoIdle, ToEvents, IdleSwapOut, Silent
<1>9. CASE \/ \E f \in Fibers, i \in 1 .. MaxCalls : Expire(<<f, i>>)
           \/ \E f \in Fibers : ExpireSleep(f)
           \/ EventStep
           \/ \E n \in Nums, outcome \in {"yes", "refused"} : Decide(n, outcome)
           \/ UNCHANGED vars
  BY <1>2, <1>9 DEF Expire, ExpireSleep, EventStep, HandleEvent, Decide, vars, Silent
<1> QED BY <1>3, <1>4, <1>5, <1>6, <1>7, <1>8, <1>9 DEF Next, User, Loop, EventStep
-----------------------------------------------------------------------------
\* A step that is no hooked call pays for the file it opens, and suspends nobody.
LEMMA OtherSteps ==
  ASSUME KernelType, LoopType, WaitType, [Next]_vars, ~\E c : CallStep(c)
  PROVE  /\ (opened' = opened /\ calls' = calls) \/ (opened' \in {opened, opened + 1} /\ calls' = calls + 1)
         /\ Suspended' = Suspended
<1>1. (opened' = opened /\ calls' = calls) \/ (opened' \in {opened, opened + 1} /\ calls' = calls + 1)
  <2>1. CASE \/ SetHookEnable \/ Sleep
             \/ \E n \in Nums :
                  \/ Socket(n) \/ OpenOther(n) \/ Close(n) \/ GetFlag(n)
                  \/ \E b \in BOOLEAN : SetFlag(n, b) \/ Ioctl(n, b)
                  \/ \E ev \in Evs : SetTimeout(n, ev)
    BY <2>1 DEF SetHookEnable, Sleep, Socket, OpenOther, Close, GetFlag, SetFlag, Ioctl,
       SetTimeout, Makes, OpenWithCtx, OpenBare, kernelVars
  <2>2. CASE \/ TakeFiber \/ TakeWake \/ TakeTimer \/ Finish \/ GoIdle \/ ToEvents \/ IdleSwapOut
             \/ \E f \in Fibers, i \in 1 .. MaxCalls : Expire(<<f, i>>)
             \/ \E f \in Fibers : ExpireSleep(f)
             \/ EventStep
             \/ \E n \in Nums, outcome \in {"yes", "refused"} : Decide(n, outcome)
             \/ UNCHANGED vars
    BY <2>2 DEF TakeFiber, TakeWake, TakeTimer, Finish, GoIdle, ToEvents, IdleSwapOut, Expire,
       ExpireSleep, EventStep, HandleEvent, Decide, vars, kernelVars
  <2> QED BY <2>1, <2>2, CallSteps DEF Next, User, Loop, EventStep
<1>2. CASE UNCHANGED call
  BY <1>1, <1>2 DEF Suspended
<1>3. CASE TakeTimer
  <2>1. ASSUME NEW f, Cancels(f) PROVE Suspended' = Suspended
    <3>1. /\ f \in Fibers /\ call[f] # NoCall /\ call'[f] # NoCall
          /\ \A g \in Fibers : g # f => call'[g] = call[g]
      BY <2>1, CancelsCall DEF Cancels
    <3> QED BY <3>1 DEF Suspended
  <2> QED BY <1>1, <1>2, <1>3, <2>1, TimerShape
<1>4. CASE \/ Quiet \/ GoesToSleep \/ Finish \/ TakeFiber \/ TakeWake \/ Aborts
           \/ \E n \in Nums, S \in SUBSET events : Wakes(n, S)
           \/ \E g \in Fibers, i \in 1 .. MaxCalls : Expire(<<g, i>>)
           \/ \E g \in Fibers : ExpireSleep(g)
  BY <1>2, <1>4 DEF Quiet, GoesToSleep, Finish, TakeFiber, TakeWake, Aborts, Wakes, Expire,
     ExpireSleep, loopVars, eventVars, timerVars
<1> QED BY <1>3, <1>4, StepShape

\* No more files are opened than calls were made.
LEMMA OpensStep ==
  ASSUME KernelType, LoopType, WaitType, Owners, Opens, [Next]_vars
  PROVE  Opens'
<1>1. IsFiniteSet(Suspended) /\ Cardinality(Suspended) \in Nat
  BY HookAssumption, FS_Subset, FS_CardinalityType DEF Suspended
<1>2. opened \in Nat /\ calls \in Nat
  BY HookAssumption DEF KernelType, WaitType
<1>3. CASE ~\E c : CallStep(c)
  <2>1. Cardinality(Suspended)' = Cardinality(Suspended)
    BY <1>3, OtherSteps
  <2> QED BY <1>1, <1>2, <1>3, <2>1, OtherSteps DEF Opens
<1>4. ASSUME NEW c, CallStep(c) PROVE Opens'
  <2>1. /\ InHand(c) /\ Outcome(c) /\ cur \in Fibers
        /\ opened' = opened \/ (opened' = opened + 1 /\ ComesBack(c))
    BY <1>4 DEF CallStep, InHand
  <2>2. (call[cur] = NoCall /\ calls' = calls + 1) \/ (call[cur] # NoCall /\ calls' = calls)
    BY <2>1 DEF InHand
  <2>3. CASE Suspends(c)
    <3>1. call[cur] = NoCall /\ calls' = calls + 1 /\ opened' = opened
      BY <2>1, <2>3, SuspendsOnce DEF ComesBack, Suspends, Stays
    <3>2. /\ call'[cur] # NoCall /\ \A f \in Fibers : f # cur => call'[f] = call[f]
      BY <2>1, <2>3, SuspendsRecords
    <3>3. Suspended' = Suspended \cup {cur} /\ cur \notin Suspended
      BY <2>1, <3>1, <3>2 DEF Suspended
    <3>4. Cardinality(Suspended') = Cardinality(Suspended) + 1
      BY <1>1, <3>3, FS_AddElement
    <3> QED BY <1>1, <1>2, <3>1, <3>4 DEF Opens
  <2>4. CASE ComesBack(c)
    <3>1. /\ call'[cur] = NoCall /\ \A f \in Fibers : f # cur => call'[f] = call[f]
      BY <2>1, <2>4, ComesBackClears
    <3>2. Suspended' = Suspended \ {cur}
      BY <2>1, <3>1 DEF Suspended
    <3>3. CASE call[cur] = NoCall /\ calls' = calls + 1
      <4>1. Suspended' = Suspended
        BY <3>2, <3>3 DEF Suspended
      <4>2. Cardinality(Suspended') = Cardinality(Suspended)
        BY <4>1
      <4> QED BY <1>1, <1>2, <2>1, <3>3, <4>2 DEF Opens
    <3>4. CASE call[cur] # NoCall /\ calls' = calls
      <4>1. cur \in Suspended
        BY <2>1, <3>4 DEF Suspended
      <4>2. Cardinality(Suspended') = Cardinality(Suspended) - 1
        BY <1>1, <3>2, <4>1, FS_RemoveElement
      <4> QED BY <1>1, <1>2, <2>1, <3>4, <4>2 DEF Opens
    <3> QED BY <2>2, <3>3, <3>4
  <2>5. CASE Dies(c)
    <3>1. call' = call /\ halt' # halt
      BY <2>1, <2>5 DEF Dies, InHand
    <3>2. opened' = opened
      BY <2>1, <3>1 DEF ComesBack
    <3>3. Cardinality(Suspended)' = Cardinality(Suspended)
      BY <3>1 DEF Suspended
    <3> QED BY <1>1, <1>2, <2>2, <3>2, <3>3 DEF Opens
  <2> QED BY <2>1, <2>3, <2>4, <2>5 DEF Outcome
<1> QED BY <1>3, <1>4
-----------------------------------------------------------------------------
LEMMA InvInit == Init => Inv
<1> SUFFICES ASSUME Init PROVE Inv
  OBVIOUS
<1>1. KernelType /\ Table
  BY DEF Init, KernelType, Table, Agree, NoFile, NoCtx
<1>2. LoopType
  <2>1. queue \in [1 .. Cardinality(Fibers) -> Items]
    BY ItemTypes DEF Init
  <2>2. Cardinality(Fibers) \in Nat
    BY HookAssumption, FS_CardinalityType
  <2>3. queue \in Seq(Items)
    BY <2>1, <2>2
  <2> QED BY <2>3 DEF Init, LoopType
<1>3. WaitType
  <2>1. NoWait \in ContextRecords
    BY DEF NoWait, ContextRecords
  <2> QED BY <2>1, HookAssumption DEF Init, WaitType, NoCall
<1>4. Owners /\ OnFiles /\ Timers /\ Connecting
  BY DEF Init, Owners, OnFiles, Timers, Connecting
<1>5. Tokens
  <2>1. ASSUME NEW i \in DOMAIN queue, NEW j \in DOMAIN queue, queue[i].fiber = queue[j].fiber
        PROVE  i = j
    <3>1. PICK f \in Fibers : queue[i] = FiberItem(f)
      BY DEF Init
    <3>2. PICK g \in Fibers : queue[j] = FiberItem(g)
      BY DEF Init
    <3>3. f = g
      BY <2>1, <3>1, <3>2, ItemTypes
    <3>4. queue[i] = queue[j]
      BY <3>1, <3>2, <3>3
    <3> QED BY <3>4 DEF Init
  <2>2. Waiting = {}
    BY DEF Init, Waiting
  <2> QED BY <1>2, <1>3, <1>4, <2>1, <2>2, PlacesAreFibers DEF Init, Tokens, OnceIn
<1>6. Answered
  BY DEF Init, Answered, ThreadNeverBlocks, UserSeesOwnFlag, ConnectTellsTruth, NoRet
<1>7. Opens
  <2>1. Suspended = {}
    BY DEF Init, Suspended
  <2> QED BY <2>1, FS_EmptySet DEF Init, Opens
<1> QED BY <1>1, <1>2, <1>3, <1>4, <1>5, <1>6, <1>7 DEF Inv

\* The invariant holds, whatever the fibres do.
LEMMA Invariant == Spec => []Inv
<1>1. ASSUME Inv, [Next]_vars PROVE Inv'
  <2>1. /\ KernelType /\ LoopType /\ WaitType /\ Table /\ Tokens /\ Owners /\ OnFiles
        /\ Timers /\ Connecting /\ Answered /\ Opens
    BY <1>1 DEF Inv
  <2>2. KernelType' /\ Table'
    BY <1>1, <2>1, TableStep
  <2>3. LoopType' /\ Tokens'
    BY <1>1, <2>1, LoopStep
  <2>4. WaitType' /\ Owners'
    BY <1>1, <2>1, WaitStep
  <2>5. OnFiles' /\ Timers'
    BY <1>1, <2>1, OnFilesStep, TimersStep
  <2>6. Connecting' /\ Answered'
    BY <1>1, <2>1, ConnectingStep, AnsweredStep
  <2>7. Opens'
    BY <1>1, <2>1, OpensStep
  <2> QED BY <2>2, <2>3, <2>4, <2>5, <2>6, <2>7 DEF Inv
<1> QED BY <1>1, InvInit, PTL DEF Spec
-----------------------------------------------------------------------------
\* Every variable keeps its type and its bound: no more files are opened than calls
\* were made (TypeOK), as accept() opens one when it returns.
THEOREM TypeCorrect == Spec => []TypeOK
<1>1. ASSUME Inv PROVE TypeOK
  <2>1. /\ KernelType /\ LoopType /\ WaitType /\ Opens
    BY <1>1 DEF Inv
  <2>2. opened \in 0 .. MaxCalls
    <3>1. Cardinality(Suspended) \in Nat
      BY HookAssumption, FS_Subset, FS_CardinalityType DEF Suspended
    <3> QED BY <2>1, <3>1, HookAssumption DEF KernelType, WaitType, Opens
  <2>3. \A n \in Nums : file[n].id \in 0 .. opened /\ m_datas[n].id \in 0 .. opened
    BY <2>1, Absent DEF KernelType
  <2>4. ASSUME NEW i \in DOMAIN queue PROVE queue[i].fiber \in Fibers
    <3>1. queue[i] \in Items
      BY <2>1, ElementOfSeq, LenProperties DEF LoopType
    <3> QED BY <3>1 DEF Items
  <2>5. \A f \in Fibers : call[f].id \in 0 .. calls
    BY <2>1, Absent, HookAssumption DEF WaitType
  <2> QED BY <2>1, <2>2, <2>3, <2>4, <2>5 DEF TypeOK, KernelType, LoopType, WaitType
<1> QED BY <1>1, Invariant, PTL

\* A context of the descriptor table is that of the file under its number, unless the
\* number was closed with the hook off (TableFollowsFiles).
THEOREM TableFollowsFilesHolds == Spec => []TableFollowsFiles
<1>1. ASSUME Inv PROVE TableFollowsFiles
  BY <1>1 DEF Inv, Table, Agree, TableFollowsFiles
<1> QED BY <1>1, Invariant, PTL

\* No hooked call blocks the thread on a socket the library made nonblocking
\* (ThreadNeverBlocks).
THEOREM ThreadNeverBlocksHolds == Spec => []ThreadNeverBlocks
<1>1. ASSUME Inv PROVE ThreadNeverBlocks
  BY <1>1 DEF Inv, Answered
<1> QED BY <1>1, Invariant, PTL

\* fcntl(F_GETFL) tells each user its own O_NONBLOCK (UserSeesOwnFlag).
THEOREM UserSeesOwnFlagHolds == Spec => []UserSeesOwnFlag
<1>1. ASSUME Inv PROVE UserSeesOwnFlag
  BY <1>1 DEF Inv, Answered
<1> QED BY <1>1, Invariant, PTL

\* Every way out of do_io and connect() cancels the condition timer of the call
\* (NoTimerOutlivesCall).
THEOREM NoTimerOutlivesCallHolds == Spec => []NoTimerOutlivesCall
<1>1. ASSUME Inv PROVE NoTimerOutlivesCall
  BY <1>1 DEF Inv, Timers, NoTimerOutlivesCall
<1> QED BY <1>1, Invariant, PTL

\* A registered event has a fibre that waits for it in a call on the file that is open
\* under the number (EventsHaveWaiters): close() wakes every waiter.
THEOREM EventsHaveWaitersHolds == Spec => []EventsHaveWaiters
<1>1. ASSUME Inv PROVE EventsHaveWaiters
  <2>1. ASSUME NEW p \in events, p[1] \notin rawClosed
        PROVE  LET c == call[ctx[p].fiber] IN
                 /\ c # NoCall /\ c.num = p[1] /\ c.ev = p[2]
                 /\ ctx[p].id = file[p[1]].id /\ c.file = file[p[1]].id
    BY <1>1, <2>1 DEF Inv, Owners, OnFiles, PairOf
  <2> QED BY <2>1 DEF EventsHaveWaiters
<1> QED BY <1>1, Invariant, PTL

\* connect() reports success only for an established connection, or one whose error
\* another call took first (ConnectTellsTruth), though it asks for SO_ERROR after a wait
\* in which the number may change its file.
THEOREM ConnectTellsTruthHolds == Spec => []ConnectTellsTruth
<1>1. ASSUME Inv PROVE ConnectTellsTruth
  BY <1>1 DEF Inv, Answered
<1> QED BY <1>1, Invariant, PTL
=============================================================================
