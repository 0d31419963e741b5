-------------------------- MODULE SchedulerProofs --------------------------
(***************************************************************************)
(* Proofs about Scheduler, for any number of worker threads and fibres.    *)
(***************************************************************************)
EXTENDS Scheduler, FiniteSetTheorems, SequenceTheorems, TLAPS

\* Erasing one entry of the list keeps the order of the others.
LEMMA EntryRemoved ==
  ASSUME NEW q \in Seq(Entries), NEW i \in DOMAIN q
  PROVE  /\ RemoveAt(q, i) \in Seq(Entries) /\ Len(RemoveAt(q, i)) = Len(q) - 1
         /\ \A j \in 1 .. Len(q) - 1 :
              RemoveAt(q, i)[j] = IF j < i THEN q[j] ELSE q[j + 1]
<1> DEFINE a == SubSeq(q, 1, i - 1)  b == SubSeq(q, i + 1, Len(q))
<1>1. i \in 1 .. Len(q) /\ Len(q) \in Nat
  BY LenProperties
<1>2. /\ a \in Seq(Entries) /\ Len(a) = i - 1
      /\ \A j \in 1 .. i - 1 : a[j] = q[j]
  BY <1>1, SubSeqProperties
<1>3. /\ b \in Seq(Entries) /\ Len(b) = Len(q) - i
      /\ \A j \in 1 .. Len(q) - i : b[j] = q[i + j]
  BY <1>1, SubSeqProperties
<1>4. RemoveAt(q, i) = a \o b
  BY DEF RemoveAt
<1> HIDE DEF a, b
<1>5. /\ a \o b \in Seq(Entries) /\ Len(a \o b) = Len(a) + Len(b)
      /\ \A j \in 1 .. Len(a) + Len(b) :
           (a \o b)[j] = IF j <= Len(a) THEN a[j] ELSE b[j - Len(a)]
  BY <1>2, <1>3, ConcatProperties
<1>6. ASSUME NEW j \in 1 .. Len(q) - 1
      PROVE  (a \o b)[j] = IF j < i THEN q[j] ELSE q[j + 1]
  <2>1. CASE j < i
    BY <1>1, <1>2, <1>3, <1>5, <2>1
  <2>2. CASE ~(j < i)
    <3>0. j \in 1 .. Len(a) + Len(b) /\ ~(j <= Len(a)) /\ Len(a) = i - 1
      BY <1>1, <1>2, <1>3, <2>2
    <3>1. (a \o b)[j] = b[j - (i - 1)] /\ j - (i - 1) \in 1 .. Len(q) - i
      <4>1. (a \o b)[j] = b[j - Len(a)]
        BY <1>5, <3>0
      <4>2. j - (i - 1) \in 1 .. Len(q) - i
        BY <1>1, <2>2
      <4> QED BY <3>0, <4>1, <4>2
    <3>2. b[j - (i - 1)] = q[i + (j - (i - 1))]
      BY <1>3, <3>1
    <3>3. i + (j - (i - 1)) = j + 1
      BY <1>1
    <3> QED BY <3>1, <3>2, <3>3, <2>2
  <2> QED BY <2>1, <2>2
<1> QED BY <1>1, <1>2, <1>3, <1>4, <1>5, <1>6

-----------------------------------------------------------------------------
\* Where run() has counted its thread as active, and where it has a fibre in hand.
Counted == {"dispatch", "swapin", "exec", "handed", "leave", "back"}
Running == {"swapin", "exec", "handed", "leave", "back", "check", "settle", "hold"}
OnStack == {"exec", "handed"}
Active == {t \in Threads : pc[t] \in Counted}
CountFits == m_activeThreadCount = Cardinality(Active)
CurFits == \A t \in Threads :
             IF pc[t] \in Running THEN cur[t] \in Fibers ELSE cur[t] = None

\* Who is EXEC runs somewhere.
ExecRuns == \A f \in Fibers : m_state[f] = "EXEC" =>
              \E t \in Threads : cur[t] = f /\ pc[t] \in OnStack

ControlInv == TypeOK /\ CountFits /\ CurFits /\ ExecRuns

\* A step of thread t leaves the program counters and fibres of the others alone.
Alone(t) ==
  /\ pc' \in [Threads -> Places] /\ cur' \in [Threads -> Fibers \cup {None}]
  /\ \A s \in Threads \ {t} : pc'[s] = pc[s] /\ cur'[s] = cur[s]

\* A set of threads counts as a number, at most as many as there are.
LEMMA ThreadCount ==
  ASSUME NEW A \in SUBSET Threads
  PROVE  IsFiniteSet(A) /\ Cardinality(A) \in 0 .. Cardinality(Threads)
<1>1. IsFiniteSet(Threads)
  BY SchedulerAssumption
<1>2. IsFiniteSet(A) /\ Cardinality(A) <= Cardinality(Threads)
  BY <1>1, FS_Subset
<1>3. Cardinality(A) \in Nat /\ Cardinality(Threads) \in Nat
  BY <1>1, <1>2, FS_CardinalityType
<1> QED BY <1>2, <1>3

\* m_activeThreadCount follows the threads that enter and leave a task.
LEMMA CountKept ==
  ASSUME ControlInv, NEW t \in Threads, Alone(t),
         \/ /\ pc[t] \in Counted <=> pc'[t] \in Counted
            /\ m_activeThreadCount' = m_activeThreadCount
         \/ /\ pc[t] \notin Counted /\ pc'[t] \in Counted
            /\ m_activeThreadCount' = m_activeThreadCount + 1
         \/ /\ pc[t] \in Counted /\ pc'[t] \notin Counted
            /\ m_activeThreadCount' = m_activeThreadCount - 1
  PROVE  CountFits' /\ m_activeThreadCount' \in 0 .. Cardinality(Threads)
<1>1. Active \in SUBSET Threads /\ Active' \in SUBSET Threads
  BY DEF Active
<1>2. /\ IsFiniteSet(Active) /\ Cardinality(Active) \in Nat
      /\ Cardinality(Active') \in 0 .. Cardinality(Threads)
  BY <1>1, ThreadCount
<1>3. m_activeThreadCount = Cardinality(Active)
  BY DEF ControlInv, CountFits
<1>4. Active' \ {t} = Active \ {t} /\ (t \in Active <=> pc[t] \in Counted)
        /\ (t \in Active' <=> pc'[t] \in Counted)
  BY DEF Active, Alone
<1>5. m_activeThreadCount' = Cardinality(Active')
  <2>1. CASE t \in Active <=> t \in Active'
    <3>1. Active' = Active
      BY <1>4, <2>1
    <3> QED BY <1>2, <1>3, <1>4, <2>1, <3>1
  <2>2. CASE t \notin Active /\ t \in Active'
    <3>1. Active' = Active \cup {t}
      BY <1>4, <2>2
    <3>2. Cardinality(Active') = Cardinality(Active) + 1
      BY <1>2, <2>2, <3>1, FS_AddElement
    <3> QED BY <1>2, <1>3, <1>4, <2>2, <3>2
  <2>3. CASE t \in Active /\ t \notin Active'
    <3>1. Active' = Active \ {t}
      BY <1>4, <2>3
    <3>2. Cardinality(Active') = Cardinality(Active) - 1
      BY <1>2, <2>3, <3>1, FS_RemoveElement
    <3> QED BY <1>2, <1>3, <1>4, <2>3, <3>2
  <2> QED BY <2>1, <2>2, <2>3
<1> QED BY <1>2, <1>5 DEF CountFits

\* The rest of ControlInv, from what t does to its own fibre.
LEMMA FibersKept ==
  ASSUME ControlInv, NEW t \in Threads, Alone(t),
         IF pc'[t] \in Running THEN cur'[t] \in Fibers ELSE cur'[t] = None,
         \A f \in Fibers : m_state'[f] = "EXEC" =>
            \/ /\ m_state[f] = "EXEC"
               /\ cur[t] = f /\ pc[t] \in OnStack => cur'[t] = f /\ pc'[t] \in OnStack
            \/ cur'[t] = f /\ pc'[t] \in OnStack
  PROVE  CurFits' /\ ExecRuns'
<1>1. CurFits'
  BY DEF ControlInv, CurFits, Alone
<1>2. ASSUME NEW f \in Fibers, m_state'[f] = "EXEC"
      PROVE  \E s \in Threads : cur'[s] = f /\ pc'[s] \in OnStack
  <2>1. CASE cur'[t] = f /\ pc'[t] \in OnStack
    BY <2>1
  <2>2. CASE ~(cur'[t] = f /\ pc'[t] \in OnStack)
    <3>1. m_state[f] = "EXEC" /\ ~(cur[t] = f /\ pc[t] \in OnStack)
      BY <1>2, <2>2
    <3>2. PICK s \in Threads : cur[s] = f /\ pc[s] \in OnStack
      BY <3>1 DEF ControlInv, ExecRuns
    <3> QED BY <3>1, <3>2 DEF Alone
  <2> QED BY <2>1, <2>2
<1> QED BY <1>1, <1>2 DEF ExecRuns

\* schedule() puts one entry at the end of the list.
LEMMA EntryAdded ==
  ASSUME TypeOK, NEW f \in Fibers \cup {None}, NEW th \in Threads \cup {None},
         Schedule(f, th)
  PROVE  /\ created' \in Nat /\ m_fibers' \in Seq(Entries)
         /\ DOMAIN m_fibers = 1 .. Len(m_fibers) /\ Len(m_fibers) \in Nat
         /\ DOMAIN m_fibers' = 1 .. Len(m_fibers) + 1
         /\ \A i \in DOMAIN m_fibers : m_fibers'[i] = m_fibers[i]
         /\ m_fibers'[Len(m_fibers) + 1].fiber = f
         /\ m_fibers'[Len(m_fibers) + 1].thread = th
<1> DEFINE e == [id |-> created + 1, fiber |-> f, thread |-> th]
<1>1. created \in Nat /\ m_fibers \in Seq(Entries)
  BY DEF TypeOK
<1>2. created + 1 \in Nat /\ e \in Entries
  BY <1>1 DEF Entries
<1>3. created' = created + 1 /\ m_fibers' = Append(m_fibers, e)
  BY DEF Schedule
<1>4. e.fiber = f /\ e.thread = th
  OBVIOUS
<1> HIDE DEF e
<1>5. /\ m_fibers' \in Seq(Entries) /\ Len(m_fibers') = Len(m_fibers) + 1
      /\ \A i \in 1 .. Len(m_fibers) : m_fibers'[i] = m_fibers[i]
      /\ m_fibers'[Len(m_fibers) + 1] = e
  BY <1>1, <1>2, <1>3, AppendProperties
<1> QED BY <1>1, <1>2, <1>3, <1>4, <1>5, LenProperties

\* The steps of the thread that owns the scheduler.
LEMMA ControlMain ==
  ASSUME ControlInv, (\E th \in Pins : MainSchedule(th)) \/ Stop \/ Join \/ UNCHANGED vars
  PROVE  ControlInv'
<1>1. UNCHANGED <<m_activeThreadCount, pc, ft, cb_fiber, cur, idleDone, m_state, saved, done,
                 halt, early>>
  BY DEF MainSchedule, Stop, Join, vars
<1>2. CountFits' /\ CurFits' /\ ExecRuns'
  BY <1>1 DEF ControlInv, CountFits, Active, CurFits, ExecRuns
<1>3. m_fibers' \in Seq(Entries) /\ created' \in Nat
  <2>1. CASE UNCHANGED <<m_fibers, created>>
    BY <2>1 DEF ControlInv, TypeOK
  <2>2. ASSUME NEW th \in Pins, MainSchedule(th)
        PROVE  m_fibers' \in Seq(Entries) /\ created' \in Nat
    BY <2>2, EntryAdded, SchedulerAssumption DEF MainSchedule, ControlInv
  <2> QED BY <2>1, <2>2 DEF Stop, Join, vars
<1>4. m_stopping' \in BOOLEAN /\ joined' \in BOOLEAN
  BY Zenon DEF MainSchedule, Stop, Join, vars, ControlInv, TypeOK
<1> QED BY <1>1, <1>2, <1>3, <1>4 DEF ControlInv, TypeOK

\* What a thread does with the list and its entry, without a fibre in hand.
LEMMA ControlTake ==
  ASSUME ControlInv, NEW t \in Threads,
         Scan(t) \/ Erase(t) \/ Count(t) \/ Idle(t) \/ IdleEnds(t)
  PROVE  ControlInv'
<1>1. /\ TypeOK /\ pc[t] \notin Running /\ pc[t] \notin Counted /\ pc[t] \notin OnStack
      /\ pc[t] \in {"scan", "erase", "count", "idle", "idle2"}
      /\ UNCHANGED <<m_stopping, created, joined, cb_fiber, cur, m_state, saved, done>>
  BY DEF Scan, Erase, Count, Idle, IdleEnds, At, Running, Counted, OnStack, ControlInv
<1>2. /\ pc' \in [Threads -> Places] /\ pc'[t] \notin Running
      /\ \A s \in Threads \ {t} : pc'[s] = pc[s]
  BY <1>1 DEF Scan, Erase, Count, Idle, IdleEnds, At, Go, Running, Places, TypeOK
<1>3. Alone(t)
  BY <1>1, <1>2 DEF Alone, TypeOK
<1>4. \/ pc'[t] \notin Counted /\ m_activeThreadCount' = m_activeThreadCount
      \/ pc'[t] \in Counted /\ m_activeThreadCount' = m_activeThreadCount + 1
  BY <1>1 DEF Scan, Erase, Count, Idle, IdleEnds, At, Go, Counted, TypeOK
<1>5. CountFits' /\ m_activeThreadCount' \in 0 .. Cardinality(Threads)
  BY <1>1, <1>3, <1>4, CountKept
<1>6. CurFits' /\ ExecRuns'
  <2>1. cur'[t] = None
    BY <1>1 DEF ControlInv, CurFits
  <2> QED BY <1>1, <1>2, <1>3, <2>1, FibersKept
<1>7. m_fibers' \in Seq(Entries)
  <2>1. CASE m_fibers' = m_fibers
    BY <1>1, <2>1 DEF TypeOK
  <2>2. ASSUME NEW i \in DOMAIN m_fibers, m_fibers' = RemoveAt(m_fibers, i)
        PROVE  m_fibers' \in Seq(Entries)
    BY <1>1, <2>2, EntryRemoved DEF TypeOK
  <2> QED BY <2>1, <2>2 DEF Scan, Erase, Count, Idle, IdleEnds
<1>8. ft' \in [Threads -> Entries \cup {NoEntry}]
  <2>1. CASE Scan(t)
    <3>1. \A i \in DOMAIN m_fibers : m_fibers[i] \in Entries
      BY <1>1, ElementOfSeq DEF TypeOK
    <3> QED BY <1>1, <2>1, <3>1 DEF Scan, TypeOK
  <2>2. CASE ~Scan(t)
    BY <1>1, <2>2 DEF Erase, Count, Idle, IdleEnds, TypeOK
  <2> QED BY <2>1, <2>2
<1>9. idleDone' \subseteq Threads
  BY <1>1 DEF Scan, Erase, Count, Idle, IdleEnds, TypeOK
<1>10. halt' \in {halt, "scheduler.cpp:180"}
  BY DEF Scan, Erase, Count, Idle, IdleEnds
<1>11. early' \in BOOLEAN
  <2>1. CASE early' = early
    BY <1>1, <2>1 DEF TypeOK
  <2>2. ASSUME NEW b \in BOOLEAN, early' = (early \/ TakenEarly(t, b))
        PROVE  early' \in BOOLEAN
    BY <2>2, Zenon
  <2> QED BY <2>1, <2>2 DEF Scan, Erase, Count, Idle, IdleEnds
<1>12. TypeOK'
  BY <1>1, <1>2, <1>5, <1>7, <1>8, <1>9, <1>10, <1>11 DEF TypeOK
<1> QED BY <1>5, <1>6, <1>12 DEF ControlInv

\* run() decides what to do with its entry.
LEMMA ControlDispatch ==
  ASSUME ControlInv, NEW t \in Threads,
         DispatchFiber(t) \/ \E f \in Fibers : DispatchCb(t, f)
  PROVE  ControlInv'
<1>1. /\ TypeOK /\ pc[t] = "dispatch" /\ cur[t] = None
      /\ UNCHANGED <<m_fibers, m_stopping, created, joined, idleDone, early>>
  BY DEF DispatchFiber, DispatchCb, At, ControlInv, CurFits, Running
<1>2. CASE DispatchFiber(t)
  <2>1. ft[t].fiber \in Fibers
    BY <1>1, <1>2 DEF DispatchFiber, OnCb, TypeOK, Entries, NoEntry
  <2>2. /\ UNCHANGED <<cb_fiber, m_state, saved, done, halt>>
        /\ ft' \in {ft, [ft EXCEPT ![t] = NoEntry]}
        /\ \/ /\ pc' = [pc EXCEPT ![t] = "scan"] /\ cur' = cur
              /\ m_activeThreadCount' = m_activeThreadCount - 1
           \/ /\ pc' = [pc EXCEPT ![t] = "swapin"] /\ cur' = [cur EXCEPT ![t] = ft[t].fiber]
              /\ m_activeThreadCount' = m_activeThreadCount
    BY <1>2 DEF DispatchFiber, Go, ActiveAfter
  <2>3. Alone(t) /\ pc'[t] \in {"scan", "swapin"}
    BY <1>1, <2>1, <2>2 DEF Alone, TypeOK, Places
  <2>4. CountFits' /\ m_activeThreadCount' \in 0 .. Cardinality(Threads)
    BY <1>1, <2>2, <2>3, CountKept DEF TypeOK, Counted
  <2>5. IF pc'[t] \in Running THEN cur'[t] \in Fibers ELSE cur'[t] = None
    BY <1>1, <2>1, <2>2 DEF TypeOK, Running
  <2>6. CurFits' /\ ExecRuns'
    BY <1>1, <2>2, <2>3, <2>5, FibersKept DEF OnStack
  <2>7. TypeOK'
    BY <1>1, <2>2, <2>3, <2>4 DEF TypeOK, Alone
  <2> QED BY <2>4, <2>6, <2>7 DEF ControlInv
<1>3. ASSUME NEW f \in Fibers, DispatchCb(t, f)
      PROVE  ControlInv'
  <2>1. CASE UNCHANGED <<m_state, saved, done, cb_fiber, cur, pc>> /\ halt' = "fiber.cpp:160"
    <3>1. UNCHANGED <<m_activeThreadCount, ft>>
      BY <1>3 DEF DispatchCb
    <3>2. CountFits' /\ CurFits' /\ ExecRuns'
      BY <2>1, <3>1 DEF ControlInv, CountFits, Active, CurFits, ExecRuns
    <3> QED BY <1>1, <2>1, <3>1, <3>2 DEF ControlInv, TypeOK
  <2>2. CASE /\ Set(f, "INIT") /\ saved' = saved \cup {f} /\ done' = done \ {f}
             /\ cb_fiber' = [cb_fiber EXCEPT ![t] = f] /\ cur' = [cur EXCEPT ![t] = f]
             /\ Go(t, "swapin") /\ UNCHANGED halt
    <3>1. UNCHANGED <<m_activeThreadCount, ft>>
      BY <1>3 DEF DispatchCb
    <3>2. Alone(t) /\ pc'[t] = "swapin" /\ cur'[t] = f
      BY <1>1, <2>2 DEF Alone, Go, TypeOK, Places
    <3>3. CountFits' /\ m_activeThreadCount' \in 0 .. Cardinality(Threads)
      BY <1>1, <3>1, <3>2, CountKept DEF Counted
    <3>4. \A g \in Fibers : m_state'[g] = "EXEC" => m_state[g] = "EXEC"
      BY <1>1, <2>2 DEF Set, TypeOK
    <3>5. CurFits' /\ ExecRuns'
      BY <1>1, <3>2, <3>4, FibersKept DEF OnStack, Running
    <3>6. /\ m_state' \in [Fibers -> {"INIT", "HOLD", "EXEC", "TERM", "READY", "EXCEPT"}]
          /\ cb_fiber' \in [Threads -> Fibers \cup {None}]
          /\ saved' \subseteq Fibers /\ done' \subseteq Fibers
      BY <1>1, <2>2 DEF Set, TypeOK
    <3>7. TypeOK'
      BY <1>1, <2>2, <3>1, <3>2, <3>3, <3>6 DEF TypeOK, Alone
    <3> QED BY <3>3, <3>5, <3>7 DEF ControlInv
  <2> QED BY <1>3, <2>1, <2>2 DEF DispatchCb
<1> QED BY <1>2, <1>3

\* The fibre of a thread runs, yields or ends.
FiberStep(t) ==
  \/ SwapIn(t) \/ YieldToHold(t) \/ YieldToReady(t)
  \/ (\E st \in {"TERM", "EXCEPT"} : Finish(t, st))
  \/ (\E th \in Pins : TaskSchedule(t, th) \/ HandOver(t, th))
  \/ SwapOut(t) \/ Back(t)

LEMMA ControlFiber ==
  ASSUME ControlInv, NEW t \in Threads, FiberStep(t)
  PROVE  ControlInv'
<1> DEFINE States == {"INIT", "HOLD", "EXEC", "TERM", "READY", "EXCEPT"}
<1>1. /\ TypeOK /\ pc[t] \in {"swapin", "exec", "handed", "leave", "back"}
      /\ UNCHANGED <<m_stopping, joined, ft, cb_fiber, cur, idleDone, early>>
  BY DEF FiberStep, SwapIn, YieldToHold, YieldToReady, Yield, Finish, TaskSchedule,
         HandOver, SwapOut, Back, At, ControlInv
<1>2. cur[t] \in Fibers /\ cur'[t] = cur[t] /\ m_state \in [Fibers -> States]
  BY <1>1 DEF ControlInv, CurFits, Running, TypeOK
<1>3. /\ pc' \in [Threads -> Places]
      /\ pc'[t] \in {"swapin", "exec", "handed", "leave", "back", "check"}
      /\ \A s \in Threads \ {t} : pc'[s] = pc[s]
  BY <1>1 DEF FiberStep, SwapIn, YieldToHold, YieldToReady, Yield, Finish, TaskSchedule,
         HandOver, SwapOut, Back, At, Go, Places, TypeOK
<1>4. Alone(t)
  BY <1>1, <1>3 DEF Alone, TypeOK
<1>5. \/ /\ pc[t] \in Counted <=> pc'[t] \in Counted
         /\ m_activeThreadCount' = m_activeThreadCount
      \/ /\ pc[t] \in Counted /\ pc'[t] \notin Counted
         /\ m_activeThreadCount' = m_activeThreadCount - 1
  BY <1>1 DEF FiberStep, SwapIn, YieldToHold, YieldToReady, Yield, Finish, TaskSchedule,
         HandOver, SwapOut, Back, At, Go, Counted, TypeOK, ActiveAfter
<1>6. CountFits' /\ m_activeThreadCount' \in 0 .. Cardinality(Threads)
  BY <1>4, <1>5, CountKept
<1>7. m_state' \in [Fibers -> States] /\ \A f \in Fibers \ {cur[t]} : m_state'[f] = m_state[f]
  BY <1>2 DEF FiberStep, SwapIn, YieldToHold, YieldToReady, Yield, Finish, TaskSchedule,
         HandOver, SwapOut, Back, Set
<1>8. m_state'[cur[t]] = "EXEC" =>
         \/ pc'[t] \in OnStack
         \/ m_state[cur[t]] = "EXEC" /\ pc[t] \notin OnStack
  BY <1>1, <1>2 DEF FiberStep, SwapIn, YieldToHold, YieldToReady, Yield, Finish, TaskSchedule,
         HandOver, SwapOut, Back, Set, At, Go, OnStack, TypeOK
<1>9. CurFits' /\ ExecRuns'
  <2>1. pc'[t] \in Running
    BY <1>3 DEF Running
  <2>2. ASSUME NEW f \in Fibers, m_state'[f] = "EXEC"
        PROVE  \/ /\ m_state[f] = "EXEC"
                  /\ cur[t] = f /\ pc[t] \in OnStack => cur'[t] = f /\ pc'[t] \in OnStack
               \/ cur'[t] = f /\ pc'[t] \in OnStack
    BY <1>2, <1>7, <1>8, <2>2
  <2> QED BY <1>2, <1>4, <2>1, <2>2, FibersKept
<1>10. m_fibers' \in Seq(Entries) /\ created' \in Nat
  <2>1. CASE UNCHANGED <<m_fibers, created>>
    BY <1>1, <2>1 DEF TypeOK
  <2>2. ASSUME NEW th \in Pins, TaskSchedule(t, th) \/ HandOver(t, th)
        PROVE  m_fibers' \in Seq(Entries) /\ created' \in Nat
    BY <1>1, <1>2, <2>2, EntryAdded, SchedulerAssumption DEF TaskSchedule, HandOver
  <2> QED BY <2>1, <2>2 DEF FiberStep, SwapIn, YieldToHold, YieldToReady, Yield, Finish,
             SwapOut, Back
<1>11. saved' \subseteq Fibers /\ done' \subseteq Fibers
  BY <1>1, <1>2 DEF FiberStep, SwapIn, YieldToHold, YieldToReady, Yield, Finish, TaskSchedule,
         HandOver, SwapOut, Back, TypeOK
<1>12. halt' \in {halt, "fiber.cpp:137", "stack", "fiber.cpp:205", "fiber.cpp:197", "fiber.cpp:248"}
  BY DEF FiberStep, SwapIn, YieldToHold, YieldToReady, Yield, Finish, TaskSchedule,
         HandOver, SwapOut, Back
<1>13. TypeOK'
  BY <1>1, <1>4, <1>6, <1>7, <1>10, <1>11, <1>12 DEF TypeOK, Alone
<1> QED BY <1>6, <1>9, <1>13 DEF ControlInv

\* run() is done with the fibre, for now.
LEMMA ControlDone ==
  ASSUME ControlInv, NEW t \in Threads, Check(t) \/ Settle(t) \/ SetHold(t)
  PROVE  ControlInv'
<1> DEFINE States == {"INIT", "HOLD", "EXEC", "TERM", "READY", "EXCEPT"}
<1>1. /\ TypeOK /\ pc[t] \in {"check", "settle", "hold"}
      /\ UNCHANGED <<m_stopping, joined, m_activeThreadCount, idleDone, saved, early>>
  BY DEF Check, Settle, SetHold, At, ControlInv
<1>2. cur[t] \in Fibers /\ m_state \in [Fibers -> States]
  BY <1>1 DEF ControlInv, CurFits, Running, TypeOK
<1>3. \/ /\ pc' = [pc EXCEPT ![t] = "scan"] /\ \E b : LetGo(t, b)
      \/ /\ pc' = [pc EXCEPT ![t] = "settle"] /\ UNCHANGED <<ft, cur, cb_fiber>>
      \/ /\ pc' = [pc EXCEPT ![t] = "hold"] /\ UNCHANGED <<ft, cur, cb_fiber>>
  BY DEF Check, Settle, SetHold, Go
<1>4. /\ ft' \in [Threads -> Entries \cup {NoEntry}]
      /\ cb_fiber' \in [Threads -> Fibers \cup {None}]
      /\ cur' \in [Threads -> Fibers \cup {None}]
      /\ \A s \in Threads \ {t} : cur'[s] = cur[s]
      /\ IF pc'[t] \in Running THEN cur'[t] \in Fibers ELSE cur'[t] = None
  BY <1>1, <1>2, <1>3 DEF LetGo, TypeOK, Running
<1>5. Alone(t) /\ pc'[t] \notin Counted /\ pc[t] \notin Counted /\ pc[t] \notin OnStack
  BY <1>1, <1>3, <1>4 DEF Alone, Counted, OnStack, TypeOK, Places
<1>6. CountFits' /\ m_activeThreadCount' \in 0 .. Cardinality(Threads)
  BY <1>1, <1>5, CountKept
<1>7. /\ m_state' \in [Fibers -> States]
      /\ \A f \in Fibers : m_state'[f] = "EXEC" => m_state[f] = "EXEC"
  BY <1>1, <1>2 DEF Check, Settle, SetHold, Set
<1>8. CurFits' /\ ExecRuns'
  BY <1>4, <1>5, <1>7, FibersKept
<1>9. m_fibers' \in Seq(Entries) /\ created' \in Nat
  <2>1. CASE UNCHANGED <<m_fibers, created>>
    BY <1>1, <2>1 DEF TypeOK
  <2>2. CASE Schedule(cur[t], None)
    BY <1>1, <1>2, <2>2, EntryAdded
  <2> QED BY <2>1, <2>2 DEF Check, Settle, SetHold
<1>10. halt' \in {halt, "fiber.cpp:83"}
  BY DEF Check, Settle, SetHold
<1>11. done' \subseteq Fibers
  BY <1>1 DEF Check, Settle, SetHold, TypeOK
<1>12. TypeOK'
  BY <1>1, <1>4, <1>5, <1>6, <1>7, <1>9, <1>10, <1>11 DEF TypeOK, Alone
<1> QED BY <1>6, <1>8, <1>12 DEF ControlInv

\* Every step keeps the counter equal to the number of active threads.
LEMMA ControlInductive ==
  ASSUME ControlInv, [Next]_vars
  PROVE  ControlInv'
<1>1. CASE (\E th \in Pins : MainSchedule(th)) \/ Stop \/ Join \/ UNCHANGED vars
  BY <1>1, ControlMain
<1>2. ASSUME NEW t \in Threads, Run(t) \/ FiberStep(t)
      PROVE  ControlInv'
  <2>1. CASE Scan(t) \/ Erase(t) \/ Count(t) \/ Idle(t) \/ IdleEnds(t)
    BY <2>1, ControlTake
  <2>2. CASE DispatchFiber(t) \/ \E f \in Fibers : DispatchCb(t, f)
    BY <2>2, ControlDispatch
  <2>3. CASE FiberStep(t)
    BY <2>3, ControlFiber
  <2>4. CASE Check(t) \/ Settle(t) \/ SetHold(t)
    BY <2>4, ControlDone
  <2> QED BY <1>2, <2>1, <2>2, <2>3, <2>4 DEF Run, FiberStep
<1>3. ASSUME NEW t \in Threads, \/ YieldToReady(t)
                                \/ \E th \in Pins : TaskSchedule(t, th) \/ HandOver(t, th)
      PROVE  ControlInv'
  BY <1>3, ControlFiber DEF FiberStep
<1> QED BY <1>1, <1>2, <1>3 DEF Next

-----------------------------------------------------------------------------
\* A worker leaves only after stop(), and the last one to leave has looked at the list
\* when nothing ran: no entry is then left that any thread may take.
AllEnded == \A t \in Threads : pc[t] = "ended"
LeaveInv ==
  /\ \A t \in Threads : pc[t] = "ended" => t \in idleDone
  /\ \A t \in Threads : pc[t] = "idle2" => m_stopping
  /\ idleDone # {} => m_stopping
  /\ joined => m_stopping /\ AllEnded
  /\ AllEnded => \A i \in DOMAIN m_fibers : m_fibers[i].thread # None

\* A thread that ends finds entries for all threads only where a fibre still runs.
LEMMA LastLooks ==
  ASSUME ControlInv, LeaveInv, NEW t \in Threads, Scan(t), pc'[t] = "ended"
  PROVE  ~AllEnded' \/ \A i \in DOMAIN m_fibers' : m_fibers'[i].thread # None
<1>1. /\ pc[t] = "scan" /\ m_fibers' = m_fibers
      /\ \A i \in DOMAIN m_fibers : ~Takes(t, m_fibers[i])
      /\ \A s \in Threads \ {t} : pc'[s] = pc[s]
  BY DEF Scan, At, Go, ControlInv, TypeOK
<1>2. ASSUME NEW i \in DOMAIN m_fibers, m_fibers[i].thread = None
      PROVE  ~AllEnded'
  <2>1. m_fibers[i].fiber \in Fibers /\ m_state[m_fibers[i].fiber] = "EXEC"
    BY <1>1, <1>2 DEF Takes
  <2>2. PICK s \in Threads : pc[s] \in OnStack
    BY <2>1 DEF ControlInv, ExecRuns
  <2>3. s # t /\ pc'[s] # "ended"
    BY <1>1, <2>2 DEF OnStack
  <2> QED BY <2>3 DEF AllEnded
<1> QED BY <1>1, <1>2

LEMMA LeaveInductive ==
  ASSUME ControlInv, LeaveInv, [Next]_vars
  PROVE  LeaveInv'
<1>1. CASE UNCHANGED vars
  BY <1>1 DEF LeaveInv, AllEnded, vars
<1>2. CASE \E th \in Pins : MainSchedule(th)
  <2>1. ~m_stopping /\ UNCHANGED <<m_stopping, joined, pc, idleDone>>
    BY <1>2 DEF MainSchedule
  <2>2. ~AllEnded
    BY <2>1, SchedulerAssumption DEF LeaveInv, AllEnded
  <2> QED BY <2>1, <2>2 DEF LeaveInv, AllEnded
<1>3. CASE Stop
  BY <1>3 DEF Stop, LeaveInv, AllEnded
<1>4. CASE Join
  BY <1>4 DEF Join, LeaveInv, AllEnded
<1>5. ASSUME NEW t \in Threads, Run(t) \/ FiberStep(t)
      PROVE  LeaveInv'
  <2>1. pc[t] # "ended" /\ UNCHANGED <<m_stopping, joined>> /\ pc \in [Threads -> Places]
    BY <1>5 DEF Run, FiberStep, Scan, Erase, Count, DispatchFiber, DispatchCb, SwapIn,
       YieldToHold, YieldToReady, Yield, Finish, TaskSchedule, HandOver, SwapOut, Back,
       Check, Settle, SetHold, Idle, IdleEnds, At, ControlInv, TypeOK
  <2>2. ~AllEnded /\ ~joined
    BY <2>1 DEF LeaveInv, AllEnded
  <2>3. /\ \A s \in Threads \ {t} : pc'[s] = pc[s]
        /\ pc'[t] = "ended" => Scan(t) /\ t \in idleDone
        /\ pc'[t] = "idle2" => m_stopping
    BY <1>5, <2>1 DEF Run, FiberStep, Scan, Erase, Count, DispatchFiber, DispatchCb, SwapIn,
       YieldToHold, YieldToReady, Yield, Finish, TaskSchedule, HandOver, SwapOut, Back,
       Check, Settle, SetHold, Idle, IdleEnds, At, Go, MayEnd, LeaveInv
  <2>4. idleDone \subseteq idleDone' /\ (idleDone' # idleDone => m_stopping)
    BY <1>5, <2>1 DEF Run, FiberStep, Scan, Erase, Count, DispatchFiber, DispatchCb, SwapIn,
       YieldToHold, YieldToReady, Yield, Finish, TaskSchedule, HandOver, SwapOut, Back,
       Check, Settle, SetHold, Idle, IdleEnds, At, LeaveInv
  <2>5. AllEnded' => \A i \in DOMAIN m_fibers' : m_fibers'[i].thread # None
    BY <2>3, LastLooks DEF AllEnded
  <2> QED BY <2>1, <2>2, <2>3, <2>4, <2>5 DEF LeaveInv
<1> QED BY <1>1, <1>2, <1>3, <1>4, <1>5 DEF Next, FiberStep

\* What holds of every reachable state, whatever the tasks do.
LEMMA Invariant == Spec => [](ControlInv /\ LeaveInv)
<1>1. ASSUME Init PROVE ControlInv /\ LeaveInv
  <2>1. Active = {} /\ Cardinality({}) = 0 /\ Cardinality(Threads) \in Nat
    BY <1>1, FS_EmptySet, FS_CardinalityType, SchedulerAssumption DEF Init, Active, Counted
  <2>2. TypeOK
    <3>1. m_fibers \in Seq(Entries) /\ created \in Nat /\ idleDone \subseteq Threads
           /\ saved \subseteq Fibers /\ done \subseteq Fibers /\ halt = "no"
           /\ m_activeThreadCount \in 0 .. Cardinality(Threads)
      BY <1>1, <2>1 DEF Init
    <3>2. m_stopping \in BOOLEAN /\ joined \in BOOLEAN /\ early \in BOOLEAN
      BY <1>1, Zenon DEF Init
    <3>3. /\ pc \in [Threads -> Places] /\ ft \in [Threads -> Entries \cup {NoEntry}]
          /\ cb_fiber \in [Threads -> Fibers \cup {None}]
          /\ cur \in [Threads -> Fibers \cup {None}]
          /\ m_state \in [Fibers -> {"INIT", "HOLD", "EXEC", "TERM", "READY", "EXCEPT"}]
      BY <1>1 DEF Init, Places
    <3> QED BY <3>1, <3>2, <3>3 DEF TypeOK
  <2>3. CountFits /\ CurFits /\ ExecRuns
    BY <1>1, <2>1 DEF Init, CountFits, CurFits, ExecRuns, Running
  <2>4. LeaveInv
    BY <1>1, SchedulerAssumption DEF Init, LeaveInv, AllEnded
  <2> QED BY <2>2, <2>3, <2>4 DEF ControlInv
<1> QED BY <1>1, ControlInductive, LeaveInductive, PTL DEF Spec

\* The scheduler keeps its types with any number of threads; in particular
\* m_activeThreadCount counts the threads that are inside a task, so it never
\* falls below zero or rises above the number of threads (scheduler.cpp run()).
THEOREM TypeCorrect == Spec => []TypeOK
<1>1. ControlInv => TypeOK
  BY DEF ControlInv
<1> QED BY <1>1, Invariant, PTL

\* When stop() has joined the workers no thread holds a task and no entry is left
\* that any thread may take, for any number of threads and whatever the tasks do:
\* a thread that schedules comes back to look before it leaves.
THEOREM JoinedMeansDoneHolds == Spec => []JoinedMeansDone
<1>1. ASSUME ControlInv, LeaveInv PROVE JoinedMeansDone
  BY <1>1 DEF ControlInv, CurFits, LeaveInv, AllEnded, JoinedMeansDone, Running
<1> QED BY <1>1, Invariant, PTL

-----------------------------------------------------------------------------
\* Who has which fibre, as long as no fibre was taken twice or too early: a fibre
\* belongs to one thread, or stands once in the list, or both when its task has handed
\* it over and its thread has not let go of it yet.
Taken(t) == IF pc[t] \in {"count", "dispatch"} THEN {ft[t].fiber} ELSE {}
Mine(t) == ({cur[t], cb_fiber[t]} \cup Taken(t)) \cap Fibers
InQueue == {m_fibers[i].fiber : i \in DOMAIN m_fibers} \cap Fibers
Once == \A i, j \in DOMAIN m_fibers :
          m_fibers[i].fiber \in Fibers /\ m_fibers[i].fiber = m_fibers[j].fiber => i = j

\* The fibre t runs or ran and that has been handed over.
Behind == {"leave", "back", "check", "settle", "hold"}
Given(t) ==
  IF pc[t] = "handed" \/ (pc[t] \in Behind /\ m_state[cur[t]] = "HOLD")
  THEN {cur[t]} ELSE {}
Apart ==
  /\ \A s, t \in Threads : s # t => Mine(s) \cap Mine(t) = {}
  /\ \A t \in Threads : Mine(t) \cap InQueue = Given(t)

\* Who waits for a thread is suspended, and nobody is on its stack.
Resting(f) == m_state[f] \in {"READY", "HOLD"} /\ f \in saved /\ f \notin done
QueueRests == \A f \in InQueue : Resting(f) \/ \E t \in Threads : f \in Given(t)

\* The states the fibre in hand may have, by the place of its thread in run().
StateAt(place) ==
  {st \in {"INIT", "EXEC", "READY", "TERM", "EXCEPT", "HOLD"} :
     \/ place = "swapin" /\ st \in {"INIT", "READY", "HOLD"}
     \/ place \in {"exec", "handed"} /\ st = "EXEC"
     \/ place \in {"leave", "back", "check"} /\ st \in {"READY", "TERM", "EXCEPT", "HOLD"}
     \/ place = "settle" /\ st \in {"TERM", "EXCEPT", "HOLD"}
     \/ place = "hold" /\ st = "HOLD"}
OnStackNow == {"exec", "handed", "leave"}

HandFits(t) ==
  pc[t] \in Running =>
    /\ m_state[cur[t]] \in StateAt(pc[t])
    /\ cur[t] \in saved <=> pc[t] \notin OnStackNow
    /\ cur[t] \in done <=> m_state[cur[t]] \in {"TERM", "EXCEPT"}
    /\ OnCb(t) <=> cb_fiber[t] = cur[t]
CbFits(t) ==
  cb_fiber[t] # None /\ cb_fiber[t] # cur[t] =>
    Reusable(m_state[cb_fiber[t]]) /\ cb_fiber[t] \in saved
Fits(t) ==
  /\ \A f \in Taken(t) \cap Fibers : Resting(f)
  /\ HandFits(t) /\ CbFits(t)

OwnInv ==
  /\ Apart /\ Once /\ QueueRests
  /\ \A t \in Threads : Fits(t)
  /\ halt \in {"no", "scheduler.cpp:180"}

Survives == {"no", "scheduler.cpp:180"}

\* Only the fibre in hand can have been handed over.
LEMMA GivenOne ==
  ASSUME ControlInv, NEW t \in Threads
  PROVE  /\ Given(t) \subseteq {cur[t]} /\ Given(t) \subseteq Mine(t)
         /\ pc[t] \notin Running => Given(t) = {}
<1>1. Given(t) \subseteq {cur[t]} /\ (Given(t) # {} => pc[t] \in Running)
  BY DEF Given, Running, Behind
<1>2. pc[t] \in Running => cur[t] \in Mine(t)
  BY DEF ControlInv, CurFits, Mine
<1> QED BY <1>1, <1>2

\* A step that touches no fibre and moves none.
LEMMA OwnStill ==
  ASSUME OwnInv, UNCHANGED <<pc, ft, cb_fiber, cur, m_state, saved, done>>,
         InQueue' = InQueue, Once', halt' \in Survives
  PROVE  OwnInv'
<1>1. \A t \in Threads : Taken(t)' = Taken(t) /\ Mine(t)' = Mine(t) /\ Given(t)' = Given(t)
  BY DEF Taken, Mine, Given, Behind
<1>2. \A t \in Threads : Fits(t)'
  BY <1>1 DEF OwnInv, Fits, HandFits, CbFits, Resting, OnCb, Reusable, StateAt, OnStackNow
<1>3. QueueRests'
  BY <1>1 DEF OwnInv, QueueRests, Resting
<1> QED BY <1>1, <1>2, <1>3 DEF OwnInv, Apart, Survives

\* The other threads, when thread t touches the fibres F at most.
OnlyOf(t, F) ==
  /\ \A s \in Threads \ {t} : /\ pc'[s] = pc[s] /\ ft'[s] = ft[s]
                              /\ cb_fiber'[s] = cb_fiber[s] /\ cur'[s] = cur[s]
                              /\ Mine(s) \cap F = {}
  /\ \A f \in Fibers \ F : /\ m_state'[f] = m_state[f] /\ (f \in saved' <=> f \in saved)
                           /\ f \in done' <=> f \in done

LEMMA OthersFit ==
  ASSUME ControlInv, OwnInv, NEW t \in Threads, NEW F \in SUBSET Fibers, OnlyOf(t, F),
         NEW s \in Threads \ {t}
  PROVE  Fits(s)' /\ Mine(s)' = Mine(s) /\ Given(s)' = Given(s)
<1>1. /\ pc'[s] = pc[s] /\ ft'[s] = ft[s] /\ cb_fiber'[s] = cb_fiber[s] /\ cur'[s] = cur[s]
      /\ Fits(s)
  BY DEF OnlyOf, OwnInv
<1>2. Taken(s)' = Taken(s) /\ Mine(s)' = Mine(s)
  BY <1>1 DEF Taken, Mine
<1>3. \A f \in Mine(s) : /\ m_state'[f] = m_state[f] /\ (f \in saved' <=> f \in saved)
                         /\ f \in done' <=> f \in done
  BY DEF OnlyOf, Mine
<1>4. \A f \in Taken(s)' \cap Fibers : Resting(f)'
  BY <1>1, <1>2, <1>3 DEF Mine, Fits, Resting
<1>5. pc[s] \in Running => cur[s] \in Mine(s)
  BY DEF Mine, ControlInv, CurFits
<1>6. HandFits(s)'
  BY <1>1, <1>3, <1>5 DEF Fits, HandFits, OnCb, StateAt, OnStackNow
<1>7. CbFits(s)'
  <2>1. cb_fiber[s] # None => cb_fiber[s] \in Mine(s)
    BY DEF Mine, ControlInv, TypeOK
  <2> QED BY <1>1, <1>3, <2>1 DEF Fits, CbFits, Reusable
<1>8. Given(s)' = Given(s)
  BY <1>1, <1>3, <1>5 DEF Given, Running, Behind
<1> QED BY <1>1, <1>2, <1>4, <1>6, <1>7, <1>8 DEF Fits

\* A step of thread t: the fibres that enter or leave its hands or the list are among
\* F, and nobody else has one of those.
LEMMA OwnStep ==
  ASSUME ControlInv, OwnInv, NEW t \in Threads, NEW F \in SUBSET Fibers, OnlyOf(t, F),
         Given(t) \subseteq F, Mine(t)' \subseteq Mine(t) \cup F, InQueue' \ F = InQueue \ F,
         Mine(t)' \cap InQueue' = Given(t)', Once',
         \A f \in F \cap InQueue' : Resting(f)' \/ f \in Given(t)',
         Fits(t)', halt' \in Survives
  PROVE  OwnInv'
<1>1. \A s \in Threads \ {t} : /\ Fits(s)' /\ Mine(s)' = Mine(s) /\ Given(s)' = Given(s)
                               /\ Mine(s) \cap F = {}
  BY OthersFit DEF OnlyOf
<1>2. \A s \in Threads \ {t} : Mine(s)' \cap Mine(t)' = {} /\ Mine(s)' \cap InQueue' = Given(s)'
  <2>1. ASSUME NEW s \in Threads \ {t}
        PROVE  Mine(s) \cap Mine(t) = {} /\ Mine(s) \cap InQueue = Given(s)
    BY DEF OwnInv, Apart
  <2> QED BY <1>1, <2>1
<1>3. Apart'
  <2>1. ASSUME NEW r \in Threads, NEW s \in Threads, r # s
        PROVE  Mine(r)' \cap Mine(s)' = {}
    <3>1. CASE r = t \/ s = t
      BY <1>2, <2>1, <3>1
    <3>2. CASE r # t /\ s # t
      BY <1>1, <2>1, <3>2 DEF OwnInv, Apart
    <3> QED BY <3>1, <3>2
  <2> QED BY <1>2, <2>1 DEF Apart
<1>4. ASSUME NEW f \in InQueue', f \notin F
      PROVE  Resting(f)' \/ \E s \in Threads : f \in Given(s)'
  <2>1. f \in InQueue /\ f \in Fibers
    BY <1>4 DEF InQueue
  <2>2. CASE Resting(f)
    BY <1>4, <2>1, <2>2 DEF OnlyOf, Resting
  <2>3. ASSUME NEW s \in Threads, f \in Given(s)
        PROVE  f \in Given(s)'
    BY <1>1, <1>4, <2>3
  <2> QED BY <2>1, <2>2, <2>3 DEF OwnInv, QueueRests
<1>5. QueueRests'
  BY <1>4 DEF QueueRests
<1> QED BY <1>1, <1>3, <1>5 DEF OwnInv, Survives

\* A callback in the list is no fibre.
LEMMA CallbackQueued ==
  ASSUME ControlInv, OwnInv, NEW th \in Pins, Schedule(None, th)
  PROVE  InQueue' = InQueue /\ Once'
<1>1. /\ DOMAIN m_fibers = 1 .. Len(m_fibers) /\ Len(m_fibers) \in Nat
      /\ DOMAIN m_fibers' = 1 .. Len(m_fibers) + 1
      /\ \A i \in DOMAIN m_fibers : m_fibers'[i] = m_fibers[i]
      /\ m_fibers'[Len(m_fibers) + 1].fiber \notin Fibers
  BY EntryAdded, SchedulerAssumption DEF ControlInv
<1>2. \A i \in DOMAIN m_fibers' :
         \/ i \in DOMAIN m_fibers /\ m_fibers'[i] = m_fibers[i]
         \/ m_fibers'[i].fiber \notin Fibers
  BY <1>1
<1>3. DOMAIN m_fibers \subseteq DOMAIN m_fibers'
  BY <1>1
<1>4. Once'
  BY <1>2 DEF OwnInv, Once
<1>5. InQueue' = {m_fibers'[i].fiber : i \in DOMAIN m_fibers'} \cap Fibers
  BY DEF InQueue
<1> QED BY <1>1, <1>2, <1>3, <1>4, <1>5 DEF InQueue

\* A fibre that is nowhere in the list is added to it.
LEMMA FiberQueued ==
  ASSUME ControlInv, OwnInv, NEW f \in Fibers, f \notin InQueue,
         NEW th \in Threads \cup {None}, Schedule(f, th)
  PROVE  InQueue' = InQueue \cup {f} /\ Once'
<1>1. /\ DOMAIN m_fibers = 1 .. Len(m_fibers) /\ Len(m_fibers) \in Nat
      /\ DOMAIN m_fibers' = 1 .. Len(m_fibers) + 1
      /\ \A i \in DOMAIN m_fibers : m_fibers'[i] = m_fibers[i]
      /\ m_fibers'[Len(m_fibers) + 1].fiber = f
  BY EntryAdded DEF ControlInv
<1>2. \A i \in DOMAIN m_fibers' :
         \/ i \in DOMAIN m_fibers /\ m_fibers'[i] = m_fibers[i]
         \/ i = Len(m_fibers) + 1 /\ m_fibers'[i].fiber = f
  BY <1>1
<1>3. DOMAIN m_fibers \subseteq DOMAIN m_fibers' /\ Len(m_fibers) + 1 \in DOMAIN m_fibers'
  BY <1>1
<1>4. \A i \in DOMAIN m_fibers : m_fibers[i].fiber # f
  BY DEF InQueue
<1>5. Once'
  BY <1>2, <1>4 DEF OwnInv, Once
<1>6. InQueue' = {m_fibers'[i].fiber : i \in DOMAIN m_fibers'} \cap Fibers
  BY DEF InQueue
<1> QED BY <1>1, <1>2, <1>3, <1>5, <1>6 DEF InQueue

\* Erasing an entry takes its fibre, and no other, out of the list.
LEMMA FiberErased ==
  ASSUME ControlInv, OwnInv, NEW k \in DOMAIN m_fibers, m_fibers' = RemoveAt(m_fibers, k)
  PROVE  InQueue' = InQueue \ {m_fibers[k].fiber} /\ Once'
<1>1. m_fibers \in Seq(Entries) /\ DOMAIN m_fibers = 1 .. Len(m_fibers) /\ Len(m_fibers) \in Nat
  BY LenProperties DEF ControlInv, TypeOK
<1>2. /\ m_fibers' \in Seq(Entries) /\ Len(m_fibers') = Len(m_fibers) - 1
      /\ \A j \in 1 .. Len(m_fibers) - 1 :
           m_fibers'[j] = IF j < k THEN m_fibers[j] ELSE m_fibers[j + 1]
  BY <1>1, EntryRemoved
<1>3. DOMAIN m_fibers' = 1 .. Len(m_fibers) - 1
  BY <1>2, LenProperties
<1> DEFINE at(j) == IF j < k THEN j ELSE j + 1
<1>4. \A j \in DOMAIN m_fibers' : at(j) \in DOMAIN m_fibers /\ at(j) # k /\ m_fibers'[j] = m_fibers[at(j)]
  BY <1>1, <1>2, <1>3
<1>5. \A i, j \in DOMAIN m_fibers' : at(i) = at(j) => i = j
  BY <1>1, <1>3
<1>6. ASSUME NEW i \in DOMAIN m_fibers, i # k
      PROVE  \E j \in DOMAIN m_fibers' : at(j) = i
  <2>1. CASE i < k
    BY <1>1, <1>3, <2>1
  <2>2. CASE i > k
    <3>1. i - 1 \in DOMAIN m_fibers' /\ at(i - 1) = i
      BY <1>1, <1>3, <2>2
    <3> QED BY <3>1
  <2> QED BY <1>1, <1>6, <2>1, <2>2
<1> HIDE DEF at
<1>7. Once'
  BY <1>4, <1>5 DEF OwnInv, Once
<1>8. InQueue' = {m_fibers'[i].fiber : i \in DOMAIN m_fibers'} \cap Fibers
  BY DEF InQueue
<1>9. ASSUME NEW j \in DOMAIN m_fibers', m_fibers'[j].fiber \in Fibers
      PROVE  m_fibers'[j].fiber \in InQueue /\ m_fibers'[j].fiber # m_fibers[k].fiber
  BY <1>4, <1>9 DEF OwnInv, Once, InQueue
<1>10. ASSUME NEW i \in DOMAIN m_fibers, i # k
       PROVE  \E j \in DOMAIN m_fibers' : m_fibers'[j].fiber = m_fibers[i].fiber
  BY <1>4, <1>6, <1>10
<1>11. ASSUME NEW f \in InQueue, f # m_fibers[k].fiber
       PROVE  f \in InQueue'
  <2>1. PICK i \in DOMAIN m_fibers : f = m_fibers[i].fiber /\ f \in Fibers
    BY DEF InQueue
  <2> QED BY <1>8, <1>10, <1>11, <2>1
<1> QED BY <1>7, <1>8, <1>9, <1>11

\* A thread takes an entry, or finds none.
LEMMA OwnTake ==
  ASSUME ControlInv, OwnInv, ~early', NEW t \in Threads,
         Scan(t) \/ Erase(t) \/ Count(t) \/ Idle(t) \/ IdleEnds(t)
  PROVE  OwnInv'
<1>1. /\ pc[t] \in {"scan", "erase", "count", "idle", "idle2"} /\ halt = "no"
      /\ UNCHANGED <<cb_fiber, cur, m_state, saved, done>>
      /\ pc \in [Threads -> Places] /\ ft \in [Threads -> Entries \cup {NoEntry}]
      /\ None \notin Fibers
  BY SchedulerAssumption DEF Scan, Erase, Count, Idle, IdleEnds, At, ControlInv, TypeOK
<1>2. Given(t) = {} /\ Mine(t) \cap InQueue = {} /\ Fits(t) /\ pc[t] \notin Running
  BY <1>1, GivenOne DEF Running, OwnInv, Apart
<1>3. CASE UNCHANGED <<pc, m_fibers, ft>>
  <2>1. InQueue' = InQueue /\ Once'
    BY <1>3 DEF InQueue, Once, OwnInv
  <2>2. halt' \in Survives
    BY <1>1 DEF Scan, Erase, Count, Idle, IdleEnds, Survives
  <2> QED BY <1>1, <1>3, <2>1, <2>2, OwnStill
<1>4. CASE /\ UNCHANGED <<m_fibers, halt>>
           /\ \/ pc[t] = "count" /\ pc'[t] = "dispatch" /\ ft' = ft
              \/ pc[t] = "erase" /\ pc'[t] = "count" /\ ft' = ft /\ ft[t].fiber = None
              \/ pc[t] # "count" /\ pc'[t] \in {"erase", "ended", "idle", "idle2", "scan"}
           /\ \A s \in Threads \ {t} : pc'[s] = pc[s] /\ ft'[s] = ft[s]
  <2>1. InQueue' = InQueue /\ Once'
    BY <1>1, <1>4 DEF InQueue, Once, OwnInv
  <2>2. Taken(t)' \cap Fibers = Taken(t) \cap Fibers /\ Mine(t)' = Mine(t)
    BY <1>1, <1>4 DEF Taken, Mine
  <2>3. Fits(t)'
    BY <1>1, <1>2, <1>4, <2>2 DEF Fits, HandFits, CbFits, Resting, Running, Reusable
  <2>4. OnlyOf(t, {}) /\ Given(t)' = {}
    BY <1>1, <1>4 DEF OnlyOf, Given, Behind
  <2>5. halt' \in Survives
    BY <1>1, <1>4 DEF Survives
  <2> QED BY <1>2, <2>1, <2>2, <2>3, <2>4, <2>5, OwnStep
<1>5. ASSUME NEW k \in DOMAIN m_fibers, m_fibers[k] = ft[t], m_fibers' = RemoveAt(m_fibers, k),
             pc[t] = "erase", Go(t, "count"), UNCHANGED <<ft, halt>>, ~TakenEarly(t, FALSE)
      PROVE  OwnInv'
  <2> DEFINE f == ft[t].fiber
  <2> DEFINE F == {f} \cap Fibers
  <2>1. InQueue' = InQueue \ {f} /\ Once'
    BY <1>5, FiberErased
  <2>2. pc'[t] = "count" /\ \A s \in Threads \ {t} : pc'[s] = pc[s]
    BY <1>1, <1>5 DEF Go
  <2>3. F \subseteq InQueue /\ \A s \in Threads \ {t} : f \in Fibers => cur[s] # f
    BY <1>1, <1>5 DEF InQueue, TakenEarly
  <2>4. ASSUME NEW s \in Threads \ {t} PROVE Mine(s) \cap F = {}
    <3>1. Mine(s) \cap InQueue = Given(s) /\ Given(s) \subseteq {cur[s]}
      BY GivenOne DEF OwnInv, Apart
    <3> QED BY <2>3, <3>1
  <2>5. \A g \in F : Resting(g)
    <3>1. \A s \in Threads : Given(s) \cap F = {}
      BY <1>2, <2>4, GivenOne
    <3> QED BY <2>3, <3>1 DEF OwnInv, QueueRests
  <2>6. Taken(t)' = {f} /\ Mine(t)' = Mine(t) \cup F
    BY <1>1, <1>5, <2>2 DEF Taken, Mine
  <2>7. Fits(t)'
    <3>1. \A g \in Taken(t)' \cap Fibers : Resting(g)'
      BY <1>1, <2>5, <2>6 DEF Resting
    <3>2. CbFits(t)'
      BY <1>1, <1>2 DEF Fits, CbFits, Reusable
    <3> QED BY <2>2, <3>1, <3>2 DEF Fits, HandFits, Running
  <2>8. OnlyOf(t, F) /\ Given(t)' = {} /\ halt' \in Survives
    BY <1>1, <1>5, <2>2, <2>4 DEF OnlyOf, Given, Behind, Survives
  <2>9. /\ Mine(t)' \cap InQueue' = {} /\ InQueue' \ F = InQueue \ F /\ F \cap InQueue' = {}
        /\ F \in SUBSET Fibers
    <3>1. InQueue \subseteq Fibers /\ Mine(t) \subseteq Fibers
      BY DEF InQueue, Mine
    <3> QED BY <1>2, <2>1, <2>6, <3>1
  <2> HIDE DEF F
  <2> QED BY <1>2, <2>1, <2>6, <2>7, <2>8, <2>9, OwnStep
<1>6. ASSUME NEW gone \in BOOLEAN, early' = (early \/ TakenEarly(t, gone))
      PROVE  ~TakenEarly(t, gone)
  BY <1>6, Zenon
<1>7. CASE Scan(t)
  BY <1>1, <1>4, <1>7 DEF Scan, At, Go
<1>8. CASE Erase(t)
  <2>1. CASE \A i \in DOMAIN m_fibers : m_fibers[i] # ft[t]
    <3>1. CASE UNCHANGED pc
      BY <1>3, <1>8, <2>1, <3>1 DEF Erase
    <3>2. CASE Go(t, "count") /\ early' = (early \/ TakenEarly(t, TRUE)) /\ UNCHANGED halt
      <4>1. ft[t].fiber = None
        BY <1>6, <3>2 DEF TakenEarly
      <4> QED BY <1>1, <1>4, <1>8, <2>1, <3>2, <4>1 DEF Erase, At, Go
    <3> QED BY <1>8, <2>1, <3>1, <3>2 DEF Erase
  <2>2. ASSUME NEW i \in DOMAIN m_fibers, m_fibers[i] = ft[t], m_fibers' = RemoveAt(m_fibers, i),
               Go(t, "count"), early' = (early \/ TakenEarly(t, FALSE)), UNCHANGED halt
        PROVE  OwnInv'
    <3>1. ~TakenEarly(t, FALSE)
      BY <1>6, <2>2
    <3> QED BY <1>5, <1>8, <2>2, <3>1 DEF Erase, At
  <2> QED BY <1>8, <2>1, <2>2 DEF Erase
<1>9. CASE Count(t)
  BY <1>1, <1>4, <1>9 DEF Count, At, Go
<1>10. CASE Idle(t)
  BY <1>1, <1>4, <1>10 DEF Idle, At, Go
<1>11. CASE IdleEnds(t)
  BY <1>1, <1>4, <1>11 DEF IdleEnds, At, Go
<1> QED BY <1>7, <1>8, <1>9, <1>10, <1>11

\* run() takes the fibre of its entry, or gives a callback a fibre nobody else has.
LEMMA OwnDispatch ==
  ASSUME ControlInv, OwnInv, NEW t \in Threads,
         DispatchFiber(t) \/ \E f \in Fibers : DispatchCb(t, f)
  PROVE  OwnInv'
<1>1. /\ pc[t] = "dispatch" /\ cur[t] = None /\ halt = "no"
      /\ UNCHANGED m_fibers /\ pc \in [Threads -> Places]
      /\ cur \in [Threads -> Fibers \cup {None}] /\ cb_fiber \in [Threads -> Fibers \cup {None}]
      /\ ft \in [Threads -> Entries \cup {NoEntry}]
      /\ m_state \in [Fibers -> {"INIT", "HOLD", "EXEC", "TERM", "READY", "EXCEPT"}]
  BY DEF DispatchFiber, DispatchCb, At, ControlInv, CurFits, Running, TypeOK
<1>2. /\ InQueue' = InQueue /\ Once' /\ Fits(t) /\ Given(t) = {}
      /\ Mine(t) \cap InQueue = {} /\ None \notin Fibers
  BY <1>1, SchedulerAssumption DEF InQueue, Once, OwnInv, Apart, Given, Behind
<1>3. CASE DispatchFiber(t)
  <2> DEFINE f == ft[t].fiber
  <2>1. f \in Fibers /\ ~OnCb(t)
    BY <1>1, <1>3 DEF DispatchFiber, OnCb, Entries, NoEntry
  <2>2. f \in Taken(t) /\ f \in Mine(t) /\ Resting(f)
    BY <1>1, <1>2, <2>1 DEF Taken, Mine, Fits
  <2>3. /\ cur' = [cur EXCEPT ![t] = f] /\ pc' = [pc EXCEPT ![t] = "swapin"]
        /\ UNCHANGED <<ft, cb_fiber, m_state, saved, done, halt>>
    BY <1>3, <2>2 DEF DispatchFiber, Go, Resting
  <2>4. cb_fiber[t] # f
    BY <1>1, <1>2, <2>1, <2>2 DEF Fits, CbFits, Reusable, Resting
  <2> HIDE DEF f
  <2>5. /\ pc'[t] = "swapin" /\ cur'[t] = f /\ cb_fiber'[t] = cb_fiber[t]
        /\ \A s \in Threads \ {t} : pc'[s] = pc[s] /\ cur'[s] = cur[s]
    BY <1>1, <2>3
  <2>6. Taken(t)' = {} /\ Mine(t)' \subseteq Mine(t) /\ Given(t)' = {}
    BY <2>2, <2>5 DEF Taken, Mine, Given, Behind
  <2>7. Fits(t)'
    <3>1. HandFits(t)'
      <4>1. ~OnCb(t)'
        BY <2>1, <2>3 DEF OnCb
      <4> QED BY <2>2, <2>3, <2>4, <2>5, <4>1 DEF HandFits, Resting, StateAt, OnStackNow
    <3>2. CbFits(t)'
      BY <1>1, <1>2, <2>3, <2>5 DEF Fits, CbFits, Reusable
    <3> QED BY <2>5, <2>6, <3>1, <3>2 DEF Fits
  <2>8. OnlyOf(t, {}) /\ halt' \in Survives
    BY <1>1, <2>3, <2>5 DEF OnlyOf, Survives
  <2>9. Mine(t)' \cap InQueue' = Given(t)'
    BY <1>2, <2>6
  <2> QED BY <1>2, <2>6, <2>7, <2>8, <2>9, OwnStep
<1>4. ASSUME NEW f \in Fibers, DispatchCb(t, f)
      PROVE  OwnInv'
  <2>1. IF cb_fiber[t] = None THEN Free(f, t) ELSE f = cb_fiber[t]
    BY <1>4 DEF DispatchCb
  <2>2. cb_fiber[t] = None \/ Reusable(m_state[f])
    BY <1>1, <1>2, <2>1 DEF Fits, CbFits
  <2>3. /\ m_state' = [m_state EXCEPT ![f] = "INIT"] /\ saved' = saved \cup {f}
        /\ done' = done \ {f}
        /\ cb_fiber' = [cb_fiber EXCEPT ![t] = f] /\ cur' = [cur EXCEPT ![t] = f]
        /\ pc' = [pc EXCEPT ![t] = "swapin"] /\ UNCHANGED <<ft, halt>> /\ OnCb(t)
    BY <1>4, <2>2 DEF DispatchCb, Set, Go
  <2>4. /\ pc'[t] = "swapin" /\ cur'[t] = f /\ cb_fiber'[t] = f
        /\ m_state'[f] = "INIT" /\ f \in saved' /\ f \notin done'
        /\ \A s \in Threads \ {t} : pc'[s] = pc[s] /\ cur'[s] = cur[s] /\ cb_fiber'[s] = cb_fiber[s]
        /\ \A g \in Fibers \ {f} : /\ m_state'[g] = m_state[g] /\ (g \in saved' <=> g \in saved)
                                   /\ g \in done' <=> g \in done
    BY <1>1, <2>3
  <2>5. f \notin InQueue /\ \A s \in Threads \ {t} : f \notin Mine(s)
    <3>1. CASE cb_fiber[t] = None
      <4>1. ~Held(f, t)
        BY <2>1, <3>1 DEF Free
      <4> QED BY <4>1 DEF Held, InQueue, Mine, Taken
    <3>2. CASE cb_fiber[t] # None
      <4>1. f \in Mine(t)
        BY <2>1, <3>2 DEF Mine
      <4> QED BY <1>2, <4>1 DEF OwnInv, Apart
    <3> QED BY <3>1, <3>2
  <2>6. Taken(t)' = {} /\ Mine(t)' = {f} /\ Given(t)' = {}
    BY <2>4 DEF Taken, Mine, Given, Behind
  <2>7. Fits(t)'
    <3>1. OnCb(t)'
      BY <2>3 DEF OnCb
    <3>2. HandFits(t)'
      BY <2>4, <3>1 DEF HandFits, StateAt, OnStackNow
    <3>3. CbFits(t)'
      BY <2>4 DEF CbFits
    <3> QED BY <2>4, <2>6, <3>2, <3>3 DEF Fits
  <2>8. OnlyOf(t, {f}) /\ halt' \in Survives
    BY <1>1, <2>3, <2>4, <2>5 DEF OnlyOf, Survives
  <2>9. Mine(t)' \cap InQueue' = Given(t)' /\ {f} \cap InQueue' = {}
    BY <1>2, <2>5, <2>6
  <2>10. /\ {f} \in SUBSET Fibers /\ Given(t) \subseteq {f}
         /\ Mine(t)' \subseteq Mine(t) \cup {f} /\ InQueue' \ {f} = InQueue \ {f}
    BY <1>2, <2>6
  <2> QED BY <1>2, <2>7, <2>8, <2>9, <2>10, OwnStep
<1> QED BY <1>3, <1>4

\* The fibre in hand of a thread changes its state, and nothing else does.
LEMMA OwnRun ==
  ASSUME ControlInv, OwnInv, NEW t \in Threads,
         NEW place \in {"exec", "leave", "back", "check", "settle", "hold"},
         pc[t] \in Running, pc' = [pc EXCEPT ![t] = place],
         UNCHANGED <<m_fibers, ft, cb_fiber, cur, halt>>, halt = "no",
         m_state'[cur[t]] \in StateAt(place),
         cur[t] \in saved' <=> place \notin OnStackNow,
         cur[t] \in done' <=> m_state'[cur[t]] \in {"TERM", "EXCEPT"},
         Given(t)' = Given(t),
         \A f \in Fibers \ {cur[t]} :
           /\ m_state'[f] = m_state[f] /\ (f \in saved' <=> f \in saved)
           /\ f \in done' <=> f \in done
  PROVE  OwnInv'
<1>1. /\ pc'[t] = place /\ \A s \in Threads \ {t} : pc'[s] = pc[s]
      /\ cur[t] \in Fibers /\ cur[t] \in Mine(t)
  BY DEF ControlInv, TypeOK, CurFits, Mine
<1>2. /\ InQueue' = InQueue /\ Once' /\ Fits(t) /\ halt' \in Survives
      /\ Mine(t) \cap InQueue = Given(t) /\ \A s \in Threads \ {t} : cur[t] \notin Mine(s)
  BY <1>1 DEF InQueue, Once, OwnInv, Apart, Survives
<1>3. Taken(t)' = {} /\ Mine(t)' = Mine(t)
  BY <1>1 DEF Taken, Mine, Running
<1>4. Fits(t)'
  <2>1. OnCb(t)' <=> cb_fiber'[t] = cur'[t]
    BY <1>2 DEF Fits, HandFits, OnCb
  <2>2. HandFits(t)'
    BY <1>1, <2>1 DEF HandFits, StateAt
  <2>3. CbFits(t)'
    BY <1>2 DEF Fits, CbFits, Reusable, ControlInv, TypeOK
  <2> QED BY <1>3, <2>2, <2>3 DEF Fits
<1>5. OnlyOf(t, {cur[t]})
  BY <1>1, <1>2 DEF OnlyOf
<1>6. \A f \in {cur[t]} \cap InQueue' : f \in Given(t)'
  BY <1>1, <1>2
<1>7. Given(t) \subseteq {cur[t]}
  BY GivenOne
<1>8. {cur[t]} \in SUBSET Fibers
  BY <1>1
<1> QED BY <1>2, <1>3, <1>4, <1>5, <1>6, <1>7, <1>8, OwnStep

\* The fibre in hand hands itself over, and yields.
LEMMA OwnGive ==
  ASSUME ControlInv, OwnInv, NEW t \in Threads,
         (\E th \in Pins : HandOver(t, th)) \/ YieldToHold(t)
  PROVE  OwnInv'
<1> DEFINE f == cur[t]
<1>1. /\ pc[t] \in {"exec", "handed"} /\ pc[t] \in Running /\ halt = "no" /\ Fits(t)
      /\ pc \in [Threads -> Places] /\ UNCHANGED <<ft, cb_fiber, cur, saved, done>>
      /\ m_state \in [Fibers -> {"INIT", "HOLD", "EXEC", "TERM", "READY", "EXCEPT"}]
  BY DEF HandOver, YieldToHold, Yield, At, Running, OwnInv, ControlInv, TypeOK
<1>2. /\ f \in Fibers /\ m_state[f] = "EXEC" /\ f \notin saved /\ f \notin done
      /\ OnCb(t) <=> cb_fiber[t] = f
  BY <1>1 DEF Fits, HandFits, ControlInv, CurFits, StateAt, OnStackNow
<1>3. f \in Mine(t) /\ Mine(t) \cap InQueue = Given(t) /\ \A s \in Threads \ {t} : f \notin Mine(s)
  BY <1>2 DEF OwnInv, Apart, Mine
<1>4. ASSUME pc'[t] \in {"handed", "leave"}, \A s \in Threads \ {t} : pc'[s] = pc[s],
             m_state'[f] = IF pc'[t] = "leave" THEN "HOLD" ELSE "EXEC",
             \A g \in Fibers \ {f} : m_state'[g] = m_state[g],
             UNCHANGED halt, InQueue' = InQueue \cup {f}, Once'
      PROVE  OwnInv'
  <2>1. Taken(t)' = {} /\ Mine(t)' = Mine(t) /\ Given(t)' = {f}
    BY <1>1, <1>4 DEF Taken, Mine, Given, Behind
  <2>2. Given(t) \subseteq {f} /\ {f} \in SUBSET Fibers
    BY <1>2, GivenOne
  <2>3. Fits(t)'
    <3>1. OnCb(t)' <=> OnCb(t)
      BY <1>1 DEF OnCb
    <3>2. HandFits(t)'
      BY <1>1, <1>2, <1>4, <3>1 DEF HandFits, StateAt, OnStackNow
    <3>3. CbFits(t)'
      BY <1>1, <1>4 DEF Fits, CbFits, Reusable, ControlInv, TypeOK
    <3> QED BY <2>1, <3>2, <3>3 DEF Fits
  <2>4. OnlyOf(t, {f}) /\ halt' \in Survives
    BY <1>1, <1>3, <1>4 DEF OnlyOf, Survives
  <2>5. /\ Mine(t)' \cap InQueue' = Given(t)' /\ InQueue' \ {f} = InQueue \ {f}
        /\ \A g \in {f} \cap InQueue' : g \in Given(t)'
    BY <1>3, <1>4, <2>1, <2>2
  <2> HIDE DEF f
  <2> QED BY <1>4, <2>1, <2>2, <2>3, <2>4, <2>5, OwnStep
<1>5. ASSUME NEW th \in Pins, HandOver(t, th)
      PROVE  OwnInv'
  <2>1. /\ pc[t] = "exec" /\ Schedule(f, th) /\ Go(t, "handed") /\ UNCHANGED <<m_state, halt>>
        /\ th \in Threads \cup {None}
    BY <1>5, SchedulerAssumption DEF HandOver, At
  <2>2. f \notin InQueue
    BY <1>2, <1>3, <2>1 DEF Given, Behind
  <2>3. InQueue' = InQueue \cup {f} /\ Once'
    BY <1>2, <2>1, <2>2, FiberQueued
  <2> QED BY <1>1, <1>2, <1>4, <2>1, <2>3 DEF Go
<1>6. CASE YieldToHold(t)
  <2>1. /\ pc[t] = "handed" /\ Set(f, "HOLD") /\ Go(t, "leave") /\ UNCHANGED <<m_fibers, halt>>
    BY <1>2, <1>6 DEF YieldToHold, Yield, At
  <2>2. InQueue' = InQueue /\ Once' /\ f \in InQueue
    BY <1>3, <2>1 DEF InQueue, Once, OwnInv, Given
  <2> QED BY <1>1, <1>2, <1>4, <2>1, <2>2 DEF Go, Set
<1> QED BY <1>5, <1>6

LEMMA OwnFiber ==
  ASSUME ControlInv, OwnInv, NEW t \in Threads, FiberStep(t)
  PROVE  OwnInv'
<1>1. /\ Fits(t) /\ pc \in [Threads -> Places] /\ saved \subseteq Fibers /\ done \subseteq Fibers
      /\ m_state \in [Fibers -> {"INIT", "HOLD", "EXEC", "TERM", "READY", "EXCEPT"}]
  BY DEF OwnInv, ControlInv, TypeOK
<1>2. ASSUME pc[t] \in Running
      PROVE  /\ cur[t] \in Fibers /\ m_state[cur[t]] \in StateAt(pc[t])
             /\ cur[t] \in saved <=> pc[t] \notin OnStackNow
             /\ cur[t] \in done <=> m_state[cur[t]] \in {"TERM", "EXCEPT"}
  BY <1>1, <1>2 DEF Fits, HandFits, ControlInv, CurFits
<1>3. CASE SwapIn(t)
  <2>1. pc[t] = "swapin" /\ pc[t] \in Running /\ halt = "no"
    BY <1>3 DEF SwapIn, At, Running
  <2>2. /\ m_state[cur[t]] \in {"INIT", "READY", "HOLD"} /\ cur[t] \in saved /\ cur[t] \in Fibers
        /\ cur[t] \notin done
    BY <1>2, <2>1 DEF StateAt, OnStackNow
  <2>3. /\ m_state' = [m_state EXCEPT ![cur[t]] = "EXEC"] /\ saved' = saved \ {cur[t]}
        /\ pc' = [pc EXCEPT ![t] = "exec"]
        /\ UNCHANGED <<m_fibers, ft, cb_fiber, cur, halt, done>>
    BY <1>3, <2>2 DEF SwapIn, Set, Go
  <2>4. /\ m_state'[cur[t]] = "EXEC" /\ cur[t] \notin saved'
        /\ \A f \in Fibers \ {cur[t]} : m_state'[f] = m_state[f] /\ (f \in saved' <=> f \in saved)
    BY <1>1, <2>2, <2>3
  <2>5. Given(t)' = Given(t)
    BY <1>1, <2>1, <2>3 DEF Given, Behind
  <2>6. m_state'[cur[t]] \in StateAt("exec") /\ "exec" \in OnStackNow
    BY <2>4 DEF StateAt, OnStackNow
  <2> QED BY <2>1, <2>2, <2>3, <2>4, <2>5, <2>6, OwnRun
<1>4. ASSUME NEW st \in {"READY", "TERM", "EXCEPT"},
             At(t, "exec"), Set(cur[t], st), Go(t, "leave"),
             done' = IF st = "READY" THEN done ELSE done \cup {cur[t]},
             UNCHANGED <<m_fibers, ft, cb_fiber, cur, halt, saved>>
      PROVE  OwnInv'
  <2>1. pc[t] = "exec" /\ pc[t] \in Running /\ halt = "no"
    BY <1>4 DEF Running, At
  <2>2. cur[t] \notin saved /\ cur[t] \in Fibers /\ cur[t] \notin done
    BY <1>2, <2>1 DEF OnStackNow, StateAt
  <2>3. /\ pc' = [pc EXCEPT ![t] = "leave"] /\ m_state'[cur[t]] = st
        /\ \A f \in Fibers \ {cur[t]} : /\ m_state'[f] = m_state[f] /\ (f \in saved' <=> f \in saved)
                                        /\ f \in done' <=> f \in done
    BY <1>1, <1>4, <2>2 DEF Set, Go
  <2>4. Given(t)' = Given(t)
    BY <1>1, <1>4, <2>1, <2>3 DEF Given, Behind
  <2>5. m_state'[cur[t]] \in StateAt("leave") /\ "leave" \in OnStackNow
    BY <2>3 DEF StateAt, OnStackNow
  <2>6. cur[t] \in done' <=> m_state'[cur[t]] \in {"TERM", "EXCEPT"}
    BY <1>4, <2>2, <2>3
  <2> QED BY <1>4, <2>1, <2>2, <2>3, <2>4, <2>5, <2>6, OwnRun
<1>5. CASE YieldToReady(t)
  <2>1. pc[t] = "exec" /\ pc[t] \in Running
    BY <1>5 DEF YieldToReady, Yield, At, Running
  <2>2. m_state[cur[t]] = "EXEC"
    BY <1>2, <2>1 DEF StateAt
  <2> QED BY <1>4, <1>5, <2>2 DEF YieldToReady, Yield
<1>6. ASSUME NEW st \in {"TERM", "EXCEPT"}, Finish(t, st)
      PROVE  OwnInv'
  BY <1>4, <1>6 DEF Finish
<1>7. ASSUME NEW th \in Pins, TaskSchedule(t, th)
      PROVE  OwnInv'
  BY <1>7, CallbackQueued, OwnStill DEF TaskSchedule, OwnInv, Survives
<1>8. CASE SwapOut(t)
  <2>1. pc[t] = "leave" /\ pc[t] \in Running /\ halt = "no"
    BY <1>8 DEF SwapOut, At, Running
  <2>2. /\ cur[t] \in Fibers /\ m_state[cur[t]] \in StateAt("leave")
        /\ cur[t] \in done <=> m_state[cur[t]] \in {"TERM", "EXCEPT"}
    BY <1>2, <2>1
  <2>3. /\ saved' = saved \cup {cur[t]} /\ pc' = [pc EXCEPT ![t] = "back"]
        /\ UNCHANGED <<m_fibers, ft, cb_fiber, cur, halt, m_state, done>>
    BY <1>8 DEF SwapOut, Go
  <2>4. /\ m_state'[cur[t]] \in StateAt("back") /\ cur[t] \in saved' /\ "back" \notin OnStackNow
        /\ \A f \in Fibers \ {cur[t]} : m_state'[f] = m_state[f] /\ (f \in saved' <=> f \in saved)
    BY <2>2, <2>3 DEF StateAt, OnStackNow
  <2>5. Given(t)' = Given(t)
    BY <1>1, <2>1, <2>3 DEF Given, Behind
  <2> QED BY <2>1, <2>2, <2>3, <2>4, <2>5, OwnRun
<1>9. CASE Back(t)
  <2>1. pc[t] = "back" /\ pc[t] \in Running /\ halt = "no"
    BY <1>9 DEF Back, At, Running
  <2>2. /\ cur[t] \in Fibers /\ m_state[cur[t]] \in StateAt("back") /\ cur[t] \in saved
        /\ cur[t] \in done <=> m_state[cur[t]] \in {"TERM", "EXCEPT"}
    BY <1>2, <2>1 DEF OnStackNow
  <2>3. /\ pc' = [pc EXCEPT ![t] = "check"]
        /\ UNCHANGED <<m_fibers, ft, cb_fiber, cur, halt, m_state, saved, done>>
    BY <1>9 DEF Back, Go
  <2>4. m_state'[cur[t]] \in StateAt("check") /\ "check" \notin OnStackNow
    BY <2>2, <2>3 DEF StateAt, OnStackNow
  <2>5. Given(t)' = Given(t)
    BY <1>1, <2>1, <2>3 DEF Given, Behind
  <2> QED BY <2>1, <2>2, <2>3, <2>4, <2>5, OwnRun
<1> QED BY <1>3, <1>5, <1>6, <1>7, <1>8, <1>9, OwnGive DEF FiberStep

\* run() queues a fibre that is READY again, keeps the fibre of a callback that has
\* ended, and lets go of one that was handed over.
LEMMA OwnDone ==
  ASSUME ControlInv, OwnInv, NEW t \in Threads, Check(t) \/ Settle(t) \/ SetHold(t)
  PROVE  OwnInv'
<1> DEFINE f == cur[t]
<1>1. /\ pc[t] \in {"check", "settle", "hold"} /\ pc[t] \in Running /\ halt = "no" /\ Fits(t)
      /\ pc \in [Threads -> Places] /\ ft \in [Threads -> Entries \cup {NoEntry}]
      /\ cur \in [Threads -> Fibers \cup {None}] /\ cb_fiber \in [Threads -> Fibers \cup {None}]
      /\ m_state \in [Fibers -> {"INIT", "HOLD", "EXEC", "TERM", "READY", "EXCEPT"}]
      /\ saved' = saved /\ pc[t] \in Behind
  BY DEF Check, Settle, SetHold, At, Running, Behind, OwnInv, ControlInv, TypeOK
<1>2. /\ f \in Fibers /\ m_state[f] \in StateAt(pc[t]) /\ f \in saved
      /\ f \in done <=> m_state[f] \in {"TERM", "EXCEPT"}
      /\ OnCb(t) <=> cb_fiber[t] = f
      /\ f \in Mine(t) /\ f # None
  BY <1>1, SchedulerAssumption DEF Fits, HandFits, ControlInv, CurFits, Mine, OnStackNow
<1>3. /\ Mine(t) \cap InQueue = Given(t) /\ QueueRests /\ Once
      /\ \A s \in Threads \ {t} : f \notin Mine(s)
      /\ Given(t) = IF m_state[f] = "HOLD" THEN {f} ELSE {}
  BY <1>1, <1>2 DEF OwnInv, Apart, Given
<1>4. ASSUME NEW b, LetGo(t, b), Go(t, "scan")
      PROVE  /\ pc'[t] = "scan" /\ cur'[t] = None /\ Taken(t)' = {} /\ Given(t)' = {}
             /\ cb_fiber'[t] = IF OnCb(t) /\ ~b THEN None ELSE cb_fiber[t]
             /\ Mine(t)' \subseteq Mine(t)
             /\ \A s \in Threads \ {t} : /\ pc'[s] = pc[s] /\ ft'[s] = ft[s]
                                         /\ cur'[s] = cur[s] /\ cb_fiber'[s] = cb_fiber[s]
  <2>1. /\ pc'[t] = "scan" /\ cur'[t] = None
        /\ \A s \in Threads \ {t} : /\ pc'[s] = pc[s] /\ ft'[s] = ft[s]
                                    /\ cur'[s] = cur[s] /\ cb_fiber'[s] = cb_fiber[s]
    BY <1>1, <1>4 DEF LetGo, Go
  <2>2. cb_fiber'[t] = IF OnCb(t) /\ ~b THEN None ELSE cb_fiber[t]
    BY <1>1, <1>4 DEF LetGo
  <2>3. Taken(t)' = {} /\ Given(t)' = {}
    BY <2>1 DEF Taken, Given, Behind
  <2> QED BY <2>1, <2>2, <2>3, SchedulerAssumption DEF Mine
\* Letting go of f, which is in the list then.
<1>5. ASSUME LetGo(t, FALSE), Go(t, "scan"), UNCHANGED <<halt, done>>,
             m_state' \in [Fibers -> {"INIT", "HOLD", "EXEC", "TERM", "READY", "EXCEPT"}],
             m_state'[f] = m_state[f], \A g \in Fibers \ {f} : m_state'[g] = m_state[g],
             m_state[f] \in {"READY", "HOLD"}, InQueue' = InQueue \cup {f}, Once'
      PROVE  OwnInv'
  <2>1. /\ pc'[t] = "scan" /\ cur'[t] = None /\ Taken(t)' = {} /\ Mine(t)' \subseteq Mine(t)
        /\ cb_fiber'[t] = (IF OnCb(t) THEN None ELSE cb_fiber[t]) /\ Given(t)' = {}
    BY <1>4, <1>5
  <2>2. f \notin Mine(t)'
    BY <1>2, <2>1 DEF Mine
  <2>3. Fits(t)'
    <3>1. CbFits(t)'
      BY <1>1, <1>2, <1>5, <2>1 DEF Fits, CbFits, Reusable
    <3> QED BY <2>1, <3>1 DEF Fits, HandFits, Running
  <2>4. OnlyOf(t, {f}) /\ halt' \in Survives
    BY <1>1, <1>3, <1>4, <1>5 DEF OnlyOf, Survives
  <2>5. \A g \in {f} : Resting(g)'
    BY <1>1, <1>2, <1>5 DEF Resting
  <2>6. /\ Mine(t)' \cap InQueue' = Given(t)' /\ InQueue' \ {f} = InQueue \ {f}
        /\ {f} \in SUBSET Fibers /\ Given(t) \subseteq {f} /\ Mine(t)' \subseteq Mine(t) \cup {f}
    BY <1>2, <1>3, <1>5, <2>1, <2>2
  <2>7. \A g \in {f} \cap InQueue' : Resting(g)' \/ g \in Given(t)'
    BY <2>5
  <2> HIDE DEF f
  <2> QED BY <1>5, <2>3, <2>4, <2>6, <2>7, OwnStep
<1>6. CASE Check(t) /\ Ready(f)
  <2>1. /\ Schedule(f, None) /\ LetGo(t, FALSE) /\ Go(t, "scan") /\ UNCHANGED <<m_state, halt, done>>
        /\ m_state[f] = "READY"
    BY <1>6 DEF Check, Ready
  <2>2. f \notin InQueue
    BY <1>2, <1>3, <2>1
  <2>3. InQueue' = InQueue \cup {f} /\ Once'
    BY <1>2, <2>1, <2>2, FiberQueued
  <2> QED BY <1>1, <1>5, <2>1, <2>3
<1>7. ASSUME NEW place \in {"settle", "hold"}, Go(t, place), m_state[f] \in StateAt(place),
             UNCHANGED <<m_fibers, ft, cb_fiber, cur, halt, m_state, done>>
      PROVE  OwnInv'
  <2>1. pc' = [pc EXCEPT ![t] = place] /\ place \notin OnStackNow
    BY <1>7 DEF Go, OnStackNow
  <2>2. Given(t)' = Given(t)
    BY <1>1, <1>7, <2>1 DEF Given, Behind
  <2> QED BY <1>1, <1>2, <1>7, <2>1, <2>2, OwnRun
<1>8. CASE Check(t) /\ ~Ready(f)
  <2>1. m_state[f] \in StateAt("settle") /\ Go(t, "settle")
    BY <1>2, <1>8 DEF Check, At, StateAt, Ready
  <2> QED BY <1>7, <1>8, <2>1 DEF Check
<1>9. CASE Settle(t) /\ m_state[f] \in {"TERM", "EXCEPT"}
  <2>1. /\ LetGo(t, TRUE) /\ Go(t, "scan") /\ UNCHANGED <<m_fibers, halt>>
        /\ IF OnCb(t) THEN Set(f, "INIT") /\ done' = done \ {f} ELSE UNCHANGED <<m_state, done>>
    BY <1>9 DEF Settle
  <2>2. /\ \A g \in Fibers \ {f} : m_state'[g] = m_state[g] /\ (g \in done' <=> g \in done)
        /\ Reusable(m_state'[f])
    BY <1>1, <1>2, <1>9, <2>1 DEF Set, Reusable
  <2>3. /\ pc'[t] = "scan" /\ cur'[t] = None /\ Taken(t)' = {} /\ Mine(t)' \subseteq Mine(t)
        /\ cb_fiber'[t] = cb_fiber[t] /\ Given(t)' = {}
    BY <1>4, <2>1
  <2>4. InQueue' = InQueue /\ Once' /\ Given(t) = {}
    BY <1>3, <1>9, <2>1 DEF InQueue, Once
  <2>5. Fits(t)'
    <3>1. CbFits(t)'
      <4>1. CASE cb_fiber[t] = f
        BY <1>1, <1>2, <2>2, <2>3, <4>1 DEF CbFits
      <4>2. CASE cb_fiber[t] # f
        BY <1>1, <2>2, <2>3, <4>2 DEF Fits, CbFits, Reusable
      <4> QED BY <4>1, <4>2
    <3> QED BY <2>3, <3>1 DEF Fits, HandFits, Running
  <2>6. OnlyOf(t, {f}) /\ halt' \in Survives
    BY <1>1, <1>3, <1>4, <2>1, <2>2 DEF OnlyOf, Survives
  <2>7. /\ Mine(t)' \cap InQueue' = Given(t)' /\ {f} \cap InQueue' = {}
        /\ {f} \in SUBSET Fibers /\ InQueue' \ {f} = InQueue \ {f}
        /\ Mine(t)' \subseteq Mine(t) \cup {f} /\ Given(t) \subseteq {f}
    BY <1>2, <1>3, <2>3, <2>4
  <2> HIDE DEF f
  <2> QED BY <2>4, <2>5, <2>6, <2>7, OwnStep
<1>10. CASE Settle(t) /\ m_state[f] \notin {"TERM", "EXCEPT"}
  <2>1. m_state[f] \in StateAt("hold") /\ Go(t, "hold")
    BY <1>2, <1>10 DEF Settle, At, StateAt
  <2> QED BY <1>7, <1>10, <2>1 DEF Settle
<1>11. CASE SetHold(t)
  <2>1. /\ m_state[f] = "HOLD" /\ Set(f, "HOLD") /\ LetGo(t, FALSE) /\ Go(t, "scan")
        /\ UNCHANGED <<m_fibers, done>>
    BY <1>2, <1>11 DEF SetHold, At, StateAt
  <2>2. f \notin done /\ f \in InQueue
    BY <1>2, <1>3, <2>1
  <2>3. UNCHANGED halt
    BY <1>11, <2>2 DEF SetHold
  <2>4. InQueue' = InQueue /\ Once'
    BY <1>3, <2>1 DEF InQueue, Once
  <2> QED BY <1>1, <1>2, <1>5, <2>1, <2>2, <2>3, <2>4 DEF Set
<1> QED BY <1>6, <1>8, <1>9, <1>10, <1>11

LEMMA OwnInductive ==
  ASSUME ControlInv, OwnInv, ~early', [Next]_vars
  PROVE  OwnInv'
<1>1. CASE Stop \/ Join \/ UNCHANGED vars
  <2>1. UNCHANGED <<m_fibers, pc, ft, cb_fiber, cur, m_state, saved, done, halt>>
    BY <1>1 DEF Stop, Join, vars
  <2>2. InQueue' = InQueue /\ Once' /\ halt' \in Survives
    BY <2>1 DEF InQueue, Once, OwnInv, Survives
  <2> QED BY <2>1, <2>2, OwnStill
<1>2. ASSUME NEW th \in Pins, MainSchedule(th)
      PROVE  OwnInv'
  BY <1>2, CallbackQueued, OwnStill DEF MainSchedule, OwnInv, Survives
<1>3. ASSUME NEW t \in Threads, Run(t) \/ FiberStep(t)
      PROVE  OwnInv'
  <2>1. CASE Scan(t) \/ Erase(t) \/ Count(t) \/ Idle(t) \/ IdleEnds(t)
    BY <2>1, OwnTake
  <2>2. CASE DispatchFiber(t) \/ \E f \in Fibers : DispatchCb(t, f)
    BY <2>2, OwnDispatch
  <2>3. CASE FiberStep(t)
    BY <2>3, OwnFiber
  <2>4. CASE Check(t) \/ Settle(t) \/ SetHold(t)
    BY <2>4, OwnDone
  <2> QED BY <1>3, <2>1, <2>2, <2>3, <2>4 DEF Run, FiberStep
<1>4. ASSUME NEW t \in Threads, \/ YieldToReady(t)
                                \/ \E th \in Pins : TaskSchedule(t, th) \/ HandOver(t, th)
      PROVE  OwnInv'
  BY <1>4, OwnFiber DEF FiberStep
<1> QED BY <1>1, <1>2, <1>3, <1>4 DEF Next

\* A fibre that was taken twice or too early stays so.
LEMMA EarlyStays ==
  ASSUME early, [Next]_vars
  PROVE  early'
<1>1. ASSUME NEW t \in Threads, NEW gone \in BOOLEAN, early' = (early \/ TakenEarly(t, gone))
      PROVE  early'
  BY <1>1, Zenon
<1>2. ASSUME NEW t \in Threads, Erase(t)
      PROVE  early'
  BY <1>1, <1>2 DEF Erase
<1>3. CASE UNCHANGED early
  BY <1>3
<1> QED BY <1>2, <1>3 DEF Next, vars, MainSchedule, Stop, Join, Run, Scan, Count, DispatchFiber,
   DispatchCb, SwapIn, YieldToHold, YieldToReady, Yield, Finish, TaskSchedule, HandOver,
   SwapOut, Back, Check, Settle, SetHold, Idle, IdleEnds

\* What holds of every reachable state until a fibre is taken twice or too early.
LEMMA OwnInvariant == Spec => [](ControlInv /\ (early \/ OwnInv))
<1>1. ASSUME Init PROVE OwnInv
  <2>1. /\ InQueue = {} /\ Once /\ halt = "no"
    BY <1>1 DEF Init, InQueue, Once
  <2>2. \A t \in Threads : Taken(t) = {} /\ Mine(t) = {} /\ Given(t) = {} /\ Fits(t)
    BY <1>1, SchedulerAssumption DEF Init, Taken, Mine, Given, Behind, Fits, HandFits, CbFits,
       Running
  <2> QED BY <2>1, <2>2 DEF OwnInv, Apart, QueueRests
<1>2. ASSUME ControlInv, early \/ OwnInv, [Next]_vars PROVE early' \/ OwnInv'
  BY <1>2, OwnInductive, EarlyStays
<1> QED BY <1>1, <1>2, Invariant, PTL DEF Spec

\* Two workers are never on the stack of one fibre, and none is sent to a context that
\* is not saved, for any number of threads and fibres, although no mutex guards m_fibers
\* or Fiber::m_state (scheduler.cpp run(), fiber.cpp swapIn and swapOut) and tasks hand
\* their own fibre over before they yield: it takes one of the two races at the erase of
\* run(), an entry taken twice or a fibre taken before its thread has let go of it.
THEOREM OneStackHolds == Spec => []OneStack
<1>1. ASSUME ControlInv, OwnInv PROVE OneStack
  <2>1. ASSUME NEW s \in Threads, NEW t \in Threads, s # t,
               {pc[s], pc[t]} \subseteq {"exec", "handed", "leave"}
        PROVE  cur[s] # cur[t]
    <3>1. cur[s] \in Mine(s) /\ cur[t] \in Mine(t)
      BY <1>1, <2>1 DEF ControlInv, CurFits, Running, Mine
    <3> QED BY <1>1, <2>1, <3>1 DEF OwnInv, Apart
  <2>2. halt # "stack"
    BY <1>1 DEF OwnInv
  <2> QED BY <2>1, <2>2 DEF OneStack
<1>2. early => OneStack
  BY DEF OneStack
<1> QED BY <1>1, <1>2, OwnInvariant, PTL

\* Until one of the two races at the erase of run() happens, no assertion of fiber.cpp
\* on the state of a fibre fails: reset() finds an ended fibre, swapIn() one that does not
\* run and has not ended, the yields one that runs, and no suspended fibre is destroyed.
THEOREM FiberAssertsNeverFail == Spec => []FiberAssertsHold
<1>1. early \/ OwnInv => FiberAssertsHold
  BY DEF OwnInv, FiberAssertsHold
<1> QED BY <1>1, OwnInvariant, PTL
=============================================================================
