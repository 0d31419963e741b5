-------------------------- MODULE IOManagerProofs --------------------------
(***************************************************************************)
(* Proofs about IOManager, for any fibres, descriptors and workload.       *)
(***************************************************************************)
EXTENDS IOManager, FiniteSetTheorems, SequenceTheorems, TLAPS

\* The set of registered events is finite and counts as a number.
LEMMA EventsFinite ==
  ASSUME NEW E \in SUBSET (Fds \X Evs)
  PROVE  IsFiniteSet(E) /\ Cardinality(E) \in Nat
<1>1. IsFiniteSet(Evs)
  <2>1. Evs = {"READ"} \cup {"WRITE"}
    BY DEF Evs
  <2> QED BY <2>1, FS_Singleton, FS_Union
<1>2. IsFiniteSet(Fds \X Evs)
  BY <1>1, IOAssumption, FS_Product
<1>3. IsFiniteSet(E)
  BY <1>2, FS_Subset
<1> QED BY <1>3, FS_CardinalityType

\* Taking registered events away lowers the count by as many.
LEMMA EventsRemoved ==
  ASSUME NEW E \in SUBSET (Fds \X Evs), NEW S \in SUBSET E
  PROVE  /\ E \ S \in SUBSET (Fds \X Evs)
         /\ Cardinality(E \ S) = Cardinality(E) - Cardinality(S)
         /\ Cardinality(S) \in Nat
<1>1. IsFiniteSet(E) /\ IsFiniteSet(S) /\ Cardinality(S) \in Nat
  BY EventsFinite
<1>2. E \cap S = S
  OBVIOUS
<1> QED BY <1>1, <1>2, FS_Difference

\* The events of one descriptor are as many as their names.
LEMMA EventsOfOne ==
  ASSUME NEW fd \in Fds, NEW R \in SUBSET Evs
  PROVE  Cardinality({fd} \X R) = Cardinality(R) /\ Cardinality(R) \in Nat
<1>1. IsFiniteSet(Evs)
  <2>1. Evs = {"READ"} \cup {"WRITE"}
    BY DEF Evs
  <2> QED BY <2>1, FS_Singleton, FS_Union
<1>2. IsFiniteSet(R) /\ Cardinality(R) \in Nat
  BY <1>1, FS_Subset, FS_CardinalityType
<1>3. IsFiniteSet({fd}) /\ Cardinality({fd}) = 1
  BY FS_Singleton
<1>4. Cardinality({fd} \X R) = Cardinality({fd}) * Cardinality(R)
  BY <1>2, <1>3, FS_Product
<1> QED BY <1>2, <1>3, <1>4

\* tickle() writes at most what fits and otherwise blocks.
LEMMA TickleType ==
  ASSUME TypeOK, NEW w, Tickle(w)
  PROVE  pipe' \in 0 .. PipeCapacity /\ (halt' = halt \/ halt' = "pipe")
BY IOAssumption DEF TypeOK, Tickle

\* What a queue refers to after an append.
LEMMA QueueAppend ==
  ASSUME NEW q \in Seq(Items), NEW s \in Seq(Items)
  PROVE  /\ q \o s \in Seq(Items)
         /\ Queued(q) \subseteq Queued(q \o s)
         /\ Queued(s) \subseteq Queued(q \o s)
<1>1. /\ q \o s \in Seq(Items) /\ Len(q \o s) = Len(q) + Len(s)
      /\ \A i \in 1 .. Len(q) + Len(s) :
           (q \o s)[i] = IF i <= Len(q) THEN q[i] ELSE s[i - Len(q)]
      /\ DOMAIN (q \o s) = 1 .. Len(q) + Len(s)
      /\ DOMAIN q = 1 .. Len(q) /\ DOMAIN s = 1 .. Len(s)
      /\ Len(q) \in Nat /\ Len(s) \in Nat
  BY ConcatProperties, LenProperties
<1>2. ASSUME NEW i \in DOMAIN q PROVE q[i].fiber \in Queued(q \o s)
  <2>1. i \in DOMAIN (q \o s) /\ (q \o s)[i] = q[i]
    BY <1>1
  <2> QED BY <2>1 DEF Queued
<1>3. ASSUME NEW i \in DOMAIN s PROVE s[i].fiber \in Queued(q \o s)
  <2>1. Len(q) + i \in DOMAIN (q \o s) /\ (q \o s)[Len(q) + i] = s[i]
    BY <1>1
  <2> QED BY <2>1 DEF Queued
<1> QED BY <1>1, <1>2, <1>3 DEF Queued

\* What a queue refers to after its head is taken.
LEMMA QueueTail ==
  ASSUME NEW q \in Seq(Items), q # <<>>
  PROVE  /\ Head(q) \in Items /\ Tail(q) \in Seq(Items)
         /\ Queued(q) \subseteq {Head(q).fiber} \cup Queued(Tail(q))
<1>1. /\ Head(q) \in Items /\ Tail(q) \in Seq(Items) /\ Len(Tail(q)) = Len(q) - 1
      /\ \A i \in 1 .. Len(Tail(q)) : Tail(q)[i] = q[i + 1]
      /\ DOMAIN q = 1 .. Len(q) /\ DOMAIN Tail(q) = 1 .. Len(Tail(q))
      /\ Len(q) \in Nat /\ Head(q) = q[1]
  BY HeadTailProperties, LenProperties
<1>2. ASSUME NEW i \in DOMAIN q, i # 1
      PROVE  q[i].fiber \in Queued(Tail(q))
  <2>1. i - 1 \in DOMAIN Tail(q) /\ Tail(q)[i - 1] = q[i]
    BY <1>1, <1>2
  <2> QED BY <2>1 DEF Queued
<1> QED BY <1>1, <1>2 DEF Queued

\* A sequence of one item.
LEMMA QueueOne ==
  ASSUME NEW it \in Items
  PROVE  <<it>> \in Seq(Items) /\ Queued(<<it>>) = {it.fiber}
BY DEF Queued

\* What triggerEvent schedules for registered events: items, and every fibre
\* that waits for one of them.
LEMMA TriggeredItems ==
  ASSUME ControlInv, NEW fd \in Fds, NEW R \in SUBSET Registered(fd)
  PROVE  /\ Triggered(fd, R) \in Seq(Items)
         /\ \A ev \in R : ctx[<<fd, ev>>].fiber \in Queued(Triggered(fd, R))
         /\ {fd} \X R \in SUBSET events
<1>1. \A ev \in R : ev \in Evs /\ <<fd, ev>> \in events /\ ctx[<<fd, ev>>] \in Items
  BY DEF Registered, ControlInv, ContextsFilled
<1>2. {fd} \X R \in SUBSET events
  BY <1>1
<1> DEFINE a == IF "READ" \in R THEN <<ctx[<<fd, "READ">>]>> ELSE <<>>
           b == IF "WRITE" \in R THEN <<ctx[<<fd, "WRITE">>]>> ELSE <<>>
<1>3. /\ a \in Seq(Items) /\ b \in Seq(Items)
      /\ "READ" \in R => ctx[<<fd, "READ">>].fiber \in Queued(a)
      /\ "WRITE" \in R => ctx[<<fd, "WRITE">>].fiber \in Queued(b)
  BY <1>1, QueueOne
<1>4. Triggered(fd, R) = a \o b
  BY DEF Triggered
<1> HIDE DEF a, b
<1> QED BY <1>1, <1>2, <1>3, <1>4, QueueAppend DEF Evs

\* schedule() keeps the queue a queue of items.
LEMMA ScheduleType ==
  ASSUME TypeOK, NEW s \in Seq(Items), Schedule(s)
  PROVE  /\ m_fibers' = m_fibers \o s /\ m_fibers' \in Seq(Items)
         /\ pipe' \in 0 .. PipeCapacity /\ (halt' = halt \/ halt' = "pipe")
<1>1. m_fibers \in Seq(Items) /\ m_fibers' = m_fibers \o s
  BY DEF TypeOK, Schedule
<1>2. \E w : Tickle(w)
  BY DEF Schedule
<1> QED BY <1>1, <1>2, QueueAppend, TickleType

\* A timer that is added tickles at most once.
LEMMA TimerTickleType ==
  ASSUME TypeOK, TimerTickle
  PROVE  /\ m_tickled' \in BOOLEAN
         /\ pipe' \in 0 .. PipeCapacity /\ (halt' = halt \/ halt' = "pipe")
<1>1. \E w : Tickle(w)
  BY DEF TimerTickle
<1>2. m_tickled' \in BOOLEAN
  BY Zenon DEF TimerTickle, TypeOK
<1> QED BY <1>1, <1>2, TickleType

\* Behind swapIn() run() has the thread again and nobody is active.
LEMMA SwapOutControl ==
  ASSUME TypeOK, CountsFit, phase = "exec",
         NEW st \in {"HOLD", "READY", "TERM", "EXCEPT"}, SwapOut(st)
  PROVE  /\ phase' = "run" /\ cur' = NoItem
         /\ m_activeThreadCount' = 0 /\ m_idleThreadCount' = 0
         /\ m_stopping' \in BOOLEAN /\ rootEnded' \in BOOLEAN
         /\ cb_fiber' \in Fibers \cup {None}
         /\ fstate' \in [Fibers -> States]
         /\ handled' \in SUBSET Fds
<1>1. m_activeThreadCount = 1 /\ m_idleThreadCount = 0
  BY DEF CountsFit
<1>2. /\ phase' = "run" /\ cur' = NoItem
      /\ m_activeThreadCount' = 0 /\ m_idleThreadCount' = 0
      /\ cb_fiber' \in Fibers \cup {None}
      /\ handled' \in SUBSET Fds
  BY <1>1 DEF SwapOut, TypeOK
<1>3. m_stopping' \in BOOLEAN /\ rootEnded' \in BOOLEAN
  BY Zenon DEF SwapOut, TypeOK
<1>4. fstate' \in [Fibers -> States]
  BY DEF SwapOut, TypeOK, States
<1> QED BY <1>2, <1>3, <1>4

\* Dropping registered pairs and as many from m_pendingEventCount keeps the
\* count above the number of events; dropping only the pairs does so too.
LEMMA PendingKept ==
  ASSUME TypeOK, PendingCoversRegistered, NEW S \in SUBSET events,
         events' = Unregister(S),
         \/ m_pendingEventCount' = PendingAfter(Cardinality(S))
         \/ m_pendingEventCount' = m_pendingEventCount
  PROVE  /\ PendingCoversRegistered' /\ m_pendingEventCount' \in Nat
         /\ events' \in SUBSET events /\ events' \in SUBSET (Fds \X Evs)
<1>1. events \in SUBSET (Fds \X Evs) /\ m_pendingEventCount \in Nat
  BY DEF TypeOK
<1>2. Cardinality(events \ S) = Cardinality(events) - Cardinality(S)
  BY <1>1, EventsRemoved
<1>3. /\ Cardinality(S) \in Nat /\ Cardinality(events \ S) \in Nat
      /\ Cardinality(events) \in Nat
  BY <1>1, EventsFinite
<1> QED BY <1>1, <1>2, <1>3
        DEF PendingCoversRegistered, Unregister, PendingAfter

\* addEvent: one more event is counted once, and its context is filled.
LEMMA AddEventControl ==
  ASSUME ControlInv, NEW fd \in Fds, NEW ev \in Evs, NEW it \in Items,
         it.kind # "wake", NEW ok, AddEvent(fd, ev, it, ok)
  PROVE  /\ PendingCoversRegistered' /\ ContextsFilled'
         /\ events' \in SUBSET (Fds \X Evs) /\ m_pendingEventCount' \in Nat
         /\ ctx' \in [Fds \X Evs -> Items \cup {NoItem}]
         /\ halt' \in {halt, "iomanager.cpp:111", "iomanager.cpp:131"}
<1>1. /\ events \in SUBSET (Fds \X Evs) /\ m_pendingEventCount \in Nat
      /\ ctx \in [Fds \X Evs -> Items \cup {NoItem}]
      /\ PendingCoversRegistered /\ ContextsFilled
  BY DEF ControlInv, TypeOK
<1>2. CASE UNCHANGED fdVars
  BY <1>1, <1>2 DEF fdVars, PendingCoversRegistered, ContextsFilled, AddEvent
<1>3. CASE /\ <<fd, ev>> \notin events
           /\ events' = events \cup {<<fd, ev>>}
           /\ m_pendingEventCount' = m_pendingEventCount + 1
           /\ ctx' = [ctx EXCEPT ![<<fd, ev>>] = it]
           /\ UNCHANGED halt
  <2>1. Cardinality(events') = Cardinality(events) + 1 /\ Cardinality(events) \in Nat
    BY <1>1, <1>3, EventsFinite, FS_AddElement
  <2>2. <<fd, ev>> \in Fds \X Evs
    OBVIOUS
  <2>3. ctx' \in [Fds \X Evs -> Items \cup {NoItem}]
    BY <1>1, <1>3, <2>2
  <2>4. ContextsFilled'
    BY <1>1, <1>3, <2>2 DEF ContextsFilled
  <2> QED BY <1>1, <1>3, <2>1, <2>2, <2>3, <2>4 DEF PendingCoversRegistered
<1> QED BY <1>2, <1>3 DEF AddEvent

\* Every step keeps the counters, the queue and the registered events right.
LEMMA ControlInductive ==
  ASSUME ControlInv, [Next]_vars
  PROVE  ControlInv'
<1> USE DEF ControlInv
<1>0. /\ CbItem \in Items /\ CbItem.kind = "cb" /\ <<CbItem>> \in Seq(Items)
      /\ \A f \in Fibers : /\ FiberItem(f) \in Items /\ FiberItem(f).kind = "fiber"
                          /\ WakeItem(f) \in Items /\ WakeItem(f).kind = "wake"
                          /\ <<FiberItem(f)>> \in Seq(Items)
                          /\ <<WakeItem(f)>> \in Seq(Items)
  BY DEF Items, CbItem, FiberItem, WakeItem
<1>1. CASE ScheduleCb
  <2>1. /\ m_fibers' \in Seq(Items) /\ pipe' \in 0 .. PipeCapacity
        /\ (halt' = halt \/ halt' = "pipe")
    BY <1>0, <1>1, ScheduleType DEF ScheduleCb
  <2>2. TypeOK'
    BY <1>1, <2>1, IOAssumption DEF ScheduleCb, Does, TypeOK, schedVars, fdVars, otherVars
  <2> QED BY <1>1, <2>2 DEF ScheduleCb, UserCode, schedVars, fdVars,
             PendingCoversRegistered, ContextsFilled, CountsFit
<1>2. CASE AddTimer
  <2>1. /\ m_tickled' \in BOOLEAN /\ pipe' \in 0 .. PipeCapacity
        /\ (halt' = halt \/ halt' = "pipe")
    BY <1>2, TimerTickleType DEF AddTimer
  <2>2. TypeOK'
    BY <1>2, <2>1, IOAssumption DEF AddTimer, Does, TypeOK, schedVars, fdVars
  <2> QED BY <1>2, <2>2 DEF AddTimer, UserCode, schedVars, fdVars,
             PendingCoversRegistered, ContextsFilled, CountsFit
<1>3. ASSUME NEW fd \in Fds, NEW ev \in Evs, NEW ok \in CtlResults,
             AddEventCb(fd, ev, ok)
      PROVE  ControlInv'
  <2>1. /\ PendingCoversRegistered' /\ ContextsFilled'
        /\ events' \in SUBSET (Fds \X Evs) /\ m_pendingEventCount' \in Nat
        /\ ctx' \in [Fds \X Evs -> Items \cup {NoItem}]
        /\ halt' \in {halt, "iomanager.cpp:111", "iomanager.cpp:131"}
    BY <1>0, <1>3, AddEventControl DEF AddEventCb
  <2>2. TypeOK'
    BY <1>3, <2>1, IOAssumption DEF AddEventCb, Does, TypeOK, schedVars, otherVars
  <2> QED BY <1>3, <2>1, <2>2 DEF AddEventCb, UserCode, schedVars, CountsFit
<1>4. ASSUME NEW fd \in Fds, NEW ev \in Evs, NEW ok \in CtlResults,
             DelEvent(fd, ev, ok)
      PROVE  ControlInv'
  <2>1. /\ PendingCoversRegistered' /\ m_pendingEventCount' \in Nat
        /\ events' = events \ {<<fd, ev>>} /\ events' \in SUBSET (Fds \X Evs)
    <3>1. {<<fd, ev>>} \in SUBSET events /\ Cardinality({<<fd, ev>>}) = 1
      BY <1>4, FS_Singleton DEF DelEvent
    <3> QED BY <1>4, <3>1, PendingKept DEF DelEvent, Unregister
  <2>2. ctx' \in [Fds \X Evs -> Items \cup {NoItem}]
    BY <1>4 DEF DelEvent, TypeOK
  <2>3. ContextsFilled'
    BY <1>4, <2>1 DEF DelEvent, ContextsFilled, TypeOK
  <2>4. TypeOK'
    <3>1. /\ ops' \in 0 .. MaxOps
          /\ UNCHANGED <<phase, halt, m_fibers, schedVars, cb_fiber, cur, fstate,
                         pipe, handled, sleepers, cbTimers, m_tickled>>
      BY <1>4, IOAssumption DEF DelEvent, Does, TypeOK
    <3>2. forgotten' \subseteq Fibers
      BY <1>4 DEF DelEvent, TypeOK
    <3> QED BY <2>1, <2>2, <3>1, <3>2 DEF TypeOK, schedVars
  <2> QED BY <1>4, <2>1, <2>3, <2>4 DEF DelEvent, UserCode, schedVars, CountsFit
<1>5. ASSUME NEW fd \in Fds, NEW ev \in Evs, NEW ok \in CtlResults,
             CancelEvent(fd, ev, ok)
      PROVE  ControlInv'
  <2>1. /\ PendingCoversRegistered' /\ m_pendingEventCount' \in Nat
        /\ events' \in SUBSET events /\ events' \in SUBSET (Fds \X Evs)
    <3>1. {<<fd, ev>>} \in SUBSET events /\ Cardinality({<<fd, ev>>}) = 1
      BY <1>5, FS_Singleton DEF CancelEvent
    <3> QED BY <1>5, <3>1, PendingKept DEF CancelEvent
  <2>2. Triggered(fd, {ev}) \in Seq(Items)
    BY <1>5, TriggeredItems DEF CancelEvent, Registered
  <2>3. /\ m_fibers' \in Seq(Items) /\ pipe' \in 0 .. PipeCapacity
        /\ (halt' = halt \/ halt' = "pipe")
    BY <1>5, <2>2, ScheduleType DEF CancelEvent
  <2>4. ContextsFilled'
    BY <1>5, <2>1 DEF CancelEvent, ContextsFilled
  <2>5. TypeOK'
    <3>1. /\ ops' \in 0 .. MaxOps
          /\ UNCHANGED <<phase, schedVars, cb_fiber, cur, fstate, ctx, handled,
                         otherVars>>
      BY <1>5, IOAssumption DEF CancelEvent, Does, TypeOK
    <3> QED BY <2>1, <2>3, <3>1 DEF TypeOK, schedVars, otherVars
  <2> QED BY <1>5, <2>1, <2>4, <2>5 DEF CancelEvent, UserCode, schedVars, CountsFit
<1>6. ASSUME NEW fd \in Fds, NEW ok \in CtlResults, CancelAll(fd, ok)
      PROVE  ControlInv'
  <2>1. Registered(fd) \in SUBSET Registered(fd)
    OBVIOUS
  <2>2. /\ Triggered(fd, Registered(fd)) \in Seq(Items)
        /\ {fd} \X Registered(fd) \in SUBSET events
    BY <2>1, TriggeredItems
  <2>3. /\ PendingCoversRegistered' /\ m_pendingEventCount' \in Nat
        /\ events' \in SUBSET events /\ events' \in SUBSET (Fds \X Evs)
    BY <1>6, <2>2, PendingKept DEF CancelAll
  <2>4. /\ m_fibers' \in Seq(Items) /\ pipe' \in 0 .. PipeCapacity
        /\ (halt' = halt \/ halt' = "pipe")
    BY <1>6, <2>2, ScheduleType DEF CancelAll
  <2>5. ContextsFilled'
    BY <1>6, <2>3 DEF CancelAll, ContextsFilled
  <2>6. TypeOK'
    <3>1. /\ ops' \in 0 .. MaxOps
          /\ UNCHANGED <<phase, schedVars, cb_fiber, cur, fstate, ctx, handled,
                         otherVars>>
      BY <1>6, IOAssumption DEF CancelAll, Does, TypeOK
    <3> QED BY <2>3, <2>4, <3>1 DEF TypeOK, schedVars, otherVars
  <2> QED BY <1>6, <2>3, <2>5, <2>6 DEF CancelAll, UserCode, schedVars, CountsFit
<1>7. ASSUME NEW fd \in Fds, NEW ev \in Evs, NEW ok \in CtlResults,
             WaitEvent(fd, ev, ok)
      PROVE  ControlInv'
  <2>1. phase = "exec" /\ CurFiber \in Fibers
    BY <1>7 DEF WaitEvent, TaskCode, CurFiber, CountsFit, Items, CbItem
  <2>2. /\ PendingCoversRegistered' /\ ContextsFilled'
        /\ events' \in SUBSET (Fds \X Evs) /\ m_pendingEventCount' \in Nat
        /\ ctx' \in [Fds \X Evs -> Items \cup {NoItem}]
        /\ halt' \in {halt, "iomanager.cpp:111", "iomanager.cpp:131"}
    BY <1>0, <1>7, <2>1, AddEventControl DEF WaitEvent
  <2>3. CASE events' = events
    <3>1. TypeOK'
      BY <1>7, <2>2, <2>3, IOAssumption DEF WaitEvent, Does, TypeOK, schedVars, otherVars
    <3> QED BY <1>7, <2>1, <2>2, <2>3, <3>1 DEF WaitEvent, schedVars, CountsFit
  <2>4. CASE events' # events
    <3>1. SwapOut("HOLD")
      BY <1>7, <2>4 DEF WaitEvent
    <3>2. TypeOK'
      BY <1>7, <2>1, <2>2, <3>1, SwapOutControl, IOAssumption DEF WaitEvent, Does, TypeOK, otherVars
    <3> QED BY <2>1, <2>2, <3>1, <3>2, SwapOutControl DEF CountsFit
  <2> QED BY <2>3, <2>4
<1>8. CASE Sleep
  <2>1. phase = "exec" /\ CurFiber \in Fibers
    BY <1>8 DEF Sleep, TaskCode, CurFiber, CountsFit, Items, CbItem
  <2>2. /\ m_tickled' \in BOOLEAN /\ pipe' \in 0 .. PipeCapacity
        /\ (halt' = halt \/ halt' = "pipe")
    BY <1>8, TimerTickleType DEF Sleep
  <2>3. TypeOK'
    BY <1>8, <2>1, <2>2, SwapOutControl, IOAssumption DEF Sleep, Does, TypeOK, fdVars
  <2>4. PendingCoversRegistered' /\ ContextsFilled'
    BY <1>8 DEF Sleep, fdVars, PendingCoversRegistered, ContextsFilled
  <2> QED BY <1>8, <2>1, <2>3, <2>4, SwapOutControl DEF Sleep, CountsFit
<1>9. CASE YieldToReady
  <2>1. phase = "exec" /\ CurFiber \in Fibers
    BY <1>9 DEF YieldToReady, TaskCode, CurFiber, CountsFit, Items, CbItem
  <2>2. /\ m_fibers' \in Seq(Items) /\ pipe' \in 0 .. PipeCapacity
        /\ (halt' = halt \/ halt' = "pipe")
    BY <1>0, <1>9, <2>1, ScheduleType DEF YieldToReady, Requeued
  <2>3. TypeOK'
    BY <1>9, <2>1, <2>2, SwapOutControl, IOAssumption
       DEF YieldToReady, Does, TypeOK, fdVars, otherVars
  <2>4. PendingCoversRegistered' /\ ContextsFilled'
    BY <1>9 DEF YieldToReady, fdVars, PendingCoversRegistered, ContextsFilled
  <2> QED BY <1>9, <2>1, <2>3, <2>4, SwapOutControl DEF YieldToReady, CountsFit
<1>10. CASE Stop
  <2>1. pipe' \in 0 .. PipeCapacity /\ halt' \in {halt, "pipe", "fiber.cpp:284"}
    BY <1>10, TickleType DEF Stop, TypeOK
  <2>2. TypeOK'
    BY <1>10, <2>1 DEF Stop, TypeOK, fdVars
  <2>3. PendingCoversRegistered' /\ ContextsFilled'
    BY <1>10 DEF Stop, fdVars, PendingCoversRegistered, ContextsFilled
  <2>4. CountsFit'
    BY <1>10 DEF Stop, CountsFit
  <2>5. phase' = "stopped" => Idle'
    BY <1>10 DEF Stop, Idle, fdVars
  <2> QED BY <2>2, <2>3, <2>4, <2>5
<1>11. CASE GoOn
  <2>1. TypeOK'
    BY <1>11, IOAssumption DEF GoOn, Does, TypeOK, schedVars, fdVars, otherVars
  <2> QED BY <1>11, <2>1 DEF GoOn, schedVars, fdVars, PendingCoversRegistered,
             ContextsFilled, CountsFit
<1>12. CASE TakeFiber
  <2>1. Head(m_fibers) \in Items /\ m_fibers' \in Seq(Items)
    BY <1>12, QueueTail DEF TakeFiber, TypeOK
  <2>2. fstate' \in [Fibers -> States]
    BY <1>12 DEF TakeFiber, TypeOK, States
  <2>3. m_activeThreadCount = 0 /\ m_idleThreadCount = 0
    BY <1>12 DEF TakeFiber, CountsFit
  <2>4. TypeOK'
    BY <1>12, <2>1, <2>2, <2>3 DEF TakeFiber, TypeOK, fdVars, otherVars
  <2> QED BY <1>12, <2>1, <2>3, <2>4 DEF TakeFiber, fdVars,
             PendingCoversRegistered, ContextsFilled, CountsFit
<1>13. ASSUME NEW f \in Fibers, TakeCb(f)
       PROVE  ControlInv'
  <2>1. Head(m_fibers) \in Items /\ m_fibers' \in Seq(Items)
    BY <1>13, QueueTail DEF TakeCb, TypeOK
  <2>2. fstate' \in [Fibers -> States]
    BY <1>13 DEF TakeCb, TypeOK, States
  <2>3. m_activeThreadCount = 0 /\ m_idleThreadCount = 0
    BY <1>13 DEF TakeCb, CountsFit
  <2>4. TypeOK'
    BY <1>13, <2>1, <2>2, <2>3 DEF TakeCb, TypeOK, fdVars, otherVars
  <2> QED BY <1>13, <2>1, <2>3, <2>4 DEF TakeCb, fdVars,
             PendingCoversRegistered, ContextsFilled, CountsFit
<1>14. ASSUME NEW st \in {"TERM", "EXCEPT"}, Finish(st)
       PROVE  ControlInv'
  <2>1. phase = "exec"
    BY <1>14 DEF Finish, TaskCode
  <2>2. TypeOK'
    BY <1>14, <2>1, SwapOutControl DEF Finish, TypeOK, fdVars, otherVars
  <2>3. PendingCoversRegistered' /\ ContextsFilled'
    BY <1>14 DEF Finish, fdVars, PendingCoversRegistered, ContextsFilled
  <2> QED BY <1>14, <2>1, <2>2, <2>3, SwapOutControl DEF Finish, CountsFit
<1>15. CASE RunWake
  <2>1. phase = "exec" /\ cur.fiber \in Fibers
    BY <1>15 DEF RunWake, CountsFit, Items, CbItem
  <2>2. /\ m_fibers' \in Seq(Items) /\ pipe' \in 0 .. PipeCapacity
        /\ (halt' = halt \/ halt' = "pipe")
    BY <1>0, <1>15, <2>1, ScheduleType DEF RunWake
  <2>3. TypeOK'
    BY <1>15, <2>1, <2>2, SwapOutControl DEF RunWake, TypeOK, fdVars, otherVars
  <2>4. PendingCoversRegistered' /\ ContextsFilled'
    BY <1>15 DEF RunWake, fdVars, PendingCoversRegistered, ContextsFilled
  <2> QED BY <1>15, <2>1, <2>3, <2>4, SwapOutControl DEF RunWake, CountsFit
<1>16. CASE GoIdle
  <2>1. m_activeThreadCount = 0 /\ m_idleThreadCount = 0 /\ cur = NoItem
    BY <1>16 DEF GoIdle, CountsFit
  <2>2. TypeOK'
    <3>1. m_stopping' \in BOOLEAN /\ rootEnded' \in BOOLEAN /\ m_tickled' \in BOOLEAN
      BY <1>16, Zenon DEF GoIdle, TypeOK
    <3>2. phase' \in {"timers", "stopped"} /\ m_idleThreadCount' \in Nat
      BY <1>16, <2>1 DEF GoIdle
    <3>3. UNCHANGED <<halt, m_fibers, m_activeThreadCount, cb_fiber, cur, fstate,
                      fdVars, pipe, handled, sleepers, forgotten, cbTimers, ops>>
      BY <1>16 DEF GoIdle
    <3> QED BY <3>1, <3>2, <3>3 DEF TypeOK, fdVars
  <2>3. PendingCoversRegistered' /\ ContextsFilled'
    BY <1>16 DEF GoIdle, fdVars, PendingCoversRegistered, ContextsFilled
  <2>4. phase' = "stopped" => Idle'
    BY <1>16 DEF GoIdle, Idle, fdVars
  <2> QED BY <1>16, <2>1, <2>2, <2>3, <2>4 DEF GoIdle, CountsFit
<1>17. CASE ToEvents
  <2>1. TypeOK'
    BY <1>17, IOAssumption DEF ToEvents, TypeOK, schedVars, fdVars, otherVars
  <2> QED BY <1>17, <2>1 DEF ToEvents, schedVars, fdVars, PendingCoversRegistered,
             ContextsFilled, CountsFit
<1>18. CASE IdleSwapOut
  <2>1. m_activeThreadCount = 0 /\ m_idleThreadCount = 1 /\ cur = NoItem
    BY <1>18 DEF IdleSwapOut, CountsFit
  <2>2. TypeOK'
    BY <1>18, <2>1 DEF IdleSwapOut, TypeOK, fdVars, otherVars
  <2> QED BY <1>18, <2>1, <2>2 DEF IdleSwapOut, fdVars, PendingCoversRegistered,
             ContextsFilled, CountsFit
<1>19. CASE Expire
  <2>1. \E s \in Seq(Items) : Schedule(s)
    BY <1>0, <1>19 DEF Expire, TypeOK
  <2>2. /\ m_fibers' \in Seq(Items) /\ pipe' \in 0 .. PipeCapacity
        /\ (halt' = halt \/ halt' = "pipe")
    BY <2>1, ScheduleType
  <2>3. TypeOK'
    <3>1. sleepers' \in SUBSET Fibers /\ cbTimers' \in Nat
      <4>1. CASE UNCHANGED cbTimers /\ \E f \in sleepers : sleepers' = sleepers \ {f}
        BY <4>1 DEF TypeOK
      <4>2. CASE UNCHANGED sleepers /\ cbTimers > 0 /\ cbTimers' = cbTimers - 1
        BY <4>2 DEF TypeOK
      <4> QED BY <1>19, <4>1, <4>2 DEF Expire
    <3>2. UNCHANGED <<phase, schedVars, cb_fiber, cur, fstate, fdVars, handled,
                      m_tickled, ops, forgotten>>
      BY <1>19 DEF Expire
    <3> QED BY <2>2, <3>1, <3>2 DEF TypeOK, schedVars, fdVars
  <2> QED BY <1>19, <2>3 DEF Expire, schedVars, fdVars, PendingCoversRegistered,
             ContextsFilled, CountsFit
<1>20. ASSUME NEW fd \in Fds, NEW mask \in Masks, NEW ok \in CtlResults,
              HandleEvent(fd, mask, ok)
       PROVE  ControlInv'
  <2>1. handled' \in SUBSET Fds
    BY <1>20 DEF HandleEvent, TypeOK
  <2>2. CASE UNCHANGED <<m_fibers, pipe, fdVars>>
    <3>1. TypeOK'
      <4>1. /\ halt' \in {halt, "pipe", "iomanager.cpp:37"}
            /\ UNCHANGED <<phase, schedVars, cb_fiber, cur, fstate, otherVars, ops>>
        BY <1>20 DEF HandleEvent, Schedule, Tickle
      <4> QED BY <2>1, <2>2, <4>1 DEF TypeOK, schedVars, fdVars, otherVars
    <3> QED BY <1>20, <2>2, <3>1 DEF HandleEvent, schedVars, fdVars,
               PendingCoversRegistered, ContextsFilled, CountsFit
  <2>3. CASE /\ Real(mask) \subseteq Registered(fd)
             /\ events' = Unregister({fd} \X Real(mask))
             /\ Schedule(Triggered(fd, Real(mask)))
             /\ m_pendingEventCount' = PendingAfter(Cardinality(Real(mask)))
             /\ UNCHANGED ctx
    <3>1. /\ Triggered(fd, Real(mask)) \in Seq(Items)
          /\ {fd} \X Real(mask) \in SUBSET events
      BY <2>3, TriggeredItems
    <3>2. Cardinality({fd} \X Real(mask)) = Cardinality(Real(mask))
      BY <2>3, EventsOfOne DEF Registered
    <3>3. /\ PendingCoversRegistered' /\ m_pendingEventCount' \in Nat
          /\ events' \in SUBSET events /\ events' \in SUBSET (Fds \X Evs)
      BY <2>3, <3>1, <3>2, PendingKept
    <3>4. /\ m_fibers' \in Seq(Items) /\ pipe' \in 0 .. PipeCapacity
          /\ (halt' = halt \/ halt' = "pipe")
      BY <2>3, <3>1, ScheduleType
    <3>5. ContextsFilled'
      BY <2>3, <3>3 DEF ContextsFilled
    <3>6. TypeOK'
      BY <1>20, <2>1, <2>3, <3>3, <3>4 DEF HandleEvent, TypeOK, schedVars, otherVars
    <3> QED BY <1>20, <3>3, <3>5, <3>6 DEF HandleEvent, schedVars, CountsFit
  <2> QED BY <1>20, <2>2, <2>3 DEF HandleEvent
<1>21. CASE UNCHANGED vars
  <2>1. TypeOK'
    BY <1>21 DEF vars, TypeOK
  <2> QED BY <1>21, <2>1 DEF vars, PendingCoversRegistered, ContextsFilled,
             CountsFit, Idle
<1> QED
  BY <1>1, <1>2, <1>3, <1>4, <1>5, <1>6, <1>7, <1>8, <1>9, <1>10, <1>11, <1>12,
     <1>13, <1>14, <1>15, <1>16, <1>17, <1>18, <1>19, <1>20, <1>21
     DEF Next, User, Loop

\* A step that leaves the fibres alone keeps FiberInv if whoever resumes a
\* suspended fibre still does.
LEMMA FibersAlone ==
  ASSUME FiberInv, UNCHANGED <<fstate, cur, cb_fiber>>,
         phase = "exec" => phase' = "exec",
         \A f \in Fibers : Tracked(f) => Tracked(f)'
  PROVE  FiberInv'
BY DEF FiberInv, CurFiber

\* A swap out keeps FiberInv if the fibre, when suspended, and all the others
\* are resumed by somebody.
LEMMA FiberSwapsOut ==
  ASSUME ControlInv, FiberInv, phase = "exec",
         NEW st \in {"HOLD", "READY", "TERM", "EXCEPT"}, SwapOut(st),
         \A f \in Fibers :
           Tracked(f) \/ (f = CurFiber /\ st \in {"HOLD", "READY"}) => Tracked(f)'
  PROVE  FiberInv'
<1> SUFFICES ASSUME NEW f \in Fibers
             PROVE  /\ fstate'[f] # "EXEC"
                    /\ fstate'[f] \in {"HOLD", "READY"} => Tracked(f)'
  BY DEF FiberInv
<1>1. fstate \in [Fibers -> States]
  BY DEF ControlInv, TypeOK
<1>2. CASE f = CurFiber
  <2>1. fstate'[f] \in {st, "INIT"}
    BY <1>1, <1>2 DEF SwapOut
  <2> QED BY <1>2, <2>1
<1>3. CASE f # CurFiber
  <2>1. fstate'[f] = fstate[f]
    BY <1>1, <1>3 DEF SwapOut
  <2> QED BY <1>3, <2>1 DEF FiberInv
<1> QED BY <1>2, <1>3

\* schedule() forgets nobody and remembers the fibres of what it was given.
LEMMA ScheduleTracks ==
  ASSUME TypeOK, NEW s \in Seq(Items), Schedule(s)
  PROVE  /\ \A f \in Queued(m_fibers) : f \in Queued(m_fibers')
         /\ \A f \in Queued(s) : f \in Queued(m_fibers')
BY ScheduleType, QueueAppend DEF TypeOK

\* triggerEvent moves the fibres of the events it clears into the queue.
LEMMA TriggerTracks ==
  ASSUME ControlInv, NEW fd \in Fds, NEW R \in SUBSET Registered(fd),
         events' = Unregister({fd} \X R), Schedule(Triggered(fd, R)),
         UNCHANGED <<ctx, sleepers, forgotten, cur>>
  PROVE  \A f \in Fibers : Tracked(f) => Tracked(f)'
<1>1. /\ Triggered(fd, R) \in Seq(Items)
      /\ \A ev \in R : ctx[<<fd, ev>>].fiber \in Queued(Triggered(fd, R))
  BY TriggeredItems
<1>2. /\ \A f \in Queued(m_fibers) : f \in Queued(m_fibers')
      /\ \A f \in Queued(Triggered(fd, R)) : f \in Queued(m_fibers')
  BY <1>1, ScheduleTracks DEF ControlInv
<1>3. ASSUME NEW f \in Fibers, NEW p \in events, ctx[p].fiber = f
      PROVE  Tracked(f)'
  <2>1. CASE p \in events'
    BY <1>3, <2>1 DEF Tracked
  <2>2. CASE p \notin events'
    <3>1. PICK ev \in R : p = <<fd, ev>>
      BY <2>2 DEF Unregister
    <3> QED BY <1>1, <1>2, <1>3, <3>1 DEF Tracked
  <2> QED BY <2>1, <2>2
<1> QED BY <1>2, <1>3 DEF Tracked, WakeItem

\* Every step keeps the suspended fibres resumed by somebody.
LEMMA FiberInductive ==
  ASSUME ControlInv, FiberInv, [Next]_vars
  PROVE  FiberInv'
<1>0. /\ CbItem \in Items /\ <<CbItem>> \in Seq(Items)
      /\ \A f \in Fibers : /\ FiberItem(f) \in Items /\ WakeItem(f) \in Items
                          /\ FiberItem(f).fiber = f /\ WakeItem(f).fiber = f
                          /\ FiberItem(f).kind = "fiber" /\ WakeItem(f).kind = "wake"
                          /\ <<FiberItem(f)>> \in Seq(Items)
                          /\ <<WakeItem(f)>> \in Seq(Items)
      /\ \A it \in Items : it.kind = "wake" => it = WakeItem(it.fiber)
      /\ \A it \in Items : it.kind = "cb" => it.fiber \notin Fibers
      /\ \A f \in Fibers : NoItem # WakeItem(f)
  BY IOAssumption DEF Items, CbItem, FiberItem, WakeItem, NoItem
<1>1. CASE ScheduleCb
  BY <1>0, <1>1, FibersAlone, ScheduleTracks
     DEF ScheduleCb, ControlInv, Tracked, fdVars, otherVars
<1>2. CASE AddTimer
  BY <1>2, FibersAlone DEF AddTimer, Tracked, fdVars
<1>3. ASSUME NEW fd \in Fds, NEW ev \in Evs, NEW ok \in CtlResults,
             AddEventCb(fd, ev, ok)
      PROVE  FiberInv'
  <2>1. \A p \in events : p \in events' /\ ctx'[p] = ctx[p]
    BY <1>3 DEF AddEventCb, AddEvent, fdVars, ControlInv, TypeOK
  <2> QED BY <1>3, <2>1, FibersAlone DEF AddEventCb, Tracked, otherVars
<1>4. ASSUME NEW fd \in Fds, NEW ev \in Evs, NEW ok \in CtlResults,
             DelEvent(fd, ev, ok)
      PROVE  FiberInv'
  <2>1. \A f \in Fibers : ctx[<<fd, ev>>].fiber = f \/ f \in forgotten => f \in forgotten'
    BY <1>4 DEF DelEvent
  <2>2. \A p \in events : p = <<fd, ev>> \/ (p \in events' /\ ctx'[p] = ctx[p])
    BY <1>4 DEF DelEvent, Unregister, ControlInv, TypeOK
  <2> QED BY <1>4, <2>1, <2>2, FibersAlone DEF DelEvent, Tracked
<1>5. ASSUME NEW fd \in Fds, NEW ev \in Evs, NEW ok \in CtlResults,
             CancelEvent(fd, ev, ok)
      PROVE  FiberInv'
  <2>1. {ev} \in SUBSET Registered(fd) /\ {<<fd, ev>>} = {fd} \X {ev}
    BY <1>5 DEF CancelEvent, Registered
  <2> QED BY <1>5, <2>1, TriggerTracks, FibersAlone DEF CancelEvent, otherVars
<1>6. ASSUME NEW fd \in Fds, NEW ok \in CtlResults, CancelAll(fd, ok)
      PROVE  FiberInv'
  BY <1>6, TriggerTracks, FibersAlone DEF CancelAll, otherVars
<1>7. ASSUME NEW fd \in Fds, NEW ev \in Evs, NEW ok \in CtlResults,
             WaitEvent(fd, ev, ok)
      PROVE  FiberInv'
  <2>1. \A p \in events : p \in events' /\ ctx'[p] = ctx[p]
    BY <1>7 DEF WaitEvent, AddEvent, fdVars, ControlInv, TypeOK
  <2>2. phase = "exec" /\ CurFiber \in Fibers /\ cur.kind # "wake"
    BY <1>7 DEF WaitEvent, TaskCode, CurFiber, ControlInv, CountsFit, Items, CbItem
  <2>3. CASE events' = events
    BY <1>7, <2>1, <2>3, FibersAlone DEF WaitEvent, Tracked, otherVars
  <2>4. CASE events' # events
    <3>1. SwapOut("HOLD")
      BY <1>7, <2>4 DEF WaitEvent
    <3>2. <<fd, ev>> \in events' /\ ctx'[<<fd, ev>>] = FiberItem(CurFiber)
      BY <1>7, <2>4 DEF WaitEvent, AddEvent, fdVars, ControlInv, TypeOK
    <3>3. \A f \in Fibers : Tracked(f) \/ f = CurFiber => Tracked(f)'
      BY <1>0, <1>7, <2>1, <2>2, <3>2 DEF WaitEvent, Tracked, otherVars
    <3> QED BY <2>2, <3>1, <3>3, FiberSwapsOut
  <2> QED BY <2>3, <2>4
<1>8. CASE Sleep
  <2>1. phase = "exec" /\ CurFiber \in Fibers /\ cur.kind # "wake"
    BY <1>8 DEF Sleep, TaskCode, CurFiber, ControlInv, CountsFit, Items, CbItem
  <2>2. \A f \in Fibers : Tracked(f) \/ f = CurFiber => Tracked(f)'
    BY <1>0, <1>8, <2>1 DEF Sleep, Tracked, fdVars
  <2> QED BY <1>8, <2>1, <2>2, FiberSwapsOut DEF Sleep
<1>9. CASE YieldToReady
  <2>1. phase = "exec" /\ CurFiber \in Fibers /\ cur.kind # "wake"
    BY <1>9 DEF YieldToReady, TaskCode, CurFiber, ControlInv, CountsFit, Items, CbItem
  <2>2. CurFiber \in Queued(<<FiberItem(CurFiber)>>)
    BY <1>0, <2>1, QueueOne
  <2>3. /\ \A f \in Queued(m_fibers) : f \in Queued(m_fibers')
        /\ CurFiber \in Queued(m_fibers')
    BY <1>0, <1>9, <2>1, <2>2, ScheduleTracks DEF YieldToReady, Requeued, ControlInv
  <2>4. \A f \in Fibers : Tracked(f) \/ f = CurFiber => Tracked(f)'
    BY <1>0, <1>9, <2>1, <2>3 DEF YieldToReady, Tracked, fdVars, otherVars
  <2> QED BY <1>9, <2>1, <2>4, FiberSwapsOut DEF YieldToReady
<1>10. CASE Stop \/ GoOn \/ GoIdle \/ ToEvents \/ IdleSwapOut
  <2>1. /\ phase # "exec"
        /\ UNCHANGED <<m_fibers, cb_fiber, cur, fstate, events, ctx, sleepers, forgotten>>
    BY <1>10 DEF Stop, GoOn, GoIdle, ToEvents, IdleSwapOut, fdVars, otherVars
  <2> QED BY <2>1, FibersAlone DEF Tracked
<1>11. CASE TakeFiber
  <2>1. /\ Head(m_fibers) \in Items /\ Head(m_fibers).fiber \in Fibers
        /\ Queued(m_fibers) \subseteq {Head(m_fibers).fiber} \cup Queued(m_fibers')
    BY <1>11, QueueTail DEF TakeFiber, ControlInv, TypeOK, Items, CbItem
  <2>2. /\ phase # "exec" /\ phase' = "exec" /\ cur = NoItem /\ fstate \in [Fibers -> States]
        /\ cur' = Head(m_fibers) /\ CurFiber' = Head(m_fibers).fiber
        /\ UNCHANGED <<events, ctx, sleepers, forgotten>>
    BY <1>11 DEF TakeFiber, ControlInv, CountsFit, TypeOK, CurFiber, fdVars, otherVars
  <2>3. ASSUME NEW f \in Fibers, f # Head(m_fibers).fiber
        PROVE  fstate'[f] = fstate[f] /\ (Tracked(f) => Tracked(f)')
    BY <1>0, <1>11, <2>1, <2>2, <2>3 DEF TakeFiber, Tracked
  <2>4. fstate'[Head(m_fibers).fiber] = "EXEC"
    BY <1>11, <2>1, <2>2 DEF TakeFiber
  <2> QED BY <2>2, <2>3, <2>4 DEF FiberInv
<1>12. ASSUME NEW c \in Fibers, TakeCb(c)
       PROVE  FiberInv'
  <2>1. /\ Head(m_fibers) \in Items
        /\ Queued(m_fibers) \subseteq {Head(m_fibers).fiber} \cup Queued(m_fibers')
    BY <1>12, QueueTail DEF TakeCb, ControlInv, TypeOK
  <2>2. /\ phase # "exec" /\ phase' = "exec" /\ cur = NoItem /\ fstate \in [Fibers -> States]
        /\ cur' = Head(m_fibers) /\ CurFiber' = c
        /\ UNCHANGED <<events, ctx, sleepers, forgotten>>
    BY <1>12 DEF TakeCb, ControlInv, CountsFit, TypeOK, CurFiber, fdVars, otherVars
  <2>3. ASSUME NEW f \in Fibers PROVE Tracked(f) => Tracked(f)'
    BY <1>0, <1>12, <2>1, <2>2 DEF TakeCb, Tracked
  <2>4. fstate' = [fstate EXCEPT ![c] = "EXEC"]
    BY <1>12 DEF TakeCb
  <2> QED BY <2>2, <2>3, <2>4 DEF FiberInv
<1>13. ASSUME NEW st \in {"TERM", "EXCEPT"}, Finish(st)
       PROVE  FiberInv'
  <2>1. phase = "exec" /\ cur.kind # "wake"
    BY <1>13 DEF Finish, TaskCode
  <2>2. \A f \in Fibers : Tracked(f) => Tracked(f)'
    BY <1>0, <1>13, <2>1 DEF Finish, Tracked, fdVars, otherVars
  <2> QED BY <1>13, <2>1, <2>2, FiberSwapsOut DEF Finish
<1>14. CASE RunWake
  <2>1. phase = "exec" /\ cur.fiber \in Fibers
    BY <1>14 DEF RunWake, ControlInv, CountsFit, Items, CbItem
  <2>2. cur.fiber \in Queued(<<FiberItem(cur.fiber)>>)
    BY <1>0, <2>1, QueueOne
  <2>3. /\ \A f \in Queued(m_fibers) : f \in Queued(m_fibers')
        /\ cur.fiber \in Queued(m_fibers')
    BY <1>0, <1>14, <2>1, <2>2, ScheduleTracks DEF RunWake, ControlInv
  <2>4. \A f \in Fibers : Tracked(f) => Tracked(f)'
    BY <1>0, <1>14, <2>1, <2>3 DEF RunWake, Tracked, fdVars, otherVars
  <2> QED BY <1>14, <2>1, <2>4, FiberSwapsOut DEF RunWake
<1>15. CASE Expire
  <2>1. UNCHANGED <<phase, cb_fiber, cur, fstate, events, ctx, forgotten>>
    BY <1>15 DEF Expire, fdVars
  <2>2. CASE UNCHANGED sleepers /\ Schedule(<<CbItem>>)
    BY <1>0, <2>1, <2>2, FibersAlone, ScheduleTracks DEF ControlInv, Tracked
  <2>3. ASSUME NEW f \in sleepers, sleepers' = sleepers \ {f}, Schedule(<<WakeItem(f)>>)
        PROVE  FiberInv'
    <3>1. f \in Fibers
      BY DEF ControlInv, TypeOK
    <3>2. f \in Queued(<<WakeItem(f)>>)
      BY <1>0, <3>1, QueueOne
    <3>3. /\ \A g \in Queued(m_fibers) : g \in Queued(m_fibers')
          /\ f \in Queued(m_fibers')
      BY <1>0, <2>3, <3>1, <3>2, ScheduleTracks DEF ControlInv
    <3> QED BY <2>1, <2>3, <3>3, FibersAlone DEF Tracked
  <2> QED BY <1>15, <2>2, <2>3 DEF Expire
<1>16. ASSUME NEW fd \in Fds, NEW mask \in Masks, NEW ok \in CtlResults,
              HandleEvent(fd, mask, ok)
       PROVE  FiberInv'
  <2>1. UNCHANGED <<phase, cb_fiber, cur, fstate, sleepers, forgotten>>
    BY <1>16 DEF HandleEvent, otherVars
  <2>2. CASE UNCHANGED <<m_fibers, pipe, fdVars>>
    BY <2>1, <2>2, FibersAlone DEF Tracked, fdVars
  <2>3. CASE /\ Real(mask) \subseteq Registered(fd)
             /\ events' = Unregister({fd} \X Real(mask))
             /\ Schedule(Triggered(fd, Real(mask)))
             /\ UNCHANGED ctx
    BY <2>1, <2>3, TriggerTracks, FibersAlone
  <2> QED BY <1>16, <2>2, <2>3 DEF HandleEvent
<1>17. CASE UNCHANGED vars
  BY <1>17, FibersAlone DEF vars, Tracked
<1> QED
  BY <1>1, <1>2, <1>3, <1>4, <1>5, <1>6, <1>7, <1>8, <1>9, <1>10, <1>11, <1>12,
     <1>13, <1>14, <1>15, <1>16, <1>17 DEF Next, User, Loop

\* What holds of every reachable state.
LEMMA Invariant == Spec => [](ControlInv /\ FiberInv)
<1>1. ASSUME Init PROVE ControlInv /\ FiberInv
  <2>1. /\ Cardinality({}) = 0
        /\ <<>> \in Seq(Items) /\ NoItem \in Items \cup {NoItem}
    BY FS_EmptySet
  <2>2. TypeOK
    <3>1. /\ fstate \in [Fibers -> States]
          /\ ctx \in [Fds \X Evs -> Items \cup {NoItem}]
      BY <1>1 DEF Init, States
    <3>2. m_stopping \in BOOLEAN /\ rootEnded \in BOOLEAN /\ m_tickled \in BOOLEAN
      BY <1>1, Zenon DEF Init
    <3>3. /\ phase \in {"main", "run", "exec", "timers", "events", "stopped"}
          /\ halt = "no" /\ m_fibers \in Seq(Items)
          /\ m_activeThreadCount \in Nat /\ m_idleThreadCount \in Nat
          /\ cb_fiber \in Fibers \cup {None} /\ cur \in Items \cup {NoItem}
      BY <1>1, <2>1 DEF Init
    <3>4. /\ events \subseteq Fds \X Evs /\ m_pendingEventCount \in Nat
          /\ pipe \in 0 .. PipeCapacity /\ handled \subseteq Fds
          /\ sleepers \subseteq Fibers /\ cbTimers \in Nat /\ ops \in 0 .. MaxOps
          /\ forgotten \subseteq Fibers
      BY <1>1, IOAssumption DEF Init
    <3> QED BY <3>1, <3>2, <3>3, <3>4 DEF TypeOK
  <2> QED BY <1>1, <2>1, <2>2 DEF Init, ControlInv, FiberInv,
             PendingCoversRegistered, ContextsFilled, CountsFit
<1> QED BY <1>1, ControlInductive, FiberInductive, PTL DEF Spec

\* The state of the event loop keeps its types: no counter of the scheduler or
\* of the registered events goes below zero, however the calls interleave.
THEOREM TypeCorrect == Spec => []TypeOK
<1>1. ControlInv => TypeOK
  BY DEF ControlInv
<1> QED BY <1>1, Invariant, PTL

\* stopping() cannot miss an event somebody still waits for: addEvent,
\* delEvent, cancelEvent, cancelAll and idle keep m_pendingEventCount at or
\* above the number of registered events.
THEOREM PendingCoversRegisteredHolds == Spec => []PendingCoversRegistered
<1>1. ControlInv => PendingCoversRegistered
  BY DEF ControlInv
<1> QED BY <1>1, Invariant, PTL

\* When stop() returns no task is queued, no timer armed, no event registered
\* and no fibre left suspended but those whose event delEvent took, for every
\* workload.
THEOREM StoppedMeansDoneHolds == Spec => []StoppedMeansDone
<1>1. ASSUME ControlInv, FiberInv PROVE StoppedMeansDone
  <2> SUFFICES ASSUME phase = "stopped"
               PROVE  /\ m_fibers = <<>> /\ sleepers = {} /\ cbTimers = 0 /\ events = {}
                      /\ \A f \in Fibers :
                           fstate[f] \in {"INIT", "TERM", "EXCEPT"} \/ f \in forgotten
    BY DEF StoppedMeansDone
  <2>1. m_fibers = <<>> /\ sleepers = {} /\ cbTimers = 0 /\ m_pendingEventCount = 0
    BY <1>1 DEF ControlInv, Idle
  <2>2. events = {}
    <3>1. IsFiniteSet(events) /\ Cardinality(events) \in Nat
      BY <1>1, EventsFinite DEF ControlInv, TypeOK
    <3>2. Cardinality(events) = 0
      BY <1>1, <2>1, <3>1 DEF ControlInv, PendingCoversRegistered
    <3> QED BY <3>1, <3>2, FS_EmptySet
  <2>3. ASSUME NEW f \in Fibers, Tracked(f) PROVE f \in forgotten
    <3>1. cur # WakeItem(f)
      BY <1>1 DEF ControlInv, CountsFit, NoItem, WakeItem
    <3>2. Queued(m_fibers) = {}
      BY <2>1 DEF Queued
    <3> QED BY <2>1, <2>2, <2>3, <3>1, <3>2 DEF Tracked
  <2> QED BY <1>1, <2>1, <2>2, <2>3 DEF FiberInv, ControlInv, TypeOK, States
<1> QED BY <1>1, Invariant, PTL

-----------------------------------------------------------------------------
\* A suspended fibre is in one place.  These are the places: the queue, the events, the
\* sleep timers, the callback of a sleep timer that runs now, and the fibres that
\* delEvent has forgotten.
InQueue == Queued(m_fibers) \cap Fibers
Waiting == {ctx[p].fiber : p \in events} \cap Fibers
Waking  == {f \in Fibers : cur = WakeItem(f)}
Places  == InQueue \cup Waiting \cup sleepers \cup Waking \cup forgotten

OnceIn(q) == \A i, j \in DOMAIN q :
               q[i].fiber \in Fibers /\ q[i].fiber = q[j].fiber => i = j
OnceInEvents == \A p, q \in events :
                  ctx[p].fiber \in Fibers /\ ctx[p].fiber = ctx[q].fiber => p = q
Apart ==
  /\ InQueue \cap (Waiting \cup sleepers \cup Waking) = {}
  /\ Waiting \cap (sleepers \cup Waking) = {}
  /\ sleepers \cap Waking = {}
  /\ forgotten \cap (InQueue \cup Waiting \cup sleepers \cup Waking) = {}

\* The suspended fibres, and cb_fiber, which is none of them.
Held == {f \in Fibers : fstate[f] \in {"HOLD", "READY"}}
Spare ==
  /\ phase = "exec" => fstate[CurFiber] = "EXEC"
  /\ phase = "exec" /\ cur.kind = "fiber" => cur.fiber # cb_fiber
  /\ cb_fiber # None => \/ fstate[cb_fiber] \in {"INIT", "TERM", "EXCEPT"}
                        \/ phase = "exec" /\ cur.kind # "fiber"

PlaceInv == OnceIn(m_fibers) /\ OnceInEvents /\ Apart /\ Held = Places /\ Spare

\* The fibres of a queue that grows, and of one whose head is taken.
LEMMA QueueGrows ==
  ASSUME NEW q \in Seq(Items), NEW s \in Seq(Items)
  PROVE  /\ q \o s \in Seq(Items) /\ Queued(q \o s) = Queued(q) \cup Queued(s)
         /\ OnceIn(q) /\ OnceIn(s) /\ Queued(q) \cap Queued(s) \cap Fibers = {}
              => OnceIn(q \o s)
<1>1. /\ q \o s \in Seq(Items) /\ Len(q) \in Nat /\ Len(s) \in Nat
      /\ DOMAIN (q \o s) = 1 .. Len(q) + Len(s)
      /\ DOMAIN q = 1 .. Len(q) /\ DOMAIN s = 1 .. Len(s)
      /\ \A i \in 1 .. Len(q) + Len(s) :
           (q \o s)[i] = IF i <= Len(q) THEN q[i] ELSE s[i - Len(q)]
  BY ConcatProperties, LenProperties
<1>2. ASSUME NEW i \in DOMAIN (q \o s)
      PROVE  \/ i \in DOMAIN q /\ (q \o s)[i] = q[i]
             \/ i - Len(q) \in DOMAIN s /\ (q \o s)[i] = s[i - Len(q)] /\ i > Len(q)
  BY <1>1
<1>3. Queued(q \o s) = Queued(q) \cup Queued(s)
  <2>1. Queued(q \o s) \subseteq Queued(q) \cup Queued(s)
    BY <1>2 DEF Queued
  <2> QED BY <2>1, QueueAppend
<1>4. ASSUME OnceIn(q), OnceIn(s), Queued(q) \cap Queued(s) \cap Fibers = {},
             NEW i \in DOMAIN (q \o s), NEW j \in DOMAIN (q \o s),
             (q \o s)[i].fiber \in Fibers, (q \o s)[i].fiber = (q \o s)[j].fiber
      PROVE  i = j
  <2>1. CASE i \in DOMAIN q /\ j \in DOMAIN q
    BY <1>1, <1>4, <2>1 DEF OnceIn
  <2>2. CASE i > Len(q) /\ j > Len(q)
    <3>1. /\ i - Len(q) \in DOMAIN s /\ (q \o s)[i] = s[i - Len(q)]
          /\ j - Len(q) \in DOMAIN s /\ (q \o s)[j] = s[j - Len(q)]
      BY <1>1, <2>2
    <3>2. i - Len(q) = j - Len(q)
      BY <1>4, <3>1 DEF OnceIn
    <3> QED BY <1>1, <3>2
  <2>3. ASSUME NEW k \in DOMAIN q, NEW l \in DOMAIN s, q[k].fiber \in Fibers
        PROVE  q[k].fiber # s[l].fiber
    BY <1>4, <2>3 DEF Queued
  <2> QED BY <1>1, <1>2, <1>4, <2>1, <2>2, <2>3
<1> QED BY <1>1, <1>3, <1>4 DEF OnceIn

LEMMA QueueShrinks ==
  ASSUME NEW q \in Seq(Items), q # <<>>, OnceIn(q)
  PROVE  /\ Head(q) \in Items /\ Tail(q) \in Seq(Items) /\ OnceIn(Tail(q))
         /\ Head(q).fiber \in Queued(q)
         /\ Queued(Tail(q)) \cap Fibers = (Queued(q) \cap Fibers) \ {Head(q).fiber}
<1>1. /\ Head(q) \in Items /\ Tail(q) \in Seq(Items) /\ Len(Tail(q)) = Len(q) - 1
      /\ \A i \in 1 .. Len(Tail(q)) : Tail(q)[i] = q[i + 1]
      /\ DOMAIN q = 1 .. Len(q) /\ DOMAIN Tail(q) = 1 .. Len(Tail(q))
      /\ Len(q) \in Nat /\ Len(q) >= 1 /\ Head(q) = q[1]
  BY HeadTailProperties, LenProperties, EmptySeq
<1>2. ASSUME NEW i \in DOMAIN Tail(q) PROVE i + 1 \in DOMAIN q /\ Tail(q)[i] = q[i + 1]
  BY <1>1
<1>3. OnceIn(Tail(q))
  <2> SUFFICES ASSUME NEW i \in DOMAIN Tail(q), NEW j \in DOMAIN Tail(q),
                      Tail(q)[i].fiber \in Fibers, Tail(q)[i].fiber = Tail(q)[j].fiber
               PROVE  i = j
    BY DEF OnceIn
  <2>1. i + 1 = j + 1
    BY <1>2 DEF OnceIn
  <2> QED BY <1>1, <2>1
<1>4. Queued(Tail(q)) \subseteq Queued(q)
  BY <1>2 DEF Queued
<1>5. 1 \in DOMAIN q
  BY <1>1
<1>6. ASSUME q[1].fiber \in Fibers, q[1].fiber \in Queued(Tail(q)) PROVE FALSE
  <2>1. PICK i \in DOMAIN Tail(q) : Tail(q)[i].fiber = q[1].fiber
    BY <1>6 DEF Queued
  <2>2. i + 1 = 1
    BY <1>2, <1>5, <1>6, <2>1 DEF OnceIn
  <2> QED BY <1>1, <2>2
<1>7. q[1].fiber \in Queued(q)
  BY <1>5 DEF Queued
<1> QED BY <1>1, <1>3, <1>4, <1>6, <1>7, QueueTail

LEMMA QueueOnce ==
  ASSUME NEW it \in Items
  PROVE  <<it>> \in Seq(Items) /\ OnceIn(<<it>>) /\ Queued(<<it>>) = {it.fiber}
BY DEF Queued, OnceIn

\* triggerEvent schedules each fibre it wakes once.
LEMMA TriggeredOnce ==
  ASSUME ControlInv, OnceInEvents, NEW fd \in Fds, NEW R \in SUBSET Registered(fd)
  PROVE  /\ Triggered(fd, R) \in Seq(Items) /\ OnceIn(Triggered(fd, R))
         /\ Queued(Triggered(fd, R)) = {ctx[p].fiber : p \in {fd} \X R}
<1> DEFINE x == <<fd, "READ">>  y == <<fd, "WRITE">>
           a == IF "READ" \in R THEN <<ctx[x]>> ELSE <<>>
           b == IF "WRITE" \in R THEN <<ctx[y]>> ELSE <<>>
<1>0. <<>> \in Seq(Items) /\ OnceIn(<<>>) /\ Queued(<<>>) = {}
  BY DEF OnceIn, Queued
<1>1. \A ev \in R : ev \in Evs /\ <<fd, ev>> \in events /\ ctx[<<fd, ev>>] \in Items
  BY DEF Registered, ControlInv, ContextsFilled
<1>2. /\ a \in Seq(Items) /\ OnceIn(a) /\ Queued(a) = IF "READ" \in R THEN {ctx[x].fiber} ELSE {}
  BY <1>0, <1>1, QueueOnce
<1>3. /\ b \in Seq(Items) /\ OnceIn(b) /\ Queued(b) = IF "WRITE" \in R THEN {ctx[y].fiber} ELSE {}
  BY <1>0, <1>1, QueueOnce
<1>4. Triggered(fd, R) = a \o b
  BY DEF Triggered
<1>5. x # y
  OBVIOUS
<1>6. /\ "READ" \in R => x \in events
      /\ "WRITE" \in R => y \in events
  BY <1>1
<1>7. {ctx[p].fiber : p \in {fd} \X R} = Queued(a) \cup Queued(b)
  <2>1. \A p \in {fd} \X R : (p = x /\ "READ" \in R) \/ (p = y /\ "WRITE" \in R)
    BY <1>1 DEF Evs
  <2>2. /\ "READ" \in R => x \in {fd} \X R
        /\ "WRITE" \in R => y \in {fd} \X R
    OBVIOUS
  <2> HIDE DEF a, b, x, y
  <2> QED BY <1>2, <1>3, <2>1, <2>2
<1> HIDE DEF a, b, x, y
<1>8. Queued(a) \cap Queued(b) \cap Fibers = {}
  BY <1>2, <1>3, <1>5, <1>6 DEF OnceInEvents
<1> QED BY <1>2, <1>3, <1>4, <1>7, <1>8, QueueGrows

\* What the items refer to.
LEMMA ItemKinds ==
  /\ CbItem \in Items /\ CbItem.fiber \notin Fibers /\ CbItem.kind = "cb"
  /\ \A f \in Fibers : /\ FiberItem(f) \in Items /\ WakeItem(f) \in Items
                      /\ FiberItem(f).fiber = f /\ WakeItem(f).fiber = f
                      /\ FiberItem(f).kind = "fiber" /\ WakeItem(f).kind = "wake"
                      /\ NoItem # WakeItem(f)
  /\ \A it \in Items : /\ it.kind = "wake" => it.fiber \in Fibers /\ it = WakeItem(it.fiber)
                       /\ it.kind = "fiber" => it.fiber \in Fibers /\ it = FiberItem(it.fiber)
                       /\ it.kind = "cb" => it.fiber \notin Fibers
                       /\ it.kind \in {"fiber", "wake", "cb"}
BY IOAssumption DEF Items, CbItem, FiberItem, WakeItem, NoItem

\* One more item in the queue.
LEMMA QueueItem ==
  ASSUME ControlInv, OnceIn(m_fibers), NEW it \in Items, it.fiber \notin InQueue,
         Schedule(<<it>>)
  PROVE  OnceIn(m_fibers)' /\ InQueue' = InQueue \cup ({it.fiber} \cap Fibers)
<1>1. m_fibers \in Seq(Items) /\ m_fibers' = m_fibers \o <<it>>
  BY DEF ControlInv, TypeOK, Schedule
<1>2. <<it>> \in Seq(Items) /\ OnceIn(<<it>>) /\ Queued(<<it>>) = {it.fiber}
  BY QueueOnce
<1>3. Queued(m_fibers) \cap Queued(<<it>>) \cap Fibers = {}
  BY <1>2 DEF InQueue
<1>4. /\ Queued(m_fibers \o <<it>>) = Queued(m_fibers) \cup Queued(<<it>>)
      /\ OnceIn(m_fibers \o <<it>>)
  BY <1>1, <1>2, <1>3, QueueGrows
<1>5. OnceIn(m_fibers') /\ Queued(m_fibers') = Queued(m_fibers) \cup {it.fiber}
  BY <1>1, <1>2, <1>4
<1>6. OnceIn(m_fibers)'
  BY <1>5 DEF OnceIn
<1> QED BY <1>5, <1>6 DEF InQueue, Queued

\* Registered events are triggered: whoever waits for one moves to the queue.
LEMMA TriggerMoves ==
  ASSUME ControlInv, PlaceInv, NEW fd \in Fds, NEW R \in SUBSET Registered(fd),
         events' = Unregister({fd} \X R), Schedule(Triggered(fd, R)),
         UNCHANGED <<phase, cb_fiber, cur, fstate, ctx, sleepers, forgotten>>
  PROVE  PlaceInv'
<1> DEFINE S == {fd} \X R
           W == {ctx[p].fiber : p \in S} \cap Fibers
<1>1. /\ Triggered(fd, R) \in Seq(Items) /\ OnceIn(Triggered(fd, R))
      /\ Queued(Triggered(fd, R)) = {ctx[p].fiber : p \in S}
  BY TriggeredOnce DEF PlaceInv
<1>2. S \in SUBSET events
  BY TriggeredItems
<1>3. m_fibers \in Seq(Items) /\ m_fibers' = m_fibers \o Triggered(fd, R)
  BY DEF ControlInv, TypeOK, Schedule
<1>4. W \subseteq Waiting
  BY <1>2 DEF Waiting
<1>5. Queued(m_fibers) \cap Queued(Triggered(fd, R)) \cap Fibers = {}
  BY <1>1, <1>4 DEF PlaceInv, Apart, InQueue
<1>6. OnceIn(m_fibers') /\ Queued(m_fibers') = Queued(m_fibers) \cup {ctx[p].fiber : p \in S}
  BY <1>1, <1>3, <1>5, QueueGrows DEF PlaceInv
<1>7. OnceIn(m_fibers)'
  BY <1>6 DEF OnceIn
<1>8. InQueue' = InQueue \cup W
  BY <1>6 DEF InQueue, Queued
<1>9. events' = events \ S /\ events' \subseteq events
  BY DEF Unregister
<1>10. OnceInEvents'
  BY <1>9 DEF OnceInEvents, PlaceInv
<1>11. Waiting' = Waiting \ W
  <2>1. Waiting' = {ctx[p].fiber : p \in events \ S} \cap Fibers
    BY <1>9 DEF Waiting
  <2>2. ASSUME NEW p \in events, NEW q \in S, ctx[p].fiber \in Fibers, ctx[p].fiber = ctx[q].fiber
        PROVE  p \in S
    BY <1>2, <2>2 DEF PlaceInv, OnceInEvents
  <2> DEFINE A == {ctx[p].fiber : p \in events}
             B == {ctx[p].fiber : p \in S}
             C == {ctx[p].fiber : p \in events \ S}
  <2>3. C \subseteq A /\ A \subseteq B \cup C
    OBVIOUS
  <2>4. B \cap C \cap Fibers = {}
    BY <2>2
  <2>5. Waiting = A \cap Fibers /\ Waiting' = C \cap Fibers /\ W = B \cap Fibers
    BY <2>1 DEF Waiting
  <2> HIDE DEF A, B, C, W, S
  <2> QED BY <2>3, <2>4, <2>5
<1>12. sleepers' = sleepers /\ Waking' = Waking /\ Held' = Held /\ Spare'
  BY DEF Waking, Held, Spare, PlaceInv, CurFiber
<1> HIDE DEF S, W
<1>13. Apart' /\ Places' = Places
  BY <1>4, <1>8, <1>11, <1>12 DEF Apart, Places, PlaceInv
<1> QED BY <1>7, <1>10, <1>12, <1>13 DEF PlaceInv

\* No fibre changes its place.
LEMMA NobodyMoves ==
  ASSUME PlaceInv, OnceIn(m_fibers)', InQueue' = InQueue,
         OnceInEvents', Waiting' = Waiting,
         UNCHANGED <<cb_fiber, cur, fstate, sleepers, forgotten>>,
         phase' = phase \/ (phase # "exec" /\ phase' # "exec")
  PROVE  PlaceInv'
<1>1. Waking' = Waking /\ Held' = Held /\ Spare'
  BY DEF Waking, Held, Spare, PlaceInv, CurFiber
<1> QED BY <1>1 DEF PlaceInv, Apart, Places

\* Who registers a callback moves no fibre.
LEMMA CallbackWaits ==
  ASSUME ControlInv, OnceInEvents, NEW fd \in Fds, NEW ev \in Evs, NEW ok,
         AddEvent(fd, ev, CbItem, ok)
  PROVE  OnceInEvents' /\ Waiting' = Waiting
<1>1. CASE UNCHANGED fdVars
  BY <1>1 DEF fdVars, OnceInEvents, Waiting
<1>2. CASE /\ <<fd, ev>> \notin events
           /\ events' = events \cup {<<fd, ev>>}
           /\ ctx' = [ctx EXCEPT ![<<fd, ev>>] = CbItem]
  <2>1. /\ ctx'[<<fd, ev>>].fiber \notin Fibers
        /\ \A p \in events : ctx'[p] = ctx[p]
    BY <1>2, ItemKinds DEF ControlInv, TypeOK
  <2>2. Waiting' = {ctx'[p].fiber : p \in events'} \cap Fibers
    BY DEF Waiting
  <2> QED BY <1>2, <2>1, <2>2 DEF OnceInEvents, Waiting
<1> QED BY <1>1, <1>2 DEF AddEvent

\* A fibre that registers itself waits, in that event alone.
LEMMA FiberWaits ==
  ASSUME ControlInv, OnceInEvents, NEW fd \in Fds, NEW ev \in Evs, NEW ok,
         NEW f \in Fibers, f \notin Waiting, events' # events,
         AddEvent(fd, ev, FiberItem(f), ok)
  PROVE  OnceInEvents' /\ Waiting' = Waiting \cup {f}
<1>1. /\ <<fd, ev>> \notin events
      /\ events' = events \cup {<<fd, ev>>}
      /\ ctx' = [ctx EXCEPT ![<<fd, ev>>] = FiberItem(f)]
  BY DEF AddEvent, fdVars
<1>2. /\ ctx'[<<fd, ev>>].fiber = f
      /\ \A p \in events : ctx'[p] = ctx[p]
  BY <1>1, ItemKinds DEF ControlInv, TypeOK
<1>3. Waiting' = {ctx'[p].fiber : p \in events'} \cap Fibers
  BY DEF Waiting
<1>4. \A p \in events : ctx[p].fiber # f
  BY DEF Waiting
<1> QED BY <1>1, <1>2, <1>3, <1>4 DEF OnceInEvents, Waiting

\* The running fibre swaps out: unless it ended it is now suspended.
LEMMA SwapPlaces ==
  ASSUME ControlInv, PlaceInv, phase = "exec",
         NEW st \in {"HOLD", "READY", "TERM", "EXCEPT"}, SwapOut(st)
  PROVE  /\ Spare' /\ Waking' = {} /\ CurFiber \in Fibers \ Held
         /\ Held' = IF st \in {"HOLD", "READY"} THEN Held \cup {CurFiber} ELSE Held
<1>1. CurFiber \in Fibers
  BY ItemKinds DEF CurFiber, ControlInv, CountsFit
<1>2. fstate \in [Fibers -> States] /\ fstate[CurFiber] = "EXEC" /\ cb_fiber \in Fibers \cup {None}
  BY DEF ControlInv, TypeOK, PlaceInv, Spare
<1>3. CurFiber \notin Held
  BY <1>2 DEF Held
<1>4. Waking' = {}
  BY ItemKinds DEF SwapOut, Waking
<1>5. /\ \A f \in Fibers \ {CurFiber} : fstate'[f] = fstate[f]
      /\ fstate'[CurFiber] = IF cur.kind # "fiber" /\ st \in {"TERM", "EXCEPT"} THEN "INIT" ELSE st
  BY <1>1, <1>2 DEF SwapOut
<1>6. Held' = IF st \in {"HOLD", "READY"} THEN Held \cup {CurFiber} ELSE Held
  BY <1>1, <1>3, <1>5 DEF Held
<1>7. Spare'
  <2>1. phase' = "run"
    BY DEF SwapOut
  <2>2. CASE cur.kind # "fiber"
    <3>1. CurFiber = cb_fiber
      BY <2>2 DEF CurFiber
    <3> QED BY <2>1, <2>2, <3>1, <1>5 DEF SwapOut, Spare
  <2>3. CASE cur.kind = "fiber"
    <3>1. CurFiber = cur.fiber /\ cb_fiber # CurFiber /\ cb_fiber' = cb_fiber
      BY <2>3 DEF CurFiber, PlaceInv, Spare, SwapOut
    <3>2. cb_fiber # None => fstate'[cb_fiber] = fstate[cb_fiber]
      BY <1>2, <1>5, <3>1
    <3> QED BY <2>1, <2>3, <3>1, <3>2 DEF PlaceInv, Spare
  <2> QED BY <2>2, <2>3
<1> QED BY <1>1, <1>3, <1>4, <1>6, <1>7

\* Every step leaves every suspended fibre in exactly one place.
LEMMA PlaceInductive ==
  ASSUME ControlInv, PlaceInv, [Next]_vars
  PROVE  PlaceInv'
<1>0. OnceIn(m_fibers) /\ OnceInEvents
  BY DEF PlaceInv
<1>1. CASE ScheduleCb
  <2>1. OnceIn(m_fibers)' /\ InQueue' = InQueue
    BY <1>0, <1>1, ItemKinds, QueueItem DEF ScheduleCb, InQueue
  <2>2. /\ UNCHANGED <<phase, cb_fiber, cur, fstate, sleepers, forgotten, events, ctx>>
        /\ OnceInEvents' /\ Waiting' = Waiting
    BY <1>0, <1>1 DEF ScheduleCb, fdVars, otherVars, OnceInEvents, Waiting
  <2> QED BY <2>1, <2>2, NobodyMoves
<1>2. CASE AddTimer
  <2>1. /\ UNCHANGED <<phase, m_fibers, cb_fiber, cur, fstate, sleepers, forgotten, events, ctx>>
    BY <1>2 DEF AddTimer, fdVars
  <2>2. OnceIn(m_fibers)' /\ InQueue' = InQueue /\ OnceInEvents' /\ Waiting' = Waiting
    BY <1>0, <2>1 DEF OnceIn, InQueue, Queued, OnceInEvents, Waiting
  <2> QED BY <2>1, <2>2, NobodyMoves
<1>3. ASSUME NEW fd \in Fds, NEW ev \in Evs, NEW ok \in CtlResults,
             AddEventCb(fd, ev, ok)
      PROVE  PlaceInv'
  <2>1. OnceInEvents' /\ Waiting' = Waiting
    BY <1>0, <1>3, CallbackWaits DEF AddEventCb
  <2>2. UNCHANGED <<phase, m_fibers, cb_fiber, cur, fstate, sleepers, forgotten>>
    BY <1>3 DEF AddEventCb, otherVars
  <2>3. OnceIn(m_fibers)' /\ InQueue' = InQueue
    BY <1>0, <2>2 DEF OnceIn, InQueue, Queued
  <2> QED BY <2>1, <2>2, <2>3, NobodyMoves
<1>4. ASSUME NEW fd \in Fds, NEW ev \in Evs, NEW ok \in CtlResults,
             DelEvent(fd, ev, ok)
      PROVE  PlaceInv'
  <2> DEFINE gone == {ctx[<<fd, ev>>].fiber} \cap Fibers
  <2>1. /\ UNCHANGED <<phase, m_fibers, cb_fiber, cur, fstate, sleepers>>
        /\ <<fd, ev>> \in events /\ events' = events \ {<<fd, ev>>}
        /\ ctx' = [ctx EXCEPT ![<<fd, ev>>] = NoItem]
        /\ forgotten' = forgotten \cup gone
    BY <1>4 DEF DelEvent, Unregister
  <2>2. OnceIn(m_fibers)' /\ InQueue' = InQueue
    BY <1>0, <2>1 DEF OnceIn, InQueue, Queued
  <2>3. \A p \in events' : p \in events /\ p # <<fd, ev>> /\ ctx'[p] = ctx[p]
    BY <2>1 DEF ControlInv, TypeOK
  <2>4. Waiting' = Waiting \ gone /\ gone \subseteq Waiting
    <3>1. Waiting' = {ctx'[p].fiber : p \in events'} \cap Fibers
      BY DEF Waiting
    <3>2. \A p \in events' : ctx'[p].fiber \notin gone
      BY <1>0, <2>1, <2>3 DEF OnceInEvents
    <3> QED BY <2>1, <2>3, <3>1, <3>2 DEF Waiting
  <2>5. OnceInEvents'
    BY <1>0, <2>3 DEF OnceInEvents
  <2>6. Waking' = Waking /\ Held' = Held /\ Spare'
    BY <2>1 DEF Waking, Held, Spare, PlaceInv, CurFiber
  <2> HIDE DEF gone
  <2>7. Apart' /\ Places' = Places
    BY <2>1, <2>2, <2>4, <2>6 DEF Apart, Places, PlaceInv
  <2> QED BY <2>2, <2>5, <2>6, <2>7 DEF PlaceInv
<1>5. ASSUME NEW fd \in Fds, NEW ev \in Evs, NEW ok \in CtlResults,
             CancelEvent(fd, ev, ok)
      PROVE  PlaceInv'
  <2>1. {ev} \in SUBSET Registered(fd) /\ {<<fd, ev>>} = {fd} \X {ev}
    BY <1>5 DEF CancelEvent, Registered
  <2>2. /\ events' = Unregister({fd} \X {ev}) /\ Schedule(Triggered(fd, {ev}))
        /\ UNCHANGED <<phase, cb_fiber, cur, fstate, ctx, sleepers, forgotten>>
    BY <1>5, <2>1 DEF CancelEvent, otherVars
  <2> QED BY <2>1, <2>2, TriggerMoves
<1>6. ASSUME NEW fd \in Fds, NEW ok \in CtlResults, CancelAll(fd, ok)
      PROVE  PlaceInv'
  <2>1. /\ Registered(fd) \in SUBSET Registered(fd)
        /\ events' = Unregister({fd} \X Registered(fd))
        /\ Schedule(Triggered(fd, Registered(fd)))
        /\ UNCHANGED <<phase, cb_fiber, cur, fstate, ctx, sleepers, forgotten>>
    BY <1>6 DEF CancelAll, otherVars
  <2> QED BY <2>1, TriggerMoves
<1>7. ASSUME NEW fd \in Fds, NEW ev \in Evs, NEW ok \in CtlResults,
             WaitEvent(fd, ev, ok)
      PROVE  PlaceInv'
  <2>1. /\ phase = "exec" /\ cur.kind # "wake" /\ UNCHANGED <<m_fibers, sleepers, forgotten>>
        /\ AddEvent(fd, ev, FiberItem(CurFiber), ok)
    BY <1>7 DEF WaitEvent, TaskCode, otherVars
  <2>2. OnceIn(m_fibers)' /\ InQueue' = InQueue
    BY <1>0, <2>1 DEF OnceIn, InQueue, Queued
  <2>3. CASE events' = events
    <3>1. UNCHANGED <<phase, cb_fiber, cur, fstate>>
      BY <1>7, <2>3 DEF WaitEvent
    <3>2. ctx' = ctx
      BY <2>1, <2>3 DEF AddEvent, fdVars
    <3>3. OnceInEvents' /\ Waiting' = Waiting
      BY <1>0, <2>3, <3>2 DEF OnceInEvents, Waiting
    <3> QED BY <2>1, <2>2, <3>1, <3>3, NobodyMoves
  <2>4. CASE events' # events
    <3>1. SwapOut("HOLD")
      BY <1>7, <2>4 DEF WaitEvent
    <3>2. /\ Spare' /\ Waking' = {} /\ CurFiber \in Fibers \ Held
          /\ Held' = Held \cup {CurFiber}
      BY <2>1, <3>1, SwapPlaces
    <3>3. Waking = {} /\ CurFiber \notin Places
      BY <2>1, <3>2, ItemKinds DEF Waking, PlaceInv
    <3>4. OnceInEvents' /\ Waiting' = Waiting \cup {CurFiber}
      BY <1>0, <2>1, <2>4, <3>2, <3>3, FiberWaits DEF Places
    <3>5. Apart' /\ Places' = Places \cup {CurFiber}
      BY <2>1, <2>2, <3>2, <3>3, <3>4 DEF Apart, Places, PlaceInv
    <3> QED BY <2>2, <3>2, <3>4, <3>5 DEF PlaceInv
  <2> QED BY <2>3, <2>4
<1>8. CASE Sleep
  <2>1. /\ phase = "exec" /\ cur.kind # "wake" /\ SwapOut("HOLD")
        /\ UNCHANGED <<m_fibers, events, ctx, forgotten>> /\ sleepers' = sleepers \cup {CurFiber}
    BY <1>8 DEF Sleep, TaskCode, fdVars
  <2>2. OnceIn(m_fibers)' /\ InQueue' = InQueue /\ OnceInEvents' /\ Waiting' = Waiting
    BY <1>0, <2>1 DEF OnceIn, InQueue, Queued, OnceInEvents, Waiting
  <2>3. /\ Spare' /\ Waking' = {} /\ CurFiber \in Fibers \ Held
        /\ Held' = Held \cup {CurFiber}
    BY <2>1, SwapPlaces
  <2>4. Waking = {} /\ CurFiber \notin Places
    BY <2>1, <2>3, ItemKinds DEF Waking, PlaceInv
  <2>5. Apart' /\ Places' = Places \cup {CurFiber}
    BY <2>1, <2>2, <2>3, <2>4 DEF Apart, Places, PlaceInv
  <2> QED BY <2>2, <2>3, <2>5 DEF PlaceInv
<1>9. CASE YieldToReady
  <2>1. /\ phase = "exec" /\ cur.kind # "wake" /\ SwapOut("READY")
        /\ UNCHANGED <<events, ctx, sleepers, forgotten>> /\ Schedule(<<FiberItem(CurFiber)>>)
    BY <1>9 DEF YieldToReady, Requeued, TaskCode, fdVars, otherVars
  <2>2. OnceInEvents' /\ Waiting' = Waiting
    BY <1>0, <2>1 DEF OnceInEvents, Waiting
  <2>3. /\ Spare' /\ Waking' = {} /\ CurFiber \in Fibers \ Held
        /\ Held' = Held \cup {CurFiber}
    BY <2>1, SwapPlaces
  <2>4. Waking = {} /\ CurFiber \notin Places
    BY <2>1, <2>3, ItemKinds DEF Waking, PlaceInv
  <2>5. OnceIn(m_fibers)' /\ InQueue' = InQueue \cup {CurFiber}
    <3>1. /\ FiberItem(CurFiber) \in Items /\ FiberItem(CurFiber).fiber = CurFiber
          /\ CurFiber \in Fibers
      BY <2>3, ItemKinds
    <3>2. CurFiber \notin InQueue
      BY <2>4 DEF Places
    <3> QED BY <1>0, <2>1, <3>1, <3>2, QueueItem
  <2>6. Apart' /\ Places' = Places \cup {CurFiber}
    BY <2>1, <2>2, <2>3, <2>4, <2>5 DEF Apart, Places, PlaceInv
  <2> QED BY <2>2, <2>3, <2>5, <2>6 DEF PlaceInv
<1>10. CASE Stop \/ GoOn \/ GoIdle \/ ToEvents \/ IdleSwapOut
  <2>1. /\ phase # "exec" /\ phase' # "exec"
        /\ UNCHANGED <<m_fibers, cb_fiber, cur, fstate, events, ctx, sleepers, forgotten>>
    BY <1>10 DEF Stop, GoOn, GoIdle, ToEvents, IdleSwapOut, fdVars, otherVars
  <2>2. OnceIn(m_fibers)' /\ InQueue' = InQueue /\ OnceInEvents' /\ Waiting' = Waiting
    BY <1>0, <2>1 DEF OnceIn, InQueue, Queued, OnceInEvents, Waiting
  <2> QED BY <2>1, <2>2, NobodyMoves
<1>11. CASE TakeFiber
  <2> DEFINE it == Head(m_fibers)
  <2>1. /\ phase = "run" /\ phase' = "exec" /\ cur = NoItem /\ cur' = it
        /\ it.kind = "fiber" /\ m_fibers \in Seq(Items) /\ m_fibers # <<>>
        /\ m_fibers' = Tail(m_fibers) /\ fstate' = [fstate EXCEPT ![it.fiber] = "EXEC"]
        /\ fstate \in [Fibers -> States] /\ cb_fiber \in Fibers \cup {None}
        /\ UNCHANGED <<cb_fiber, events, ctx, sleepers, forgotten>>
    BY <1>11 DEF TakeFiber, ControlInv, TypeOK, CountsFit, fdVars, otherVars
  <2>2. /\ it \in Items /\ it.fiber \in Queued(m_fibers) /\ OnceIn(Tail(m_fibers))
        /\ Queued(Tail(m_fibers)) \cap Fibers = (Queued(m_fibers) \cap Fibers) \ {it.fiber}
    BY <1>0, <2>1, QueueShrinks
  <2> HIDE DEF it
  <2>3. it.fiber \in Fibers /\ it.fiber \in InQueue /\ it.fiber \in Held
    BY <2>1, <2>2, ItemKinds DEF InQueue, PlaceInv, Places
  <2>4. OnceIn(m_fibers)' /\ InQueue' = InQueue \ {it.fiber}
    BY <2>1, <2>2 DEF OnceIn, InQueue, Queued
  <2>5. OnceInEvents' /\ Waiting' = Waiting
    BY <1>0, <2>1 DEF OnceInEvents, Waiting
  <2>6. Waking = {} /\ Waking' = {}
    BY <2>1, ItemKinds DEF Waking
  <2>7. Held' = Held \ {it.fiber}
    BY <2>1, <2>3 DEF Held
  <2>8. Spare'
    <3>1. cb_fiber # it.fiber
      BY <2>1, <2>3, IOAssumption DEF PlaceInv, Spare, Held
    <3>2. /\ cb_fiber # None => fstate[cb_fiber] \in {"INIT", "TERM", "EXCEPT"}
      BY <2>1 DEF PlaceInv, Spare
    <3>3. /\ cb_fiber # None => fstate'[cb_fiber] = fstate[cb_fiber]
          /\ fstate'[it.fiber] = "EXEC" /\ CurFiber' = it.fiber
      BY <2>1, <2>3, <3>1 DEF CurFiber
    <3> QED BY <2>1, <3>1, <3>2, <3>3 DEF Spare
  <2>9. Apart' /\ Places' = Places \ {it.fiber}
    BY <2>1, <2>3, <2>4, <2>5, <2>6 DEF Apart, Places, PlaceInv
  <2> QED BY <2>4, <2>5, <2>7, <2>8, <2>9 DEF PlaceInv
<1>12. ASSUME NEW c \in Fibers, TakeCb(c)
       PROVE  PlaceInv'
  <2> DEFINE it == Head(m_fibers)
  <2>1. /\ phase = "run" /\ phase' = "exec" /\ cur = NoItem /\ cur' = it
        /\ it.kind \in {"cb", "wake"} /\ m_fibers \in Seq(Items) /\ m_fibers # <<>>
        /\ m_fibers' = Tail(m_fibers) /\ fstate' = [fstate EXCEPT ![c] = "EXEC"]
        /\ fstate \in [Fibers -> States] /\ cb_fiber' = c
        /\ UNCHANGED <<events, ctx, sleepers, forgotten>>
    BY <1>12 DEF TakeCb, ControlInv, TypeOK, CountsFit, fdVars, otherVars
  <2>2. /\ it \in Items /\ it.fiber \in Queued(m_fibers) /\ OnceIn(Tail(m_fibers))
        /\ Queued(Tail(m_fibers)) \cap Fibers = (Queued(m_fibers) \cap Fibers) \ {it.fiber}
    BY <1>0, <2>1, QueueShrinks
  <2>3. c \notin Held
    <3>1. CASE cb_fiber = None
      BY <1>12, <3>1 DEF TakeCb, Free, Held
    <3>2. CASE cb_fiber # None
      BY <1>12, <2>1, <3>2 DEF TakeCb, PlaceInv, Spare, Held
    <3> QED BY <3>1, <3>2
  <2> HIDE DEF it
  <2>4. OnceIn(m_fibers)' /\ InQueue' = InQueue \ {it.fiber}
    BY <2>1, <2>2 DEF OnceIn, InQueue, Queued
  <2>5. OnceInEvents' /\ Waiting' = Waiting
    BY <1>0, <2>1 DEF OnceInEvents, Waiting
  <2>6. Waking = {} /\ Waking' = {it.fiber} \cap Fibers
    <3>1. Waking = {}
      BY <2>1, ItemKinds DEF Waking
    <3>2. Waking' = {f \in Fibers : it = WakeItem(f)}
      BY <2>1 DEF Waking, WakeItem
    <3>3. \A f \in Fibers : it = WakeItem(f) <=> it.fiber = f
      BY <2>1, <2>2, ItemKinds
    <3> QED BY <3>1, <3>2, <3>3
  <2>7. Held' = Held
    BY <2>1, <2>3 DEF Held
  <2>8. Spare'
    BY <2>1 DEF Spare, CurFiber
  <2>9. {it.fiber} \cap Fibers \subseteq InQueue
    BY <2>2 DEF InQueue
  <2>10. Apart' /\ Places' = Places
    <3> DEFINE X == {it.fiber} \cap Fibers
    <3>1. /\ X \subseteq InQueue /\ InQueue' = InQueue \ X /\ Waking = {} /\ Waking' = X
          /\ sleepers' = sleepers /\ forgotten' = forgotten /\ Apart
      BY <2>1, <2>4, <2>6, <2>9 DEF InQueue, PlaceInv
    <3> HIDE DEF X
    <3> QED BY <2>5, <3>1 DEF Apart, Places
  <2> QED BY <2>4, <2>5, <2>7, <2>8, <2>10 DEF PlaceInv
<1>13. ASSUME NEW st \in {"TERM", "EXCEPT"}, Finish(st)
       PROVE  PlaceInv'
  <2>1. /\ phase = "exec" /\ cur.kind # "wake" /\ SwapOut(st)
        /\ UNCHANGED <<m_fibers, events, ctx, sleepers, forgotten>>
    BY <1>13 DEF Finish, TaskCode, fdVars, otherVars
  <2>2. OnceIn(m_fibers)' /\ InQueue' = InQueue /\ OnceInEvents' /\ Waiting' = Waiting
    BY <1>0, <2>1 DEF OnceIn, InQueue, Queued, OnceInEvents, Waiting
  <2>3. Spare' /\ Waking' = {} /\ Held' = Held
    BY <2>1, SwapPlaces
  <2>4. Waking = {}
    BY <2>1, ItemKinds DEF Waking
  <2> QED BY <2>1, <2>2, <2>3, <2>4 DEF PlaceInv, Apart, Places
<1>14. CASE RunWake
  <2>1. /\ phase = "exec" /\ cur.kind = "wake" /\ SwapOut("TERM")
        /\ UNCHANGED <<events, ctx, sleepers, forgotten>> /\ Schedule(<<FiberItem(cur.fiber)>>)
    BY <1>14 DEF RunWake, fdVars, otherVars
  <2>2. OnceInEvents' /\ Waiting' = Waiting
    BY <1>0, <2>1 DEF OnceInEvents, Waiting
  <2>3. Spare' /\ Waking' = {} /\ Held' = Held
    BY <2>1, SwapPlaces
  <2>4. cur.fiber \in Fibers /\ cur = WakeItem(cur.fiber)
    BY <2>1, ItemKinds DEF ControlInv, CountsFit
  <2>5. Waking = {cur.fiber}
    <3>1. \A f \in Fibers : cur = WakeItem(f) => cur.fiber = f
      BY ItemKinds
    <3> QED BY <2>4, <3>1 DEF Waking
  <2>6. OnceIn(m_fibers)' /\ InQueue' = InQueue \cup {cur.fiber}
    <3>1. FiberItem(cur.fiber) \in Items /\ FiberItem(cur.fiber).fiber = cur.fiber
      BY <2>4, ItemKinds
    <3>2. cur.fiber \notin InQueue
      BY <2>5 DEF PlaceInv, Apart
    <3> QED BY <1>0, <2>1, <2>4, <3>1, <3>2, QueueItem
  <2>7. Apart' /\ Places' = Places
    BY <2>1, <2>2, <2>3, <2>5, <2>6 DEF Apart, Places, PlaceInv
  <2> QED BY <2>2, <2>3, <2>6, <2>7 DEF PlaceInv
<1>15. CASE Expire
  <2>1. UNCHANGED <<phase, cb_fiber, cur, fstate, events, ctx, forgotten>>
    BY <1>15 DEF Expire, fdVars
  <2>2. /\ OnceInEvents' /\ Waiting' = Waiting
    BY <1>0, <2>1 DEF OnceInEvents, Waiting
  <2>3. CASE UNCHANGED sleepers /\ Schedule(<<CbItem>>)
    <3>1. OnceIn(m_fibers)' /\ InQueue' = InQueue
      BY <1>0, <2>3, ItemKinds, QueueItem DEF InQueue
    <3> QED BY <2>1, <2>2, <2>3, <3>1, NobodyMoves
  <2>4. ASSUME NEW f \in sleepers, sleepers' = sleepers \ {f}, Schedule(<<WakeItem(f)>>)
        PROVE  PlaceInv'
    <3>1. f \in Fibers /\ WakeItem(f) \in Items /\ WakeItem(f).fiber = f
      BY ItemKinds DEF ControlInv, TypeOK
    <3>2. f \notin InQueue
      BY DEF PlaceInv, Apart
    <3>3. OnceIn(m_fibers)' /\ InQueue' = InQueue \cup {f}
      BY <1>0, <2>4, <3>1, <3>2, QueueItem
    <3>4. Waking' = Waking /\ Held' = Held /\ Spare'
      BY <2>1 DEF Waking, Held, Spare, PlaceInv, CurFiber
    <3>5. Apart' /\ Places' = Places
      BY <2>1, <2>2, <2>4, <3>3, <3>4 DEF Apart, Places, PlaceInv
    <3> QED BY <2>2, <3>3, <3>4, <3>5 DEF PlaceInv
  <2> QED BY <1>15, <2>3, <2>4 DEF Expire
<1>16. ASSUME NEW fd \in Fds, NEW mask \in Masks, NEW ok \in CtlResults,
              HandleEvent(fd, mask, ok)
       PROVE  PlaceInv'
  <2>1. UNCHANGED <<phase, cb_fiber, cur, fstate, sleepers, forgotten>>
    BY <1>16 DEF HandleEvent, otherVars
  <2>2. CASE UNCHANGED <<m_fibers, pipe, fdVars>>
    <3>1. OnceIn(m_fibers)' /\ InQueue' = InQueue /\ OnceInEvents' /\ Waiting' = Waiting
      BY <1>0, <2>2 DEF OnceIn, InQueue, Queued, OnceInEvents, Waiting, fdVars
    <3> QED BY <2>1, <3>1, NobodyMoves
  <2>3. CASE /\ Real(mask) \subseteq Registered(fd)
             /\ events' = Unregister({fd} \X Real(mask))
             /\ Schedule(Triggered(fd, Real(mask)))
             /\ UNCHANGED ctx
    BY <2>1, <2>3, TriggerMoves
  <2> QED BY <1>16, <2>2, <2>3 DEF HandleEvent
<1>17. CASE UNCHANGED vars
  <2>1. UNCHANGED <<phase, m_fibers, cb_fiber, cur, fstate, events, ctx, sleepers, forgotten>>
    BY <1>17 DEF vars
  <2>2. OnceIn(m_fibers)' /\ InQueue' = InQueue /\ OnceInEvents' /\ Waiting' = Waiting
    BY <1>0, <2>1 DEF OnceIn, InQueue, Queued, OnceInEvents, Waiting
  <2> QED BY <2>1, <2>2, NobodyMoves
<1> QED
  BY <1>1, <1>2, <1>3, <1>4, <1>5, <1>6, <1>7, <1>8, <1>9, <1>10, <1>11, <1>12,
     <1>13, <1>14, <1>15, <1>16, <1>17 DEF Next, User, Loop

\* No fibre is resumed twice and none is forgotten but by delEvent: in every
\* reachable state a suspended fibre whose event delEvent has not taken stands in
\* exactly one of the queue, the registered events, the sleep timers and the
\* sleep callback that runs, and there exactly once; a fibre that runs or has
\* ended stands in none (iomanager.cpp triggerEvent, cancelEvent, delEvent,
\* cancelAll, idle; hook.cpp sleep; scheduler.cpp run).
THEOREM ResumedOnceHolds == Spec => []ResumedOnce
<1>1. ASSUME Init PROVE PlaceInv
  <2>1. /\ m_fibers = <<>> /\ events = {} /\ sleepers = {} /\ cur = NoItem /\ forgotten = {}
        /\ phase = "main" /\ cb_fiber = None /\ \A f \in Fibers : fstate[f] = "TERM"
    BY <1>1 DEF Init
  <2>2. OnceIn(m_fibers) /\ OnceInEvents
    BY <2>1 DEF OnceIn, OnceInEvents
  <2>3. InQueue = {} /\ Waiting = {} /\ Waking = {} /\ Held = {}
    BY <2>1, ItemKinds DEF InQueue, Queued, Waiting, Waking, Held
  <2> QED BY <2>1, <2>2, <2>3 DEF PlaceInv, Apart, Places, Spare
<1>2. ASSUME ControlInv, PlaceInv PROVE ResumedOnce
  <2> SUFFICES ASSUME NEW f \in Fibers
               PROVE  Resumers(f) = IF /\ fstate[f] \in {"HOLD", "READY"}
                                      /\ f \notin forgotten
                                   THEN 1 ELSE 0
    BY DEF ResumedOnce
  <2> DEFINE Q == {i \in DOMAIN m_fibers : m_fibers[i].fiber = f}
             E == {p \in events : ctx[p].fiber = f}
  <2>1. Cardinality(Q) = IF f \in InQueue THEN 1 ELSE 0
    <3>1. CASE f \in InQueue
      <4>1. PICK i \in DOMAIN m_fibers : m_fibers[i].fiber = f
        BY <3>1 DEF InQueue, Queued
      <4>2. Q = {i}
        BY <1>2, <4>1 DEF PlaceInv, OnceIn
      <4> QED BY <3>1, <4>2, FS_Singleton
    <3>2. CASE f \notin InQueue
      <4>1. Q = {}
        BY <3>2 DEF InQueue, Queued
      <4> QED BY <3>2, <4>1, FS_EmptySet
    <3> QED BY <3>1, <3>2
  <2>2. Cardinality(E) = IF f \in Waiting THEN 1 ELSE 0
    <3>1. CASE f \in Waiting
      <4>1. PICK p \in events : ctx[p].fiber = f
        BY <3>1 DEF Waiting
      <4>2. E = {p}
        BY <1>2, <4>1 DEF PlaceInv, OnceInEvents
      <4> QED BY <3>1, <4>2, FS_Singleton
    <3>2. CASE f \notin Waiting
      <4>1. E = {}
        BY <3>2 DEF Waiting
      <4> QED BY <3>2, <4>1, FS_EmptySet
    <3> QED BY <3>1, <3>2
  <2>3. cur = WakeItem(f) <=> f \in Waking
    BY DEF Waking
  <2>4. fstate[f] \in {"HOLD", "READY"} <=> f \in Places
    BY <1>2 DEF PlaceInv, Held
  <2>5. Resumers(f) = Cardinality(Q) + Cardinality(E)
                        + (IF f \in sleepers THEN 1 ELSE 0)
                        + (IF cur = WakeItem(f) THEN 1 ELSE 0)
    BY DEF Resumers
  <2> HIDE DEF Q, E
  <2> QED BY <1>2, <2>1, <2>2, <2>3, <2>4, <2>5 DEF PlaceInv, Apart, Places
<1> QED BY <1>1, <1>2, Invariant, PlaceInductive, PTL DEF Spec
=============================================================================
