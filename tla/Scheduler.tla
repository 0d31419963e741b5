----------------------------- MODULE Scheduler ------------------------------
(***************************************************************************)
(* fatdog/scheduler.cpp with several worker threads (scene 1 of            *)
(* scheduler.h: use_caller = false), and the part of fatdog/fiber.cpp they *)
(* share.  No mutex protects m_fibers, Fiber::m_state or the context of a  *)
(* fibre, so a step here is one access to that shared state: copying an    *)
(* entry of m_fibers, erasing it, counting, reading a state, writing one,  *)
(* saving a context.                                                       *)
(*                                                                         *)
(* One operation of std::list is one step.  Overlapping list operations    *)
(* are undefined behaviour; of its outcomes the model has the mild ones:   *)
(* an intact list and, for an entry erased twice, the end of the process   *)
(* or a task that runs twice.  What goes wrong here goes wrong in the      *)
(* code; what holds here holds in the code as long as the list survives.   *)
(*                                                                         *)
(* A failed FATDOG_ASSERT ends the process: halt then names its line.      *)
(***************************************************************************)
EXTENDS Integers, Sequences, FiniteSets, SequencesExt

CONSTANTS
  Threads,   \* the worker threads
  Fibers,    \* the Fiber objects
  None,      \* nullptr, and the thread -1
  Ops,       \* what tasks do: "schedule", "yield" and "handover"
  Pins,      \* the second argument of schedule(): a thread, or None
  MaxTasks   \* bound: user code schedules or yields while fewer entries exist

ASSUME SchedulerAssumption ==
  /\ IsFiniteSet(Threads) /\ Threads # {}
  /\ None \notin Threads /\ None \notin Fibers
  /\ Pins \subseteq Threads \cup {None}
  /\ MaxTasks \in Nat

VARIABLES
  m_fibers,             \* entries in the order of the list
  m_stopping, m_activeThreadCount,
  created,              \* entries created so far: a number names an entry
  joined,               \* stop() has joined every thread
  \* run(), per thread
  pc, ft,
  cb_fiber,
  cur,                  \* the fibre swapped in, or about to be
  idleDone,             \* threads whose idle fibre is TERM
  \* Fiber
  m_state,
  saved,                \* fibres whose context is saved: nobody is on their stack
  done,                 \* fibres whose function has returned since their last reset()
  halt,                 \* "no", or what ended the process
  early                 \* history: a fibre was taken twice, or too early

vars == <<m_fibers, m_stopping, m_activeThreadCount, created, joined, pc, ft,
          cb_fiber, cur, idleDone, m_state, saved, done, halt, early>>

NoEntry == [id |-> 0, fiber |-> None, thread |-> None]
Entries == [id : Nat, fiber : Fibers \cup {None},
            thread : Threads \cup {None}]

Places == {"scan", "erase", "count", "dispatch", "swapin", "exec", "handed",
           "leave", "back", "check", "settle", "hold", "idle", "idle2", "ended"}

-----------------------------------------------------------------------------
\* Mutated forms of the definitions below, one plausible slip each.
MutMayEnd == m_fibers = <<>>
MutActiveAfter == m_activeThreadCount
MutActiveTwice == m_activeThreadCount - 2
MutReady(f) == m_state[f] \in {"READY", "HOLD"}

-----------------------------------------------------------------------------
\* schedule(): push_back of a fibre (or of a callback, f = None).
Schedule(f, th) ==
  /\ created' = created + 1
  /\ m_fibers' = Append(m_fibers, [id |-> created + 1, fiber |-> f, thread |-> th])

\* run(): thread t may take the entry e.
Takes(t, e) ==
  /\ e.thread \in {None, t}
  /\ e.fiber \notin {f \in Fibers : m_state[f] = "EXEC"}

\* Scheduler::stopping(), but for m_activeThreadCount.
MayEnd == m_stopping /\ m_fibers = <<>>

\* --m_activeThreadCount.
ActiveAfter == m_activeThreadCount - 1

\* Fiber::reset() accepts a fibre in state st.
Reusable(st) == st \in {"INIT", "TERM", "EXCEPT"}

\* run(): the fibre f that swapped out wants to run again.
Ready(f) == m_state[f] = "READY"

At(t, place) == halt = "no" /\ pc[t] = place
Go(t, place) == pc' = [pc EXCEPT ![t] = place]
Set(f, st) == m_state' = [m_state EXCEPT ![f] = st]

\* The fibre f is referred to by an entry or by a thread other than t.
Held(f, t) ==
  \/ \E i \in DOMAIN m_fibers : m_fibers[i].fiber = f
  \/ \E s \in Threads \ {t} : f \in {ft[s].fiber, cb_fiber[s], cur[s]}

\* t runs a callback: run() is in its cb branch.
OnCb(t) == ft[t].fiber = None

-----------------------------------------------------------------------------
Init ==
  /\ m_fibers = <<>> /\ m_stopping = FALSE /\ m_activeThreadCount = 0
  /\ created = 0 /\ joined = FALSE
  /\ pc = [t \in Threads |-> "scan"]
  /\ ft = [t \in Threads |-> NoEntry]
  /\ cb_fiber = [t \in Threads |-> None]
  /\ cur = [t \in Threads |-> None]
  /\ idleDone = {}
  /\ m_state = [f \in Fibers |-> "TERM"]
  /\ saved = Fibers
  /\ done = {}
  /\ halt = "no"
  /\ early = FALSE

\* The thread that owns the scheduler schedules callbacks before it calls
\* stop(), which waits for the workers.
MainSchedule(th) ==
  /\ halt = "no" /\ ~m_stopping /\ created < MaxTasks
  /\ Schedule(None, th)
  /\ UNCHANGED <<m_stopping, m_activeThreadCount, joined, pc, ft, cb_fiber, cur,
                 idleDone, m_state, saved, done, halt, early>>

Stop ==
  /\ halt = "no" /\ ~m_stopping
  /\ m_stopping' = TRUE
  /\ UNCHANGED <<m_fibers, m_activeThreadCount, created, joined, pc, ft, cb_fiber,
                 cur, idleDone, m_state, saved, done, halt, early>>

Join ==
  /\ halt = "no" /\ m_stopping /\ ~joined
  /\ \A t \in Threads : pc[t] = "ended"
  /\ joined' = TRUE
  /\ UNCHANGED <<m_fibers, m_stopping, m_activeThreadCount, created, pc, ft,
                 cb_fiber, cur, idleDone, m_state, saved, done, halt, early>>

-----------------------------------------------------------------------------
\* run(): ft = *it for the first entry t may take; without one run() ends if
\* the idle fibre has ended and swaps it in if not.
Scan(t) ==
  /\ At(t, "scan")
  /\ \/ \E i \in DOMAIN m_fibers :
          /\ Takes(t, m_fibers[i])
          /\ \A j \in 1 .. i - 1 : ~Takes(t, m_fibers[j])
          /\ ft' = [ft EXCEPT ![t] = m_fibers[i]]
          /\ Go(t, "erase")
     \/ /\ \A i \in DOMAIN m_fibers : ~Takes(t, m_fibers[i])
        /\ ft' = [ft EXCEPT ![t] = NoEntry]
        /\ Go(t, IF t \in idleDone THEN "ended" ELSE "idle")
  /\ UNCHANGED <<m_fibers, m_stopping, m_activeThreadCount, created, joined,
                 cb_fiber, cur, idleDone, m_state, saved, done, halt, early>>

\* The entry of t is taken: a fibre whose entry another thread has taken as well, or
\* that another thread has not let go of.
TakenEarly(t, gone) ==
  LET f == ft[t].fiber IN
  f # None /\ (gone \/ \E s \in Threads \ {t} : cur[s] = f)

\* m_fibers.erase(it): it may be gone, and the thread goes on with its copy if it
\* survives that.
Erase(t) ==
  /\ At(t, "erase")
  /\ \/ \E i \in DOMAIN m_fibers :
          /\ m_fibers[i] = ft[t]
          /\ m_fibers' = RemoveAt(m_fibers, i)
          /\ Go(t, "count")
          /\ early' = (early \/ TakenEarly(t, FALSE))
          /\ UNCHANGED halt
     \/ /\ \A i \in DOMAIN m_fibers : m_fibers[i] # ft[t]
        /\ \/ halt' = "scheduler.cpp:180" /\ UNCHANGED <<pc, early>>
           \/ Go(t, "count") /\ early' = (early \/ TakenEarly(t, TRUE)) /\ UNCHANGED halt
        /\ UNCHANGED m_fibers
  /\ UNCHANGED <<m_stopping, m_activeThreadCount, created, joined, ft, cb_fiber,
                 cur, idleDone, m_state, saved, done>>

Count(t) ==
  /\ At(t, "count")
  /\ m_activeThreadCount' = m_activeThreadCount + 1
  /\ Go(t, "dispatch")
  /\ UNCHANGED <<m_fibers, m_stopping, created, joined, ft, cb_fiber, cur, idleDone,
                 m_state, saved, done, halt, early>>

\* run(): a fibre that has not ended is swapped in; one that has is dropped.
DispatchFiber(t) ==
  /\ At(t, "dispatch") /\ ~OnCb(t)
  /\ IF m_state[ft[t].fiber] \in {"TERM", "EXCEPT"}
     THEN /\ m_activeThreadCount' = ActiveAfter
          /\ ft' = [ft EXCEPT ![t] = NoEntry]
          /\ Go(t, "scan")
          /\ UNCHANGED cur
     ELSE /\ cur' = [cur EXCEPT ![t] = ft[t].fiber]
          /\ Go(t, "swapin")
          /\ UNCHANGED <<m_activeThreadCount, ft>>
  /\ UNCHANGED <<m_fibers, m_stopping, created, joined, cb_fiber, idleDone,
                 m_state, saved, done, halt, early>>

\* Fiber objects nobody refers to: new Fiber may return any of them.
Free(f, t) ==
  /\ ~Held(f, t) /\ f \notin {cb_fiber[t], cur[t]}
  /\ m_state[f] \in {"INIT", "TERM", "EXCEPT"}

\* run(): a callback gets the thread's cb_fiber, reset, or a new fibre f.
DispatchCb(t, f) ==
  /\ At(t, "dispatch") /\ OnCb(t)
  /\ IF cb_fiber[t] = None THEN Free(f, t) ELSE f = cb_fiber[t]
  /\ IF cb_fiber[t] = None \/ Reusable(m_state[f])
     THEN /\ Set(f, "INIT")
          /\ saved' = saved \cup {f}
          /\ done' = done \ {f}
          /\ cb_fiber' = [cb_fiber EXCEPT ![t] = f]
          /\ cur' = [cur EXCEPT ![t] = f]
          /\ Go(t, "swapin")
          /\ UNCHANGED halt
     ELSE /\ halt' = "fiber.cpp:160"
          /\ UNCHANGED <<m_state, saved, done, cb_fiber, cur, pc>>
  /\ UNCHANGED <<m_fibers, m_stopping, m_activeThreadCount, created, joined, ft,
                 idleDone, early>>

\* Fiber::swapIn(): the assertion, the state and the switch to the context,
\* which is garbage while another thread is still on the stack; the context of a
\* fibre that has ended leads behind the last swapOut() of MainFunc.
SwapIn(t) ==
  LET f == cur[t] IN
  /\ At(t, "swapin")
  /\ IF m_state[f] = "EXEC"
     THEN halt' = "fiber.cpp:137" /\ UNCHANGED <<m_state, saved, pc>>
     ELSE /\ Set(f, "EXEC")
          /\ saved' = saved \ {f}
          /\ Go(t, "exec")
          /\ halt' = IF f \notin saved THEN "stack"
                     ELSE IF f \in done THEN "fiber.cpp:248" ELSE halt
  /\ UNCHANGED <<m_fibers, m_stopping, m_activeThreadCount, created, joined, ft,
                 cb_fiber, cur, idleDone, done, early>>

-----------------------------------------------------------------------------
\* The task on t schedules a callback.
TaskSchedule(t, th) ==
  /\ At(t, "exec") /\ "schedule" \in Ops /\ created < MaxTasks
  /\ Schedule(None, th)
  /\ UNCHANGED <<m_stopping, m_activeThreadCount, joined, pc, ft, cb_fiber, cur,
                 idleDone, m_state, saved, done, halt, early>>

\* The task on t schedules its own fibre and will call YieldToHold(): the
\* shape of every wait, where the one who resumes it may be faster.
HandOver(t, th) ==
  /\ At(t, "exec") /\ "handover" \in Ops /\ created < MaxTasks
  /\ Schedule(cur[t], th)
  /\ Go(t, "handed")
  /\ UNCHANGED <<m_stopping, m_activeThreadCount, joined, ft, cb_fiber, cur,
                 idleDone, m_state, saved, done, halt, early>>

\* YieldToHold() and YieldToReady() up to swapOut().
Yield(t, from, st, line) ==
  /\ At(t, from)
  /\ IF m_state[cur[t]] = "EXEC"
     THEN Set(cur[t], st) /\ Go(t, "leave") /\ UNCHANGED halt
     ELSE halt' = line /\ UNCHANGED <<m_state, pc>>
  /\ UNCHANGED <<m_fibers, m_stopping, m_activeThreadCount, created, joined, ft,
                 cb_fiber, cur, idleDone, saved, done, early>>

YieldToHold(t) == Yield(t, "handed", "HOLD", "fiber.cpp:205")
YieldToReady(t) ==
  /\ "yield" \in Ops /\ created < MaxTasks
  /\ Yield(t, "exec", "READY", "fiber.cpp:197")

\* MainFunc: the callback returns or throws.
Finish(t, st) ==
  /\ At(t, "exec")
  /\ Set(cur[t], st)
  /\ done' = done \cup {cur[t]}
  /\ Go(t, "leave")
  /\ UNCHANGED <<m_fibers, m_stopping, m_activeThreadCount, created, joined, ft,
                 cb_fiber, cur, idleDone, saved, halt, early>>

\* swapOut(): the context is saved and the thread is back in run().
SwapOut(t) ==
  /\ At(t, "leave")
  /\ saved' = saved \cup {cur[t]}
  /\ Go(t, "back")
  /\ UNCHANGED <<m_fibers, m_stopping, m_activeThreadCount, created, joined, ft,
                 cb_fiber, cur, idleDone, m_state, done, halt, early>>

\* run() behind swapIn().
Back(t) ==
  /\ At(t, "back")
  /\ m_activeThreadCount' = ActiveAfter
  /\ Go(t, "check")
  /\ UNCHANGED <<m_fibers, m_stopping, created, joined, ft, cb_fiber, cur, idleDone,
                 m_state, saved, done, halt, early>>

\* Mutated form: a cb_fiber that is kept when it was scheduled again.
MutLetGo(t, keepCb) ==
  /\ ft' = [ft EXCEPT ![t] = NoEntry]
  /\ cur' = [cur EXCEPT ![t] = None]
  /\ cb_fiber' = cb_fiber

\* run() lets go of the fibre it ran; keepCb if it stays the thread's cb_fiber.
LetGo(t, keepCb) ==
  /\ ft' = [ft EXCEPT ![t] = NoEntry]
  /\ cur' = [cur EXCEPT ![t] = None]
  /\ cb_fiber' = IF OnCb(t) /\ ~keepCb THEN [cb_fiber EXCEPT ![t] = None] ELSE cb_fiber

\* run(): a fibre that is READY is scheduled again.
Check(t) ==
  /\ At(t, "check")
  /\ IF Ready(cur[t])
     THEN Schedule(cur[t], None) /\ LetGo(t, FALSE) /\ Go(t, "scan")
     ELSE Go(t, "settle") /\ UNCHANGED <<m_fibers, created, ft, cur, cb_fiber>>
  /\ UNCHANGED <<m_stopping, m_activeThreadCount, joined, idleDone, m_state, saved,
                 done, halt, early>>

\* run(): an ended fibre is done with; a callback's fibre is reset for reuse.
Settle(t) ==
  LET f == cur[t] IN
  /\ At(t, "settle")
  /\ IF m_state[f] \in {"TERM", "EXCEPT"}
     THEN /\ IF OnCb(t) THEN Set(f, "INIT") /\ done' = done \ {f}
                     ELSE UNCHANGED <<m_state, done>>
          /\ LetGo(t, TRUE)
          /\ Go(t, "scan")
     ELSE Go(t, "hold") /\ UNCHANGED <<m_state, done, ft, cur, cb_fiber>>
  /\ UNCHANGED <<m_fibers, m_stopping, m_activeThreadCount, created, joined,
                 idleDone, saved, halt, early>>

\* run(): setState(HOLD), whatever the state has become; ~Fiber() if t was the
\* last to refer to a fibre that has ended.  A suspended one refers to itself: the
\* cur of MainFunc is on its stack.
SetHold(t) ==
  LET f == cur[t] IN
  /\ At(t, "hold")
  /\ Set(f, "HOLD")
  /\ LetGo(t, FALSE)
  /\ Go(t, "scan")
  /\ halt' = IF Held(f, t) \/ f \notin done THEN halt ELSE "fiber.cpp:83"
  /\ UNCHANGED <<m_fibers, m_stopping, m_activeThreadCount, created, joined,
                 idleDone, saved, done, early>>

\* idle(): stopping() reads m_stopping and m_fibers, then the counter; idle()
\* yields to run() or ends.
Idle(t) ==
  /\ At(t, "idle")
  /\ Go(t, IF MayEnd THEN "idle2" ELSE "scan")
  /\ UNCHANGED <<m_fibers, m_stopping, m_activeThreadCount, created, joined, ft,
                 cb_fiber, cur, idleDone, m_state, saved, done, halt, early>>

IdleEnds(t) ==
  /\ At(t, "idle2")
  /\ idleDone' = IF m_activeThreadCount = 0 THEN idleDone \cup {t} ELSE idleDone
  /\ Go(t, "scan")
  /\ UNCHANGED <<m_fibers, m_stopping, m_activeThreadCount, created, joined, ft,
                 cb_fiber, cur, m_state, saved, done, halt, early>>

-----------------------------------------------------------------------------
\* What thread t does by itself.
Run(t) ==
  \/ Scan(t)
  \/ Erase(t)
  \/ Count(t)
  \/ DispatchFiber(t)
  \/ \E f \in Fibers : DispatchCb(t, f)
  \/ SwapIn(t)
  \/ YieldToHold(t)
  \/ \E st \in {"TERM", "EXCEPT"} : Finish(t, st)
  \/ SwapOut(t)
  \/ Back(t)
  \/ Check(t)
  \/ Settle(t)
  \/ SetHold(t)
  \/ Idle(t)
  \/ IdleEnds(t)

Next ==
  \/ \E th \in Pins : MainSchedule(th)
  \/ Stop
  \/ Join
  \/ \E t \in Threads, th \in Pins : TaskSchedule(t, th) \/ HandOver(t, th)
  \/ \E t \in Threads : YieldToReady(t) \/ Run(t)

Spec == Init /\ [][Next]_vars

\* Every thread is scheduled by the kernel, a task that does nothing else
\* returns, stop() is called and joins.
FairSpec ==
  /\ Spec
  /\ \A t \in Threads : WF_vars(Run(t))
  /\ WF_vars(Stop)
  /\ WF_vars(Join)

-----------------------------------------------------------------------------
TypeOK ==
  /\ m_fibers \in Seq(Entries)
  /\ m_stopping \in BOOLEAN
  /\ m_activeThreadCount \in 0 .. Cardinality(Threads)
  /\ created \in Nat
  /\ joined \in BOOLEAN
  /\ pc \in [Threads -> Places]
  /\ ft \in [Threads -> Entries \cup {NoEntry}]
  /\ cb_fiber \in [Threads -> Fibers \cup {None}]
  /\ cur \in [Threads -> Fibers \cup {None}]
  /\ idleDone \subseteq Threads
  /\ m_state \in [Fibers -> {"INIT", "HOLD", "EXEC", "TERM", "READY", "EXCEPT"}]
  /\ saved \subseteq Fibers
  /\ done \subseteq Fibers
  /\ halt \in {"no", "scheduler.cpp:180", "fiber.cpp:83", "fiber.cpp:137",
               "fiber.cpp:160", "fiber.cpp:197", "fiber.cpp:205", "fiber.cpp:248",
               "stack"}
  /\ early \in BOOLEAN

\* When stop() has joined the workers, no thread holds a task and no entry that
\* any thread may take is left in m_fibers, although a worker may leave while
\* another one is between taking a task and counting itself active: whoever
\* schedules comes back to look.
JoinedMeansDone ==
  joined =>
    /\ \A t \in Threads : cur[t] = None
    /\ \A i \in DOMAIN m_fibers : m_fibers[i].thread # None

\* On the stack of a fibre there is at most one thread, and nobody is sent to a
\* context that is not saved yet (fiber.cpp swapIn, swapOut), tasks that hand their own
\* fibre over before they yield included, as long as no worker takes a fibre twice
\* (scheduler.cpp:179-180) or before the thread that ran it has let go of it: those
\* two races are the only ways to get there.
OneStack ==
  ~early =>
    /\ \A s, t \in Threads :
         s # t /\ {pc[s], pc[t]} \subseteq {"exec", "handed", "leave"}
           => cur[s] # cur[t]
    /\ halt # "stack"

\* As long as neither race happens, no assertion of fiber.cpp about the state of a
\* fibre fails, although m_state is read and written without a lock.
FiberAssertsHold ==
  ~early => halt \notin {"fiber.cpp:83", "fiber.cpp:137", "fiber.cpp:160", "fiber.cpp:197",
                         "fiber.cpp:205", "fiber.cpp:248"}

\* FATDOG_ASSERT(cur->m_state == EXEC) of YieldToReady() and YieldToHold() (fiber.cpp:197
\* and 205): the fibre that runs is EXEC.
YieldAsserted == halt \notin {"fiber.cpp:197", "fiber.cpp:205"}

\* stop() returns: once it was called, every worker ends and is joined, unless the
\* process ended or an entry is left for a thread that has already ended.
StopJoins ==
  m_stopping ~> \/ joined
                \/ halt # "no"
                \/ \E i \in DOMAIN m_fibers, t \in Threads :
                     m_fibers[i].thread = t /\ pc[t] = "ended"
=============================================================================
