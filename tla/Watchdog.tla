------------------------------ MODULE Watchdog ------------------------------
(***************************************************************************)
(* The deadline watchdog of luaext_watchdog.c, with the calls its one      *)
(* client, luaext_timers.c, makes on it: the slot pool, the deadline heap, *)
(* the lazily started thread, the owners that arm, pause, resume and       *)
(* disarm their slots, and the module's startup and shutdown.              *)
(*                                                                         *)
(* Grain: every critical section under a slot's lock is one step, every    *)
(* critical section under the watchdog's lock is one step, and time may    *)
(* pass, or the watchdog thread run, between any two of them.  An owner    *)
(* that stamped an entry publishes it in a later step, because the code    *)
(* drops the slot's lock before it takes the watchdog's.                   *)
(***************************************************************************)
EXTENDS WatchSlot, FiniteSets

CONSTANTS
  Slots,          \* the slots the pool's blocks hold
  NoSlot,         \* sandbox->slot == NULL
  NoEntry,        \* no entry waits to be published
  Limits,         \* the budgets setLimits() is called with, 0 for "none"
  CoarseLimits,   \* those luaext_watchdog_cpu_is_degraded() says yes to
  HookArmed,      \* luaext.hook_count > 0
  ThreadMayFail,  \* luaext_thread_start() may be refused
  CaptureMayFail, \* luaext_clock_capture_self() may be refused
  ClockMayFail,   \* reading an owner's CPU clock may start to fail
  HeapMayFail,    \* growing the heap may run out of memory
  MaxTime,        \* bound: the monotonic clock stops here
  MaxOps,         \* bound: API calls each owner makes
  MaxStartups     \* bound: module lifetimes in one process

ASSUME WatchdogAssumption ==
  /\ NoSlot \notin Slots
  /\ Limits \subseteq Nat /\ 0 \in Limits
  /\ CoarseLimits \subseteq Limits \ {0}
  /\ {HookArmed, ThreadMayFail, CaptureMayFail, ClockMayFail, HeapMayFail}
       \subseteq BOOLEAN
  /\ MaxTime \in Nat /\ MaxOps \in Nat /\ MaxStartups \in Nat

VARIABLES
  slots,    \* the records of the pool
  free,     \* the free list of the pool
  irq,      \* the reason each sandbox's raised flag carries, or "none"
  own,      \* where each owner thread is in luaext_timers.c
  heap,     \* the deadline heap, as the set of its entries
  thread,   \* the watchdog thread
  module,   \* the process-wide flags of luaext_watch
  now,      \* the monotonic clock
  cpu,      \* each owner thread's CPU clock
  readable, \* whether that clock answers
  ledger    \* auxiliary: the time each sandbox really owes

vars == <<slots, free, irq, own, heap, thread, module, now, cpu, readable, ledger>>
clocks == <<now, cpu, readable, ledger>>

Entry == [slot : Slots, generation : Nat, epoch : Nat, deadline : Nat]
ASSUME NoEntryAssumption == NoEntry \notin Entry

\* "none": the sandbox has no slot.  "out": it has one and no Lua runs.  "in":
\* a call runs.  The others are the points between two critical sections.
Steps == {"none", "out", "in", "prime", "write", "republish", "publish",
          "checked", "disarmed"}

Idle == [slot |-> NoSlot, step |-> "none", back |-> "out", entry |-> NoEntry,
         budget |-> "cpu", ns |-> 0, hook |-> FALSE, ops |-> 0]

Fresh == [cpu |-> 0, wall |-> 0, clean |-> TRUE]

Flag == Reasons \cup {"abort"}

Place == [slot : Slots \cup {NoSlot}, step : Steps, back : {"out", "in"},
          entry : Entry \cup {NoEntry}, budget : Segments, ns : Limits,
          hook : BOOLEAN, ops : Nat]

Watcher == [pc : {"off", "check", "wait", "exited"},
            wakeAt : Nat, signalled : BOOLEAN]

ModuleState ==
  [phase : {"up", "stopping", "joined", "down"}, once : BOOLEAN,
   running : BOOLEAN, failed : BOOLEAN, stop : BOOLEAN, startups : Nat]

TypeOK ==
  /\ slots \in [Slots -> Slot]
  /\ free \subseteq Slots
  /\ irq \in [Owners -> Flag]
  /\ own \in [Owners -> Place]
  /\ heap \subseteq Entry
  /\ thread \in Watcher
  /\ module \in ModuleState
  /\ now \in Nat
  /\ cpu \in [Owners -> Nat]
  /\ readable \in [Owners -> BOOLEAN]
  /\ ledger \in [Owners -> [cpu : Nat, wall : Nat, clean : BOOLEAN]]

Init ==
  /\ slots = [s \in Slots |-> BlankSlot]
  /\ free = Slots
  /\ irq = [o \in Owners |-> "none"]
  /\ own = [o \in Owners |-> Idle]
  /\ heap = {}
  /\ thread = [pc |-> "off", wakeAt |-> 0, signalled |-> FALSE]
  /\ module = [phase |-> "up", once |-> FALSE, running |-> FALSE,
               failed |-> FALSE, stop |-> FALSE, startups |-> 1]
  /\ now = 0
  /\ cpu = [o \in Owners |-> 0]
  /\ readable = [o \in Owners |-> TRUE]
  /\ ledger = [o \in Owners |-> Fresh]

-----------------------------------------------------------------------------
(* Reading the state                                                       *)

\* What the clocks say of the thread that holds interrupt flag `p`.
ClockOf(p) ==
  IF p \in Owners
  THEN [wall |-> now, cpu |-> cpu[p], readable |-> readable[p]]
  ELSE [wall |-> now, cpu |-> 0, readable |-> FALSE]

SlotOf(o) == slots[own[o].slot]

At(o, step) == own[o].step = step
Calling(o)  == own[o].ops < MaxOps

\* The entry a stamped record would be published with.
EntryFor(s, r) ==
  [slot |-> s, generation |-> r.generation, epoch |-> r.epoch,
   deadline |-> r.queuedDeadline]

\* An entry that still speaks for its slot.
Live(e) ==
  /\ slots[e.slot].generation = e.generation
  /\ slots[e.slot].epoch = e.epoch

Raise(p, reason) ==
  IF reason = "none" THEN irq ELSE [irq EXCEPT ![p] = reason]

\* luaext_watch_heap_push: an allocation failure drops the entry.
Push(h, e) ==
  \/ heap' = h \cup {e}
  \/ HeapMayFail /\ heap' = h

\* Mutant: the condition variable is never signalled.
NotSignalled == thread

\* luaext_cond_signal: it only reaches a thread that is waiting.
Signalled == [thread EXCEPT !.signalled = @ \/ thread.pc = "wait"]

-----------------------------------------------------------------------------
(* Owners: the life of a slot                                              *)

\* luaext_timers_attach: the flag is cleared and a slot taken from the pool.
\* With the pool dry the sandbox goes without one, and can have no limits.
Acquire(o) ==
  /\ module.phase = "up"
  /\ At(o, "none") /\ Calling(o)
  /\ \E s \in free, captured \in {TRUE, ~CaptureMayFail} :
       /\ slots' = [slots EXCEPT ![s] = Acquired(@, o, captured)]
       /\ free' = free \ {s}
       /\ own' = [own EXCEPT ![o] = [Idle EXCEPT !.slot = s, !.step = "out",
                                                 !.ops = own[o].ops + 1]]
       /\ ledger' = [ledger EXCEPT ![o] =
                       [Fresh EXCEPT !.clean = captured /\ readable[o]]]
  /\ irq' = [irq EXCEPT ![o] = "none"]
  /\ UNCHANGED <<heap, thread, module, now, cpu, readable>>

\* luaext_timers_detach: the flag is left raised for lua_close()'s finalisers.
Release(o) ==
  /\ At(o, "out")
  /\ slots' = [slots EXCEPT ![own[o].slot] = Released(@)]
  /\ free' = free \cup {own[o].slot}
  /\ own' = [own EXCEPT ![o] = [Idle EXCEPT !.ops = own[o].ops]]
  /\ ledger' = [ledger EXCEPT ![o] = Fresh]
  /\ irq' = [irq EXCEPT ![o] = "abort"]
  /\ UNCHANGED <<heap, thread, module, now, cpu, readable>>

-----------------------------------------------------------------------------
(* Owners: setting a limit, before a call or from a callback inside one    *)

SetLimit(o) ==
  /\ At(o, "out") \/ At(o, "in")
  /\ Calling(o)
  /\ \E budget \in Segments, ns \in Limits :
       own' = [own EXCEPT ![o].step = IF ns = 0 THEN "write" ELSE "prime",
                          ![o].back = own[o].step, ![o].ops = @ + 1,
                          ![o].budget = budget, ![o].ns = ns]
  /\ UNCHANGED <<slots, free, irq, heap, thread, module, clocks>>

\* The setter is over: owner record w goes back to where it was called.
BackFrom(w) == [w EXCEPT !.step = w.back, !.back = "out",
                         !.budget = "cpu", !.ns = 0]

\* Mutant: whether the hook is needed is asked before the thread was tried.
PrimeAfterDeciding(o) ==
  /\ At(o, "prime")
  /\ \E started \in IF module.once THEN {module.running}
                    ELSE {TRUE, ~ThreadMayFail} :
       /\ module' = [module EXCEPT !.once = TRUE, !.running = started,
                                   !.failed = ~started]
       /\ thread' = IF started /\ ~module.once
                    THEN [thread EXCEPT !.pc = "check"] ELSE thread
       /\ own' = [own EXCEPT ![o].hook = @ \/ (HookArmed /\ module.failed),
                             ![o].step = "write"]
  /\ UNCHANGED <<slots, free, irq, heap, clocks>>

\* luaext_watchdog_prime, then the fallback decision: the once-flag lets the
\* first caller try to start the thread, and nobody tries again.  A limit
\* nothing could enforce is refused.
Prime(o) ==
  /\ At(o, "prime")
  /\ \E started \in IF module.once THEN {module.running}
                    ELSE {TRUE, ~ThreadMayFail} :
       /\ module' = [module EXCEPT !.once = TRUE, !.running = started,
                                   !.failed = ~started]
       /\ thread' = IF started /\ ~module.once
                    THEN [thread EXCEPT !.pc = "check"] ELSE thread
       /\ own' = [own EXCEPT ![o] =
            IF started \/ HookArmed
            THEN [own[o] EXCEPT !.hook = @ \/ ~started, !.step = "write"]
            ELSE BackFrom(own[o])]
  /\ UNCHANGED <<slots, free, irq, heap, clocks>>

\* luaext_watchdog_set_cpu_limit and luaext_watchdog_set_wall_limit.
WriteLimit(o) ==
  /\ At(o, "write")
  /\ LET ns == own[o].ns
         r  == IF own[o].budget = "cpu"
               THEN WithCpuLimit(SlotOf(o), ns, ns \in CoarseLimits)
               ELSE WithWallLimit(SlotOf(o), ns)
     IN  /\ slots' = [slots EXCEPT ![own[o].slot] = r]
         /\ own' = [own EXCEPT ![o] =
              IF r.hasLimits
              THEN [own[o] EXCEPT !.step = "republish", !.budget = "cpu", !.ns = 0]
              ELSE BackFrom(own[o])]
  /\ UNCHANGED <<free, irq, heap, thread, module, clocks>>

\* Owner o leaves a critical section with its slot at r: when limits apply it
\* evaluates them there, and stamps an entry if the heap does not cover them.
\* It goes on at `back`; `cost` is 1 where this is an API call of its own.
Settle(o, r, back, cost) ==
  LET c == ClockOf(o)
      publish == r.hasLimits /\ NeedsEntry(r, c)
      left == IF publish THEN Stamped(r, Deadline(r, c)) ELSE r
  IN  /\ irq' = Raise(o, IF r.hasLimits THEN Verdict(r, c) ELSE "none")
      /\ slots' = [slots EXCEPT ![own[o].slot] = left]
      /\ own' = [own EXCEPT ![o].step = IF publish THEN "publish" ELSE back,
                            ![o].back = IF publish THEN back ELSE "out",
                            ![o].ops = @ + cost,
                            ![o].entry = IF publish
                                         THEN EntryFor(own[o].slot, left) ELSE @]

\* luaext_watchdog_republish
Republish(o) ==
  /\ At(o, "republish")
  /\ Settle(o, SlotOf(o), own[o].back, 0)
  /\ UNCHANGED <<free, heap, thread, module, clocks>>

\* luaext_watch_publish
Publish(o) ==
  /\ At(o, "publish")
  /\ IF module.running THEN Push(heap, own[o].entry) /\ thread' = Signalled
                       ELSE UNCHANGED <<heap, thread>>
  /\ own' = [own EXCEPT ![o].step = own[o].back, ![o].back = "out",
                        ![o].entry = NoEntry]
  /\ UNCHANGED <<slots, free, irq, module, clocks>>

-----------------------------------------------------------------------------
(* Owners: one outermost call into the interpreter                         *)

\* luaext_watchdog_arm.  Its luaext_watch_ensure_thread finds the once-flag
\* run already: no limit is written before Prime.
Arm(o) ==
  /\ At(o, "out") /\ Calling(o)
  /\ Settle(o, Armed(SlotOf(o), ClockOf(o)), "in", 1)
  /\ UNCHANGED <<free, heap, thread, module, clocks>>

\* luaext_watchdog_pause: no evaluation and no publication.
Pause(o) ==
  /\ At(o, "in") /\ Calling(o)
  /\ \E mask \in (SUBSET Segments) \ {{}} :
       slots' = [slots EXCEPT ![own[o].slot] = PausedFor(@, mask, ClockOf(o))]
  /\ own' = [own EXCEPT ![o].ops = @ + 1]
  /\ UNCHANGED <<free, irq, heap, thread, module, clocks>>

\* luaext_watchdog_resume
Resume(o) ==
  /\ At(o, "in") /\ Calling(o)
  /\ \E mask \in (SUBSET Segments) \ {{}} :
       Settle(o, ResumedFor(SlotOf(o), mask, ClockOf(o)), "in", 1)
  /\ UNCHANGED <<free, heap, thread, module, clocks>>

\* luaext_timers_hook, where the fallback hook is installed.
SelfCheck(o) ==
  /\ At(o, "in") /\ own[o].hook
  /\ SlotOf(o).hasLimits
  /\ irq' = Raise(o, Verdict(SlotOf(o), ClockOf(o)))
  /\ UNCHANGED <<slots, free, own, heap, thread, module, clocks>>

\* Mutant: the boundary trusts the flag and does not sample for itself.
ReturnOnTheFlagAlone(o) ==
  /\ At(o, "in")
  /\ own' = [own EXCEPT ![o].step = "checked"]
  /\ UNCHANGED <<irq, slots, free, heap, thread, module, clocks>>

\* luaext_timers_throw_if_interrupted, at the boundary of a call whose Lua
\* returned normally: the call succeeds if the flag is down afterwards.
FinalCheck(o) ==
  /\ At(o, "in")
  /\ irq' = IF SlotOf(o).hasLimits
            THEN Raise(o, Verdict(SlotOf(o), ClockOf(o))) ELSE irq
  /\ own' = [own EXCEPT ![o].step = "checked"]
  /\ UNCHANGED <<slots, free, heap, thread, module, clocks>>

\* luaext_watchdog_disarm, from luaext_timers_leave_lua: after the final check,
\* or straight from a call that Lua left by an error.
Disarm(o) ==
  /\ At(o, "checked") \/ At(o, "in")
  /\ slots' = [slots EXCEPT ![own[o].slot] = Disarmed(@, ClockOf(o))]
  /\ own' = [own EXCEPT ![o].step = "disarmed"]
  /\ UNCHANGED <<free, irq, heap, thread, module, clocks>>

\* The rest of luaext_timers_leave_lua: the sticky flag is dropped.
ClearFlag(o) ==
  /\ At(o, "disarmed")
  /\ irq' = [irq EXCEPT ![o] = "none"]
  /\ own' = [own EXCEPT ![o].step = "out"]
  /\ UNCHANGED <<slots, free, heap, thread, module, clocks>>

-----------------------------------------------------------------------------
(* The watchdog thread: luaext_watch_main.  The lock it holds between two  *)
(* of these steps is let go here; an owner's publication in between is one *)
(* it could as well have found there the time before.                      *)

Exit ==
  /\ thread.pc = "check" /\ module.stop
  /\ thread' = [thread EXCEPT !.pc = "exited"]
  /\ UNCHANGED <<slots, free, irq, own, heap, module, clocks>>

\* Nothing is due: wait for a signal or, when the heap has a root, for it.
Sleep ==
  /\ thread.pc = "check" /\ ~module.stop
  /\ \A e \in heap : e.deadline > now
  /\ \E wakeAt \in IF heap = {} THEN {U64Max} ELSE {e.deadline : e \in heap} :
       /\ \A e \in heap : wakeAt <= e.deadline
       /\ thread' = [pc |-> "wait", wakeAt |-> wakeAt, signalled |-> FALSE]
  /\ UNCHANGED <<slots, free, irq, own, heap, module, clocks>>

\* A signal, the timeout, or the spurious wakeup a condition variable allows.
Wake ==
  /\ thread.pc = "wait"
  /\ thread' = [pc |-> "check", wakeAt |-> 0, signalled |-> FALSE]
  /\ UNCHANGED <<slots, free, irq, own, heap, module, clocks>>

\* The part of Wake that is bound to happen.
WakeDue == (thread.signalled \/ thread.wakeAt <= now) /\ Wake

\* luaext_watch_heap_pop and luaext_watch_service: the earliest entry, if it
\* still speaks for its slot, trips the slot or is replaced (which cannot run
\* out of memory: the pop has just left room).
Service ==
  /\ thread.pc = "check" /\ ~module.stop
  /\ \E e \in heap :
       /\ e.deadline <= now
       /\ \A f \in heap : e.deadline <= f.deadline
       /\ LET r == [slots[e.slot] EXCEPT !.queued = FALSE]
              c == ClockOf(r.irq)
              left == Stamped(r, Deadline(r, c))
          IN  \/ /\ ~Live(e)
                 /\ heap' = heap \ {e}
                 /\ UNCHANGED <<slots, irq>>
              \/ /\ Live(e)
                 /\ irq' = Raise(r.irq, Verdict(r, c))
                 /\ IF Verdict(r, c) = "none" /\ HasDeadline(r, c)
                    THEN /\ slots' = [slots EXCEPT ![e.slot] = left]
                         /\ heap' = (heap \ {e}) \cup {EntryFor(e.slot, left)}
                    ELSE /\ slots' = [slots EXCEPT ![e.slot] = r]
                         /\ heap' = heap \ {e}
  /\ UNCHANGED <<free, own, thread, module, clocks>>

-----------------------------------------------------------------------------
(* Module startup and shutdown                                             *)

\* luaext_watchdog_shutdown, up to the join.  Every sandbox is gone by then.
Shutdown ==
  /\ module.phase = "up"
  /\ \A o \in Owners : At(o, "none")
  /\ module' = [module EXCEPT !.phase = "stopping", !.stop = TRUE]
  /\ thread' = Signalled
  /\ UNCHANGED <<slots, free, irq, own, heap, clocks>>

\* Mutant: the pool is torn down without waiting for the thread.
JoinWithoutWaiting ==
  /\ module.phase = "stopping"
  /\ module' = [module EXCEPT !.phase = "joined", !.running = FALSE]
  /\ UNCHANGED <<slots, free, irq, own, heap, thread, clocks>>

\* luaext_thread_join, and the flag it lowers.
Join ==
  /\ module.phase = "stopping"
  /\ thread.pc \in {"off", "exited"}
  /\ thread' = [thread EXCEPT !.pc = "off"]
  /\ module' = [module EXCEPT !.phase = "joined", !.running = FALSE]
  /\ UNCHANGED <<slots, free, irq, own, heap, clocks>>

\* The rest of luaext_watchdog_shutdown: the heap, the pool, the once-flag.
Teardown ==
  /\ module.phase = "joined"
  /\ heap' = {}
  /\ slots' = [s \in Slots |-> BlankSlot]
  /\ free' = Slots
  /\ module' = [module EXCEPT !.phase = "down", !.once = FALSE, !.stop = FALSE]
  /\ UNCHANGED <<irq, own, thread, clocks>>

\* luaext_watchdog_startup in a process that runs MINIT again.
Startup ==
  /\ module.phase = "down" /\ module.startups < MaxStartups
  /\ module' = [module EXCEPT !.phase = "up", !.failed = FALSE,
                              !.startups = @ + 1]
  /\ UNCHANGED <<slots, free, irq, own, heap, thread, clocks>>

-----------------------------------------------------------------------------
(* The clocks                                                              *)

\* Whether owner o's time on this clock is its sandbox's to pay for.
Owes(o, segment) ==
  /\ own[o].slot # NoSlot
  /\ SlotOf(o).armed
  /\ segment \notin SlotOf(o).paused

\* One unit passes, and the threads in `ran` spent it executing: CPU time
\* advances no faster than the monotonic clock.
Tick ==
  /\ now < MaxTime
  /\ now' = now + 1
  /\ \E ran \in SUBSET Owners :
       /\ cpu' = [o \in Owners |-> IF o \in ran THEN cpu[o] + 1 ELSE cpu[o]]
       /\ ledger' = [o \in Owners |->
            [ledger[o] EXCEPT
               !.cpu = IF Owes(o, "cpu") /\ o \in ran THEN @ + 1 ELSE @,
               !.wall = IF Owes(o, "wall") THEN @ + 1 ELSE @]]
  /\ UNCHANGED <<slots, free, irq, own, heap, thread, module, readable>>

\* clock_gettime() on the owner's CPU clock starts, or stops, failing.
ClockTurns(o) ==
  /\ ClockMayFail
  /\ readable' = [readable EXCEPT ![o] = ~@]
  /\ ledger' = [ledger EXCEPT ![o].clean = FALSE]
  /\ UNCHANGED <<slots, free, irq, own, heap, thread, module, now, cpu>>

-----------------------------------------------------------------------------
(* The specification                                                       *)

Owner(o) ==
  \/ Acquire(o) \/ Release(o)
  \/ SetLimit(o) \/ Prime(o) \/ WriteLimit(o) \/ Republish(o) \/ Publish(o)
  \/ Arm(o) \/ Pause(o) \/ Resume(o) \/ SelfCheck(o)
  \/ FinalCheck(o) \/ Disarm(o) \/ ClearFlag(o)

WatchdogThread == Exit \/ Sleep \/ Wake \/ Service

Module == Shutdown \/ Join \/ Teardown \/ Startup

Next ==
  \/ \E o \in Owners : Owner(o) \/ ClockTurns(o)
  \/ WatchdogThread
  \/ Module
  \/ Tick

Spec == Init /\ [][Next]_vars

\* Time passes, the watchdog thread is scheduled and its timed wait returns, a
\* thread inside a call of this file finishes it, and a shutdown that began
\* goes on.  Nothing obliges a host to make a call or a script to return.
Fairness ==
  /\ WF_vars(Tick)
  /\ WF_vars(Exit) /\ WF_vars(Sleep) /\ WF_vars(WakeDue) /\ WF_vars(Service)
  /\ WF_vars(Join) /\ WF_vars(Teardown)
  /\ \A o \in Owners :
       WF_vars(Prime(o) \/ WriteLimit(o) \/ Republish(o) \/ Publish(o))

FairSpec == Spec /\ Fairness

-----------------------------------------------------------------------------
(* Properties                                                              *)

\* The owner's script has really used up a budget, by the ledger; a CPU limit
\* too fine for its clock is a budget of wall time too.
OverBudget(o) ==
  LET r == SlotOf(o) IN
  \/ r.cpuLimit # 0 /\ ledger[o].cpu >= r.cpuLimit
  \/ r.cpuLimit \in CoarseLimits /\ ledger[o].wall >= r.cpuLimit
  \/ r.wallLimit # 0 /\ ledger[o].wall >= r.wallLimit

\* A sandbox is billed what it owes: its wall time to the unit, its CPU time
\* to the unit while its clock answered and never more than that, over any
\* run of calls, pauses, resumes and limits changed in the middle.
BilledExactly ==
  \A o \in Owners : own[o].slot # NoSlot =>
    LET r == SlotOf(o)
        c == ClockOf(o)
    IN  /\ WallSpent(r, c) = ledger[o].wall
        /\ CpuSpent(r, c) <= ledger[o].cpu
        /\ ledger[o].clean => CpuSpent(r, c) = ledger[o].cpu

\* Owner o's slot could trip at a known instant, and something will look at it
\* no later: an entry, in the heap or about to be published, that is live.
Covering(o) ==
  LET r == SlotOf(o)
      c == ClockOf(o)
      pending == IF At(o, "publish") THEN {own[o].entry} ELSE {}
  IN  r.hasLimits /\ HasDeadline(r, c) /\ ~CpuLost(r, c)
        /\ Deadline(r, c) < U64Max =>
        \E e \in heap \cup pending :
           e.slot = own[o].slot /\ Live(e) /\ e.deadline <= Deadline(r, c)

\* The watchdog is never going to sleep past a breach: while the thread runs, a
\* call whose flag is down is covered at every point of the owner's code but
\* the one between a new limit and its republication.
DeadlineCovered ==
  \A o \in Owners :
    /\ own[o].slot # NoSlot /\ ~At(o, "republish")
    /\ module.running /\ irq[o] = "none"
    => Covering(o)

\* No wakeup is lost: a thread asleep with nothing signalled sleeps no longer
\* than the earliest entry, and not at all once it has been told to stop.
NoLostWakeup ==
  thread.pc = "wait" /\ ~thread.signalled =>
    /\ ~module.stop
    /\ \A e \in heap : thread.wakeAt <= e.deadline

\* A flag does not outlive its call: between two calls of a sandbox it is down,
\* whatever entries of earlier calls or tenants the watchdog still serves.
NoFlagBetweenCalls ==
  \A o \in Owners : At(o, "out") \/ (At(o, "publish") /\ own[o].back = "out")
                     => irq[o] = "none"

\* Nothing trips early: a flag goes up for a budget only when that budget is
\* really used up, or its CPU clock has failed.
NoEarlyTrip ==
  [][\A o \in Owners :
       irq'[o] # irq[o] /\ irq'[o] \in {"cpu", "wall"} =>
         \/ OverBudget(o)'
         \/ irq'[o] = "cpu" /\ ~ledger[o].clean]_vars

\* A call that reports success was within its budgets when its boundary
\* sampled it, however late the watchdog thread runs.
HonestReturn ==
  [][\A o \in Owners :
       At(o, "in") /\ At(o, "checked")' /\ irq'[o] = "none" /\ ledger[o].clean
         => ~OverBudget(o)]_vars

\* The CPU budget is measured or the call fails: a limited call that reports
\* success, and has not paused its CPU clock, is reading it.
MeasuredOrStopped ==
  [][\A o \in Owners :
       At(o, "in") /\ At(o, "checked")' /\ irq'[o] = "none" =>
         LET r == SlotOf(o) IN
         r.hasLimits /\ r.clockOk /\ "cpu" \notin r.paused
           => "cpu" \in r.open /\ readable[o]]_vars

\* A limit that was accepted has something to enforce it: the thread, or the
\* hook where the thread was refused.
LimitsHaveAnEnforcer ==
  \A o \in Owners : own[o].slot # NoSlot /\ SlotOf(o).hasLimits
                     => module.running \/ own[o].hook

\* The thread never spins: an entry the watchdog pushes back, or an owner
\* stamps, lies at least the floor ahead (or at the instant that never comes),
\* unless the CPU clock has failed.
DeadlinesAdvance ==
  [][\A s \in Slots :
       slots'[s].epoch = slots[s].epoch + 1 /\ ledger[slots[s].irq].clean
         => slots'[s].queuedDeadline \in {U64Max} \cup now + Floor .. U64Max]_vars

\* The store outlives its reader: the thread is gone before the pool is.
ThreadNeverOutlivesPool ==
  module.phase \in {"joined", "down"} => thread.pc = "off"

\* A breach is delivered: a call that is over budget gets its flag raised
\* unless it ends, or its limit is lifted, first.  (Within MaxTime, and with
\* the thread running and CPU clocks that answer.)
Exhausted(o) ==
  /\ own[o].slot # NoSlot /\ module.running
  /\ SlotOf(o).hasLimits /\ Verdict(SlotOf(o), ClockOf(o)) # "none"

BreachDelivered ==
  \A o \in Owners :
    Exhausted(o) /\ now + Floor <= MaxTime ~> irq[o] # "none" \/ ~Exhausted(o)

\* A shutdown that begins ends: the thread is never left waiting for a signal.
ShutdownCompletes == module.phase = "stopping" ~> module.phase = "down"

-----------------------------------------------------------------------------
(* What a comment of the code says and the code does not do, refuted by a  *)
(* run of its own.                                                         *)

\* luaext_watch_evaluate says that a CPU budget that cannot be measured "must
\* mean stopped".  A slot whose clock could not be captured is not asked.
UnmeasurableMeansStopped ==
  [][\A o \in Owners :
       At(o, "in") /\ At(o, "checked")' /\ irq'[o] = "none" =>
         LET r == SlotOf(o) IN r.cpuLimit = 0 \/ ledger[o].cpu < r.cpuLimit]_vars
=============================================================================
