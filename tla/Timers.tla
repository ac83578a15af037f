------------------------------- MODULE Timers -------------------------------
(***************************************************************************)
(* Who is billed for a call: the bracket luaext_timers.c puts around every *)
(* entry into the interpreter, and the four places where Lua crosses out   *)
(* to the host (a registered callable, a filesystem backend, the output    *)
(* callback, a module resolver).  Lua and host frames nest; each crossing  *)
(* may pause clocks, each host frame may call pauseTimers(), resumeTimers()*)
(* or back into Lua, and the interrupt flag goes up at any moment.         *)
(*                                                                         *)
(* One sandbox, on its own thread.  Publication and the watchdog's heap    *)
(* are the business of module Watchdog: here a breach may be flagged at    *)
(* any time from the moment it exists.  Limits are fixed for a behaviour.  *)
(***************************************************************************)
EXTENDS WatchSlot, Sequences, FiniteSets

CONSTANTS
  Self,         \* the sandbox
  Limits,       \* the budgets a sandbox may be configured with
  Policies,     \* the [billHost, billWall] pairs it may be configured with
  Pausers,      \* crossings whose host code calls pauseTimers()/resumeTimers()
  Reentrants,   \* crossings whose host code calls back into Lua
  Flushers,     \* crossings whose host code calls getOutput()
  Interrupts,   \* whether a foreign thread calls interrupt()
  MaxDepth,     \* bound: frames on the stack
  MaxSteps,     \* bound: entries, crossings, pauses and resumes
  MaxTime       \* bound: the monotonic clock stops here

Crossings == {"callback", "backend", "sink", "resolver"}

ASSUME TimersAssumption ==
  /\ Self \in Owners
  /\ Limits \subseteq Nat
  /\ Policies \subseteq [billHost : BOOLEAN, billWall : BOOLEAN]
  /\ Pausers \subseteq Crossings /\ Reentrants \subseteq Crossings
  /\ Flushers \subseteq Crossings
  /\ Interrupts \in BOOLEAN
  /\ MaxDepth \in Nat /\ MaxSteps \in Nat /\ MaxTime \in Nat

VARIABLES
  slot,        \* sandbox->slot
  allowPause,  \* sandbox->allow_pause
  stack,       \* the C frames: luaext_watch_frame, and each crossing's locals
  irq,         \* the raised flag's reason, or "none"
  policy,      \* Limits::$billHostTime and VfsQuota::$billWallTime
  now,         \* the monotonic clock
  cpu,         \* the thread's CPU clock
  steps,       \* how much of MaxSteps is used
  ledger,      \* auxiliary: what the documented rules bill so far
  breached     \* auxiliary: the flag went up during this outermost call

vars == <<slot, allowPause, stack, irq, policy, now, cpu, steps, ledger, breached>>

\* A frame of either kind.  `unbilled` is auxiliary: the clocks the documents
\* say a host frame does not charge for.
Frame ==
  [kind : Crossings \cup {"lua"},
   wasPaused : SUBSET Segments, prevAllow : BOOLEAN,
   status : {"running", "ok", "failed"},
   resumes : SUBSET Segments, unbilled : SUBSET Segments]

TypeOK ==
  /\ slot \in Slot
  /\ allowPause \in BOOLEAN
  /\ stack \in Seq(Frame)
  /\ irq \in Reasons \cup {"abort"}
  /\ policy \in Policies
  /\ now \in Nat /\ cpu \in Nat /\ steps \in Nat
  /\ ledger \in [cpu : Nat, wall : Nat]
  /\ breached \in BOOLEAN

Init ==
  /\ \E cpuNs \in Limits, wallNs \in Limits :
       slot = WithWallLimit(
                WithCpuLimit(Acquired(BlankSlot, Self, TRUE), cpuNs, FALSE),
                wallNs)
  /\ allowPause = FALSE
  /\ stack = <<>>
  /\ irq = "none"
  /\ policy \in Policies
  /\ now = 0 /\ cpu = 0 /\ steps = 0
  /\ ledger = [cpu |-> 0, wall |-> 0]
  /\ breached = FALSE

-----------------------------------------------------------------------------
(* Helpers                                                                 *)

Here == [wall |-> now, cpu |-> cpu, readable |-> TRUE]

Top == stack[Len(stack)]
Popped == SubSeq(stack, 1, Len(stack) - 1)
InLua == Cardinality({i \in 1..Len(stack) : stack[i].kind = "lua"})
AtLua  == stack # <<>> /\ Top.kind = "lua" /\ Top.status = "running"
AtHost == stack # <<>> /\ Top.kind # "lua"
Spend == steps < MaxSteps /\ steps' = steps + 1

\* The flag after an evaluation of record r.
Flagged(r) ==
  IF r.hasLimits /\ Verdict(r, Here) # "none" THEN Verdict(r, Here) ELSE irq

Flag(reason) ==
  /\ irq' = reason
  /\ breached' = (stack' # <<>> /\ (breached \/ reason # "none"))

\* luaext_watchdog_resume does nothing for an empty mask, not even evaluate.
Resumed(r, mask) == IF mask = {} THEN r ELSE ResumedFor(r, mask, Here)
FlaggedBy(r, mask) == IF mask = {} THEN irq ELSE Flagged(r)

\* What the frames that enclose the topmost Lua frame leave a crossing made
\* from it free to un-bill: all, or what the host frame that called it had.
Lent ==
  LET k == CHOOSE i \in 1..Len(stack) :
             /\ stack[i].kind = "lua"
             /\ \A j \in i+1..Len(stack) : stack[j].kind # "lua"
  IN  IF k = 1 THEN Segments ELSE stack[k-1].unbilled

-----------------------------------------------------------------------------
(* luaext_timers_enter_lua, from luaext_exec_pcall                         *)

\* Mutant: every entry arms.
EnteredArming(r) == Armed(r, Here)

Entered(r) ==
  IF InLua = 0 THEN Armed(r, Here) ELSE Resumed(r, r.paused)

\* Whether the entry lets the code below it pause at all.
MayPause(r) == InLua = 0 \/ r.paused # {}

EnterLua ==
  /\ Spend
  /\ \/ stack = <<>>
     \/ AtHost /\ Top.kind \in Reentrants /\ Len(stack) < MaxDepth
  /\ LET r == Entered(slot) IN
       /\ slot' = r
       /\ stack' = Append(stack,
            [kind |-> "lua", wasPaused |-> slot.paused, prevAllow |-> allowPause,
             status |-> "running", resumes |-> {}, unbilled |-> {}])
       /\ Flag(IF InLua = 0 THEN Flagged(r) ELSE FlaggedBy(r, slot.paused))
  /\ allowPause' = MayPause(slot)
  /\ UNCHANGED <<policy, now, cpu, ledger>>

-----------------------------------------------------------------------------
(* The return boundary, and luaext_timers_leave_lua                        *)

Finish(status) == stack' = Append(Popped, [Top EXCEPT !.status = status])

\* lua_pcall came back with LUA_OK: sample, then look at the flag.
ReturnOk ==
  /\ AtLua
  /\ Finish(IF Flagged(slot) = "none" THEN "ok" ELSE "failed")
  /\ Flag(Flagged(slot))
  /\ UNCHANGED <<slot, allowPause, policy, now, cpu, steps, ledger>>

\* lua_pcall came back with an error, the script's own or an interrupt that
\* a back edge or luaext_phpcall_invoke's LUAEXT_CHECK delivered.
ReturnError ==
  /\ AtLua
  /\ Finish("failed")
  /\ UNCHANGED <<slot, allowPause, irq, policy, now, cpu, steps, ledger, breached>>

\* Mutant: the deeper frames' pause is left as they made it.
LeftPaused(r, was) == r

\* The pause state goes back to what the frame found.
Restored(r, was) ==
  LET again == Resumed(r, r.paused \ was)
  IN  IF was \ r.paused = {} THEN again
      ELSE PausedFor(again, was \ r.paused, Here)

\* Mutant: the flag is dropped by every frame that leaves.
KeptByNobody(r) == "none"

\* The flag a nested leave leaves behind.
KeptFlag(r) == FlaggedBy(Resumed(r, r.paused \ Top.wasPaused),
                         r.paused \ Top.wasPaused)

LeaveLua ==
  /\ stack # <<>> /\ Top.kind = "lua" /\ Top.status # "running"
  /\ stack' = Popped
  /\ \/ /\ InLua = 1
        /\ slot' = Disarmed(slot, Here)
        /\ Flag("none")
     \/ /\ InLua > 1
        /\ slot' = Restored(slot, Top.wasPaused)
        /\ Flag(KeptFlag(slot))
  /\ allowPause' = Top.prevAllow
  /\ UNCHANGED <<policy, now, cpu, steps, ledger>>

-----------------------------------------------------------------------------
(* Crossing out to the host, and back                                      *)

\* The clocks a crossing of this kind pauses on its own account.
Mask(kind) ==
  IF kind = "backend" THEN (IF policy.billWall THEN {} ELSE {"wall"})
                      ELSE (IF policy.billHost THEN {} ELSE Segments)

\* luaext_phpcall_invoke, luaext_vfs_call_backend, luaext_output_emit and the
\* resolver call.  Only the last three keep what they have to resume.  Output
\* is also emitted from host code, through getOutput().
CrossOut(kind) ==
  /\ Spend /\ Len(stack) < MaxDepth
  /\ \/ AtLua
     \/ kind = "sink" /\ AtHost /\ Top.kind \in Flushers
  /\ LET took == IF allowPause THEN Mask(kind) ELSE {}
         below == IF AtHost THEN Top.unbilled ELSE {}
     IN  /\ slot' = IF took = {} THEN slot ELSE PausedFor(slot, took, Here)
         /\ stack' = Append(stack,
              [kind |-> kind, wasPaused |-> {}, prevAllow |-> FALSE,
               status |-> "running",
               resumes |-> IF kind = "callback" THEN {} ELSE took,
               unbilled |-> below \cup (Mask(kind) \cap Lent)])
  /\ UNCHANGED <<allowPause, irq, policy, now, cpu, ledger, breached>>

\* Mutant: a callback that paused and forgot keeps its pause.
ReopensItsOwn == Top.resumes

\* What the return of the top host frame reopens: luaext_timers_php_returned
\* reopens everything, the other crossings what they paused themselves.
Reopens == IF Top.kind = "callback" THEN slot.paused ELSE Top.resumes

\* The call comes back.  A callback that ran for a millisecond is sampled.
CrossBack ==
  /\ AtHost
  /\ LET r == Resumed(slot, Reopens) IN
       /\ slot' = r
       /\ stack' = Popped
       /\ \/ Flag(FlaggedBy(r, Reopens))
          \/ Top.kind = "callback" /\ Flag(Flagged(r))
  /\ UNCHANGED <<allowPause, policy, now, cpu, steps, ledger>>

-----------------------------------------------------------------------------
(* Host code inside a crossing                                             *)

Charge(unbilled) == stack' = Append(Popped, [Top EXCEPT !.unbilled = unbilled])

\* Sandbox::pauseTimers(): refused, quietly, where the chain does not allow it.
PauseTimers ==
  /\ Spend /\ AtHost /\ Top.kind \in Pausers
  /\ slot' = IF allowPause THEN PausedFor(slot, Segments, Here) ELSE slot
  /\ Charge(Top.unbilled \cup Lent)
  /\ UNCHANGED <<allowPause, irq, policy, now, cpu, ledger, breached>>

\* Sandbox::resumeTimers()
ResumeTimers ==
  /\ Spend /\ AtHost /\ Top.kind \in Pausers
  /\ slot' = Resumed(slot, Segments)
  /\ Charge({})
  /\ Flag(Flagged(slot'))
  /\ UNCHANGED <<allowPause, policy, now, cpu, ledger>>

-----------------------------------------------------------------------------
(* The flag's other writers, and time                                      *)

\* The watchdog thread, or the hook, notices.
WatchdogTrips ==
  /\ Flagged(slot) # irq
  /\ UNCHANGED <<slot, allowPause, stack, policy, now, cpu, steps, ledger>>
  /\ Flag(Flagged(slot))

\* Sandbox::interrupt(), from another thread, at any moment.
Interrupt ==
  /\ Interrupts /\ irq # "abort"
  /\ UNCHANGED <<slot, allowPause, stack, policy, now, cpu, steps, ledger>>
  /\ Flag("abort")

\* Lua time always counts; host time as its frame says.
Bills(segment) ==
  stack # <<>> /\ (Top.kind = "lua" \/ segment \notin Top.unbilled)

Tick ==
  /\ now < MaxTime
  /\ now' = now + 1
  /\ cpu' \in {cpu, cpu + 1}
  /\ ledger' = [cpu |-> ledger.cpu + IF Bills("cpu") THEN cpu' - cpu ELSE 0,
                wall |-> ledger.wall + IF Bills("wall") THEN 1 ELSE 0]
  /\ UNCHANGED <<slot, allowPause, stack, irq, policy, steps, breached>>

Next ==
  \/ EnterLua \/ ReturnOk \/ ReturnError \/ LeaveLua
  \/ \E kind \in Crossings : CrossOut(kind)
  \/ CrossBack \/ PauseTimers \/ ResumeTimers
  \/ WatchdogTrips \/ Interrupt \/ Tick

Spec == Init /\ [][Next]_vars

-----------------------------------------------------------------------------
(* Properties                                                              *)

\* Over any nesting of Lua and host frames the sandbox is billed what the
\* documents say it is: Lua's time always, a host frame's time on the clocks
\* it does not except, and no time twice or refunded by a nested entry.
BilledByTheFrames ==
  /\ WallSpent(slot, Here) = ledger.wall
  /\ CpuSpent(slot, Here) = ledger.cpu

\* Lua time always counts: while Lua runs both clocks measure it, whatever the
\* host frames around and before it paused.
LuaTimeCounts ==
  AtLua => slot.paused = {} /\ slot.open = Segments

\* The pause in force is the running host frame's own, after any calls it made
\* into Lua and any crossings inside those; a crossing pauses for exactly its
\* own duration, and a nested host frame cannot un-charge time its caller is
\* charged for.
PauseFollowsTheFrame ==
  AtHost => slot.paused = Top.unbilled /\ slot.paused \subseteq Lent

\* The flag is sticky: once a budget is spent or an abort asked for during an
\* outermost call, no later return of that call reports success.
NoSuccessAfterBreach ==
  [][AtLua /\ InLua = 1 /\ stack' # <<>> /\ stack'[Len(stack')].status = "ok"
       => ~breached]_vars
=============================================================================
