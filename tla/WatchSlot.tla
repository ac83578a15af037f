------------------------------ MODULE WatchSlot ------------------------------
(***************************************************************************)
(* One watchdog slot of luaext_watchdog.c: the accounting record a sandbox *)
(* borrows for its life, and the functions that run under the slot's lock. *)
(* Each of them is an operator from a record to a record, so that the      *)
(* modules that interleave them (Watchdog, Timers) take every critical     *)
(* section of the code as one step.                                        *)
(*                                                                         *)
(* A clock reading is a record: wall is the monotonic clock, cpu the CPU   *)
(* clock of the owning thread, readable whether that clock answers.        *)
(***************************************************************************)
EXTENDS Integers

CONSTANTS
  Owners,     \* the sandboxes; each runs on a thread of its own
  NoIrq,      \* the NULL irq pointer of a slot nobody holds
  U64Max,     \* UINT64_MAX: the no-deadline sentinel and the saturation point
  Floor       \* luaext_watch.floor_ns, the floor on wake-ups, in clock units

ASSUME WatchSlotAssumption ==
  /\ NoIrq \notin Owners
  /\ U64Max \in Nat
  /\ Floor \in Nat \ {0}
  /\ Floor < U64Max

Segments == {"cpu", "wall"}
Reasons  == {"none", "cpu", "wall"}

Clock == [wall : Nat, cpu : Nat, readable : BOOLEAN]

Slot ==
  [generation : Nat, irq : Owners \cup {NoIrq},
   clockOk : BOOLEAN, cpuOpenFailed : BOOLEAN,
   cpuLimit : Nat, wallLimit : Nat, cpuWallLimit : Nat,
   cpuUsed : Nat, wallUsed : Nat, cpuBase : Nat, wallBase : Nat,
   armed : BOOLEAN, open : SUBSET Segments,
   epoch : Nat, queued : BOOLEAN, queuedDeadline : Nat,
   paused : SUBSET Segments, hasLimits : BOOLEAN]

\* A slot as the pool's memset leaves it.
BlankSlot ==
  [generation |-> 0, irq |-> NoIrq, clockOk |-> FALSE, cpuOpenFailed |-> FALSE,
   cpuLimit |-> 0, wallLimit |-> 0, cpuWallLimit |-> 0,
   cpuUsed |-> 0, wallUsed |-> 0, cpuBase |-> 0, wallBase |-> 0,
   armed |-> FALSE, open |-> {}, epoch |-> 0, queued |-> FALSE,
   queuedDeadline |-> 0, paused |-> {}, hasLimits |-> FALSE]

-----------------------------------------------------------------------------
(* luaext_watch_sample: what the slot has spent, right now.                *)

\* Mutant: the operands are swapped.
ElapsedBackwards(at, base) == base - at

Elapsed(at, base) == IF at > base THEN at - base ELSE 0

CpuLost(r, c) == "cpu" \in r.open /\ r.clockOk /\ ~c.readable

CpuSpent(r, c) ==
  r.cpuUsed + IF "cpu" \in r.open /\ r.clockOk /\ c.readable
              THEN Elapsed(c.cpu, r.cpuBase) ELSE 0

WallSpent(r, c) ==
  r.wallUsed + IF "wall" \in r.open THEN Elapsed(c.wall, r.wallBase) ELSE 0

-----------------------------------------------------------------------------
(* luaext_watch_evaluate: the reason the slot trips for, or "none".        *)

CpuBreached(r, c) ==
  \/ CpuLost(r, c)
  \/ r.cpuOpenFailed
  \/ r.cpuLimit # 0 /\ CpuSpent(r, c) >= r.cpuLimit
  \/ r.cpuWallLimit # 0 /\ WallSpent(r, c) >= r.cpuWallLimit

WallBreached(r, c) == r.wallLimit # 0 /\ WallSpent(r, c) >= r.wallLimit

\* Mutant: the evaluation forgets that a disarmed slot measures nothing.
VerdictWhileDisarmed(r, c) ==
  CASE r.irq = NoIrq      -> "none"
    [] r.irq # NoIrq /\ CpuBreached(r, c) -> "cpu"
    [] r.irq # NoIrq /\ ~CpuBreached(r, c) /\ WallBreached(r, c) -> "wall"
    [] OTHER -> "none"

Verdict(r, c) ==
  IF ~r.armed \/ r.irq = NoIrq THEN "none"
  ELSE IF CpuBreached(r, c) THEN "cpu"
  ELSE IF WallBreached(r, c) THEN "wall" ELSE "none"

-----------------------------------------------------------------------------
(* luaext_watch_deadline: the earliest instant the slot could trip at.     *)
(* U64Max doubles as "this budget sets no deadline".                       *)

Lesser(a, b) == IF a < b THEN a ELSE b

BudgetLeft(measured, limit, spent) ==
  IF ~measured \/ limit = 0 THEN U64Max
  ELSE IF limit > spent THEN limit - spent ELSE 0

Remaining(r, c) ==
  LET cpuLeft  == BudgetLeft("cpu" \in r.open, r.cpuLimit, CpuSpent(r, c))
      coarse   == BudgetLeft("wall" \in r.open, r.cpuWallLimit, WallSpent(r, c))
      wallLeft == BudgetLeft("wall" \in r.open, r.wallLimit, WallSpent(r, c))
  IN  Lesser(cpuLeft, Lesser(coarse, wallLeft))

HasDeadline(r, c) ==
  /\ r.armed
  /\ r.irq # NoIrq
  /\ r.open # {}
  /\ CpuLost(r, c) \/ Remaining(r, c) # U64Max

\* now + wait, saturated at U64Max instead of wrapping.
SaturatedAdd(now, wait) == IF wait > U64Max - now THEN U64Max ELSE now + wait

Raised(a) == IF a < Floor THEN Floor ELSE a

\* Mutant: the addition wraps, as it did before the saturation was added.
WrappingDeadline(r, c) ==
  IF CpuLost(r, c) THEN c.wall
  ELSE (c.wall + Raised(Remaining(r, c))) % (U64Max + 1)

Deadline(r, c) ==
  IF CpuLost(r, c) THEN c.wall
  ELSE SaturatedAdd(c.wall, Raised(Remaining(r, c)))

-----------------------------------------------------------------------------
(* luaext_watch_covered, luaext_watch_stamp                                *)

\* Mutant: any outstanding entry will do, however late it fires.
CoveredByAny(r, deadline) == r.queued

Covered(r, deadline) == r.queued /\ r.queuedDeadline <= deadline

Stamped(r, deadline) ==
  [r EXCEPT !.epoch = @ + 1, !.queued = TRUE, !.queuedDeadline = deadline]

-----------------------------------------------------------------------------
(* luaext_watch_open, luaext_watch_close                                   *)

\* Mutant: a clock that does not answer leaves the segment shut, quietly.
OpenedQuietly(r, mask, c) ==
  LET m   == (mask \ r.paused) \ r.open
      cpu == "cpu" \in m /\ r.clockOk /\ c.readable
  IN  [r EXCEPT !.cpuBase = IF cpu THEN c.cpu ELSE @,
                !.wallBase = IF "wall" \in m THEN c.wall ELSE @,
                !.open = @ \cup (IF cpu THEN {"cpu"} ELSE {})
                           \cup (m \cap {"wall"})]

Opened(r, mask, c) ==
  LET m   == (mask \ r.paused) \ r.open
      cpu == "cpu" \in m /\ r.clockOk
  IN  [r EXCEPT !.cpuBase = IF cpu /\ c.readable THEN c.cpu ELSE @,
                !.cpuOpenFailed = @ \/ (cpu /\ ~c.readable),
                !.wallBase = IF "wall" \in m THEN c.wall ELSE @,
                !.open = @ \cup (IF cpu /\ c.readable THEN {"cpu"} ELSE {})
                           \cup (m \cap {"wall"})]

\* A base means nothing while its segment is closed; the model blanks it.
Closed(r, mask, c) ==
  LET m == mask \cap r.open
  IN  [r EXCEPT !.cpuUsed = IF "cpu" \in m /\ ~CpuLost(r, c)
                            THEN CpuSpent(r, c) ELSE @,
                !.wallUsed = IF "wall" \in m THEN WallSpent(r, c) ELSE @,
                !.open = @ \ m]

-----------------------------------------------------------------------------
(* The record updates of the exported functions, each made under the       *)
(* slot's lock (`paused` and `hasLimits` are the owner's and need none).   *)

\* Mutant: what the previous tenant spent is the new one's to pay.
AcquiredKeepingUsage(r, owner, captured) ==
  [r EXCEPT !.generation = @ + 1, !.irq = owner, !.clockOk = captured,
            !.cpuLimit = 0, !.wallLimit = 0, !.cpuWallLimit = 0]

\* luaext_watchdog_acquire; `captured` is luaext_clock_capture_self's answer.
Acquired(r, owner, captured) ==
  [BlankSlot EXCEPT !.generation = r.generation + 1, !.irq = owner,
                    !.clockOk = captured, !.epoch = r.epoch]

\* luaext_watchdog_release
Released(r) ==
  [r EXCEPT !.irq = NoIrq, !.clockOk = FALSE, !.armed = FALSE, !.open = {},
            !.paused = {}, !.hasLimits = FALSE, !.queued = FALSE,
            !.generation = @ + 1]

\* Mutant: lifting a coarse limit leaves its companion armed.
WithStaleCompanion(r, ns, coarse) ==
  [r EXCEPT !.cpuLimit = ns, !.cpuWallLimit = IF coarse THEN ns ELSE @,
            !.hasLimits = ns # 0 \/ r.wallLimit # 0]

\* luaext_watchdog_set_cpu_limit; `coarse` is luaext_watchdog_cpu_is_degraded.
WithCpuLimit(r, ns, coarse) ==
  [r EXCEPT !.cpuLimit = ns, !.cpuWallLimit = IF coarse THEN ns ELSE 0,
            !.hasLimits = ns # 0 \/ r.wallLimit # 0]

\* luaext_watchdog_set_wall_limit
WithWallLimit(r, ns) ==
  [r EXCEPT !.wallLimit = ns, !.hasLimits = r.cpuLimit # 0 \/ ns # 0]

\* luaext_watchdog_arm, past its early return
Armed(r, c) ==
  Opened([r EXCEPT !.armed = TRUE, !.open = {}], Segments, c)

\* luaext_watchdog_disarm, past its early return
Disarmed(r, c) ==
  [Closed(r, Segments, c) EXCEPT !.armed = FALSE, !.paused = {},
                                 !.cpuOpenFailed = FALSE]

\* luaext_watchdog_pause
PausedFor(r, mask, c) ==
  Closed([r EXCEPT !.paused = @ \cup mask], mask, c)

\* luaext_watchdog_resume, up to its evaluation
ResumedFor(r, mask, c) ==
  LET live == [r EXCEPT !.paused = @ \ mask]
  IN  IF r.armed THEN Opened(live, mask, c) ELSE live

\* The publication decision arm, resume and republish share: the slot did not
\* trip, it has a deadline, and the heap holds nothing that fires in time.
NeedsEntry(r, c) ==
  /\ Verdict(r, c) = "none"
  /\ HasDeadline(r, c)
  /\ ~Covered(r, Deadline(r, c))
=============================================================================
