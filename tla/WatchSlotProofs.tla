--------------------------- MODULE WatchSlotProofs ---------------------------
(***************************************************************************)
(* Lemmas about the operators of WatchSlot: what each critical section of  *)
(* luaext_watchdog.c returns, which fields it leaves alone, what it does   *)
(* to the time a slot has measured, and to the instant it trips at.        *)
(***************************************************************************)
EXTENDS WatchSlot, TLAPS

-----------------------------------------------------------------------------
(* What is spent, and for how long it can last                             *)

\* Elapsed time is never negative, even where the base lies ahead.
LEMMA ElapsedType ==
  ASSUME NEW at \in Nat, NEW base \in Nat
  PROVE  Elapsed(at, base) \in Nat
BY DEF Elapsed

\* What a slot has spent is a quantity of time.
LEMMA SpentType ==
  ASSUME NEW r \in Slot, NEW c \in Clock
  PROVE  /\ CpuSpent(r, c) \in Nat
         /\ WallSpent(r, c) \in Nat
  <1>1. /\ r.cpuUsed \in Nat /\ r.wallUsed \in Nat
        /\ r.cpuBase \in Nat /\ r.wallBase \in Nat
        /\ c.cpu \in Nat /\ c.wall \in Nat
    BY DEF Slot, Clock
  <1>2. Elapsed(c.cpu, r.cpuBase) \in Nat /\ Elapsed(c.wall, r.wallBase) \in Nat
    BY <1>1, ElapsedType
  <1> QED
    BY <1>1, <1>2 DEF CpuSpent, WallSpent

\* An evaluation gives a reason, and a reason only for an armed slot in use.
LEMMA VerdictType ==
  ASSUME NEW r \in Slot, NEW c \in Clock
  PROVE  /\ Verdict(r, c) \in Reasons
         /\ Verdict(r, c) # "none" => r.irq \in Owners
BY DEF Verdict, Reasons, Slot

\* What is left of a budget is a quantity of time, or the sentinel.
LEMMA BudgetLeftType ==
  ASSUME NEW measured, NEW limit \in Nat, NEW spent \in Nat
  PROVE  BudgetLeft(measured, limit, spent) \in Nat
BY WatchSlotAssumption DEF BudgetLeft

\* So is what is left of the tightest budget.
LEMMA RemainingType ==
  ASSUME NEW r \in Slot, NEW c \in Clock
  PROVE  Remaining(r, c) \in Nat
  <1>1. r.cpuLimit \in Nat /\ r.cpuWallLimit \in Nat /\ r.wallLimit \in Nat
    BY DEF Slot
  <1>2. /\ BudgetLeft("cpu" \in r.open, r.cpuLimit, CpuSpent(r, c)) \in Nat
        /\ BudgetLeft("wall" \in r.open, r.cpuWallLimit, WallSpent(r, c)) \in Nat
        /\ BudgetLeft("wall" \in r.open, r.wallLimit, WallSpent(r, c)) \in Nat
    BY <1>1, SpentType, BudgetLeftType
  <1> QED
    BY <1>2 DEF Remaining, Lesser

\* A deadline is an instant of the monotonic clock.
LEMMA DeadlineType ==
  ASSUME NEW r \in Slot, NEW c \in Clock
  PROVE  Deadline(r, c) \in Nat
  <1>1. c.wall \in Nat
    BY DEF Clock
  <1>2. Raised(Remaining(r, c)) \in Nat
    BY RemainingType, WatchSlotAssumption DEF Raised
  <1>3. SaturatedAdd(c.wall, Raised(Remaining(r, c))) \in Nat
    BY <1>1, <1>2, WatchSlotAssumption DEF SaturatedAdd
  <1> QED
    BY <1>1, <1>3 DEF Deadline

-----------------------------------------------------------------------------
(* The updates return slots                                                *)

\* The slot that memset leaves is a slot.
LEMMA BlankSlotType == BlankSlot \in Slot
BY DEF BlankSlot, Slot

\* luaext_watch_stamp.
LEMMA StampedType ==
  ASSUME NEW r \in Slot, NEW d \in Nat
  PROVE  Stamped(r, d) \in Slot
  <1>1. r.epoch + 1 \in Nat
    BY DEF Slot
  <1> QED
    BY <1>1 DEF Stamped, Slot

\* luaext_watch_open.
LEMMA OpenedType ==
  ASSUME NEW r \in Slot, NEW mask \in SUBSET Segments, NEW c \in Clock
  PROVE  Opened(r, mask, c) \in Slot
  <1> DEFINE m == (mask \ r.paused) \ r.open
  <1>1. c.cpu \in Nat /\ c.wall \in Nat /\ c.readable \in BOOLEAN
    BY DEF Clock
  <1>2. r.open \cup (IF ("cpu" \in m /\ r.clockOk) /\ c.readable THEN {"cpu"} ELSE {})
               \cup (m \cap {"wall"}) \in SUBSET Segments
    BY DEF Slot, Segments
  <1> QED
    BY <1>1, <1>2 DEF Opened, Slot

\* luaext_watch_close.
LEMMA ClosedType ==
  ASSUME NEW r \in Slot, NEW mask \in SUBSET Segments, NEW c \in Clock
  PROVE  Closed(r, mask, c) \in Slot
  <1>1. CpuSpent(r, c) \in Nat /\ WallSpent(r, c) \in Nat
    BY SpentType
  <1> QED
    BY <1>1 DEF Closed, Slot

\* luaext_watchdog_acquire.
LEMMA AcquiredType ==
  ASSUME NEW r \in Slot, NEW o \in Owners, NEW captured \in BOOLEAN
  PROVE  Acquired(r, o, captured) \in Slot
  <1>1. r.generation + 1 \in Nat /\ r.epoch \in Nat
    BY DEF Slot
  <1> QED
    BY <1>1, BlankSlotType DEF Acquired, Slot

\* luaext_watchdog_release.
LEMMA ReleasedType ==
  ASSUME NEW r \in Slot
  PROVE  Released(r) \in Slot
  <1>1. r.generation + 1 \in Nat
    BY DEF Slot
  <1> QED
    BY <1>1 DEF Released, Slot

\* The two limit setters.
LEMMA WithLimitType ==
  ASSUME NEW r \in Slot, NEW ns \in Nat, NEW coarse \in BOOLEAN
  PROVE  /\ WithCpuLimit(r, ns, coarse) \in Slot
         /\ WithWallLimit(r, ns) \in Slot
  <1>1. /\ (ns # 0 \/ r.wallLimit # 0) \in BOOLEAN
        /\ (r.cpuLimit # 0 \/ ns # 0) \in BOOLEAN
    OBVIOUS
  <1>2. (IF coarse THEN ns ELSE 0) \in Nat
    OBVIOUS
  <1>3. WithCpuLimit(r, ns, coarse) \in Slot
    BY <1>1, <1>2 DEF WithCpuLimit, Slot
  <1>4. WithWallLimit(r, ns) \in Slot
    BY <1>1 DEF WithWallLimit, Slot
  <1> QED
    BY <1>3, <1>4

\* luaext_watchdog_arm, past its early return.
LEMMA ArmedType ==
  ASSUME NEW r \in Slot, NEW c \in Clock
  PROVE  Armed(r, c) \in Slot
  <1>1. [r EXCEPT !.armed = TRUE, !.open = {}] \in Slot
    BY DEF Slot
  <1>2. Segments \in SUBSET Segments
    OBVIOUS
  <1> QED
    BY <1>1, <1>2, OpenedType DEF Armed

\* luaext_watchdog_disarm, past its early return.
LEMMA DisarmedType ==
  ASSUME NEW r \in Slot, NEW c \in Clock
  PROVE  Disarmed(r, c) \in Slot
  <1>1. Closed(r, Segments, c) \in Slot
    BY ClosedType
  <1> QED
    BY <1>1 DEF Disarmed, Slot

\* luaext_watchdog_pause.
LEMMA PausedForType ==
  ASSUME NEW r \in Slot, NEW mask \in SUBSET Segments, NEW c \in Clock
  PROVE  PausedFor(r, mask, c) \in Slot
  <1>1. [r EXCEPT !.paused = @ \cup mask] \in Slot
    BY DEF Slot
  <1> QED
    BY <1>1, ClosedType DEF PausedFor

\* luaext_watchdog_resume, up to its evaluation.
LEMMA ResumedForType ==
  ASSUME NEW r \in Slot, NEW mask \in SUBSET Segments, NEW c \in Clock
  PROVE  ResumedFor(r, mask, c) \in Slot
  <1>1. [r EXCEPT !.paused = @ \ mask] \in Slot
    BY DEF Slot
  <1> QED
    BY <1>1, OpenedType DEF ResumedFor

-----------------------------------------------------------------------------
(* The updates leave the slot's tenant and its place in the heap alone     *)

\* The tenant, and the entry that speaks for the slot.
SameTicket(r, q) ==
  /\ q.irq = r.irq
  /\ q.generation = r.generation /\ q.epoch = r.epoch
  /\ q.queued = r.queued /\ q.queuedDeadline = r.queuedDeadline

\* Opening a segment leaves the ticket alone.
LEMMA OpenedTicket ==
  ASSUME NEW r \in Slot, NEW mask, NEW c
  PROVE  SameTicket(r, Opened(r, mask, c))
BY DEF Opened, SameTicket, Slot

\* Closing a segment leaves the ticket alone.
LEMMA ClosedTicket ==
  ASSUME NEW r \in Slot, NEW mask, NEW c
  PROVE  SameTicket(r, Closed(r, mask, c))
BY DEF Closed, SameTicket, Slot

\* So do the limit setters.
LEMMA LimitTicket ==
  ASSUME NEW r \in Slot, NEW ns, NEW coarse
  PROVE  /\ SameTicket(r, WithCpuLimit(r, ns, coarse))
         /\ SameTicket(r, WithWallLimit(r, ns))
BY DEF WithCpuLimit, WithWallLimit, SameTicket, Slot

\* So does arming.
LEMMA ArmedTicket ==
  ASSUME NEW r \in Slot, NEW c
  PROVE  SameTicket(r, Armed(r, c))
  <1> DEFINE q == [r EXCEPT !.armed = TRUE, !.open = {}]
  <1>1. q \in Slot /\ SameTicket(r, q)
    BY DEF Slot, SameTicket
  <1>2. SameTicket(q, Opened(q, Segments, c))
    BY <1>1, OpenedTicket
  <1> QED
    BY <1>1, <1>2 DEF Armed, SameTicket

\* So does disarming: the entry of a call outlives it.
LEMMA DisarmedTicket ==
  ASSUME NEW r \in Slot, NEW c \in Clock
  PROVE  SameTicket(r, Disarmed(r, c))
  <1>1. Closed(r, Segments, c) \in Slot /\ SameTicket(r, Closed(r, Segments, c))
    BY ClosedType, ClosedTicket
  <1> QED
    BY <1>1 DEF Disarmed, SameTicket, Slot

\* So does pausing.
LEMMA PausedForTicket ==
  ASSUME NEW r \in Slot, NEW mask \in SUBSET Segments, NEW c
  PROVE  SameTicket(r, PausedFor(r, mask, c))
  <1> DEFINE q == [r EXCEPT !.paused = @ \cup mask]
  <1>1. q \in Slot /\ SameTicket(r, q)
    BY DEF Slot, SameTicket
  <1>2. SameTicket(q, Closed(q, mask, c))
    BY <1>1, ClosedTicket
  <1> QED
    BY <1>1, <1>2 DEF PausedFor, SameTicket

\* So does resuming.
LEMMA ResumedForTicket ==
  ASSUME NEW r \in Slot, NEW mask \in SUBSET Segments, NEW c
  PROVE  SameTicket(r, ResumedFor(r, mask, c))
  <1> DEFINE q == [r EXCEPT !.paused = @ \ mask]
  <1>1. q \in Slot /\ SameTicket(r, q)
    BY DEF Slot, SameTicket
  <1>2. SameTicket(q, Opened(q, mask, c))
    BY <1>1, OpenedTicket
  <1> QED
    BY <1>1, <1>2 DEF ResumedFor, SameTicket

\* Stamping keeps the tenant and moves the ticket on.
LEMMA StampedTicket ==
  ASSUME NEW r \in Slot, NEW d
  PROVE  LET q == Stamped(r, d) IN
         /\ q.irq = r.irq /\ q.generation = r.generation
         /\ q.epoch = r.epoch + 1 /\ q.queued /\ q.queuedDeadline = d
BY DEF Stamped, Slot

-----------------------------------------------------------------------------
(* The clock updates leave the limits alone                                *)

SameLimits(r, q) ==
  /\ q.cpuLimit = r.cpuLimit /\ q.wallLimit = r.wallLimit
  /\ q.cpuWallLimit = r.cpuWallLimit /\ q.hasLimits = r.hasLimits
  /\ q.clockOk = r.clockOk

\* Opening a segment.
LEMMA OpenedLimits ==
  ASSUME NEW r \in Slot, NEW mask, NEW c
  PROVE  SameLimits(r, Opened(r, mask, c))
BY DEF Opened, SameLimits, Slot

\* Closing one.
LEMMA ClosedLimits ==
  ASSUME NEW r \in Slot, NEW mask, NEW c
  PROVE  SameLimits(r, Closed(r, mask, c))
BY DEF Closed, SameLimits, Slot

\* Stamping.
LEMMA StampedLimits ==
  ASSUME NEW r \in Slot, NEW d
  PROVE  SameLimits(r, Stamped(r, d))
BY DEF Stamped, SameLimits, Slot

\* Arming, disarming, pausing and resuming.
LEMMA CallLimits ==
  ASSUME NEW r \in Slot, NEW mask \in SUBSET Segments, NEW c \in Clock
  PROVE  /\ SameLimits(r, Armed(r, c)) /\ SameLimits(r, Disarmed(r, c))
         /\ SameLimits(r, PausedFor(r, mask, c)) /\ SameLimits(r, ResumedFor(r, mask, c))
  <1>1. SameLimits(r, Armed(r, c))
    <2> DEFINE q == [r EXCEPT !.armed = TRUE, !.open = {}]
    <2>1. q \in Slot /\ SameLimits(r, q)
      BY DEF Slot, SameLimits
    <2>2. SameLimits(q, Opened(q, Segments, c))
      BY <2>1, OpenedLimits
    <2> QED
      BY <2>1, <2>2 DEF Armed, SameLimits
  <1>2. SameLimits(r, Disarmed(r, c))
    <2>1. Closed(r, Segments, c) \in Slot /\ SameLimits(r, Closed(r, Segments, c))
      BY ClosedType, ClosedLimits
    <2> QED
      BY <2>1 DEF Disarmed, SameLimits, Slot
  <1>3. SameLimits(r, PausedFor(r, mask, c))
    <2> DEFINE q == [r EXCEPT !.paused = @ \cup mask]
    <2>1. q \in Slot /\ SameLimits(r, q)
      BY DEF Slot, SameLimits
    <2>2. SameLimits(q, Closed(q, mask, c))
      BY <2>1, ClosedLimits
    <2> QED
      BY <2>1, <2>2 DEF PausedFor, SameLimits
  <1>4. SameLimits(r, ResumedFor(r, mask, c))
    <2> DEFINE q == [r EXCEPT !.paused = @ \ mask]
    <2>1. q \in Slot /\ SameLimits(r, q)
      BY DEF Slot, SameLimits
    <2>2. SameLimits(q, Opened(q, mask, c))
      BY <2>1, OpenedLimits
    <2> QED
      BY <2>1, <2>2 DEF ResumedFor, SameLimits
  <1> QED
    BY <1>1, <1>2, <1>3, <1>4

\* A record whose limits go together: hasLimits says whether one is set.
Declared(r) == r.hasLimits = (r.cpuLimit # 0 \/ r.wallLimit # 0)

\* The setters keep that, and a limit is never lifted by setting the other.
LEMMA SetterLimits ==
  ASSUME NEW r \in Slot, Declared(r), NEW ns \in Nat, NEW coarse \in BOOLEAN
  PROVE  /\ Declared(WithCpuLimit(r, ns, coarse)) /\ Declared(WithWallLimit(r, ns))
         /\ WithCpuLimit(r, ns, coarse).hasLimits => ns # 0 \/ r.hasLimits
         /\ WithWallLimit(r, ns).hasLimits => ns # 0 \/ r.hasLimits
BY DEF Declared, WithCpuLimit, WithWallLimit, Slot

-----------------------------------------------------------------------------
(* What a slot says was spent, against an account kept apart               *)

\* The totals as they will be once the open segments are closed.
WallRun(r, c) == r.wallUsed + IF "wall" \in r.open THEN c.wall - r.wallBase ELSE 0
CpuRun(r, c)  == r.cpuUsed + IF "cpu" \in r.open THEN c.cpu - r.cpuBase ELSE 0

\* A segment is open that should be, from a base that lies behind: a paused one
\* is not, a disarmed slot has none, and an armed one lacks only a CPU segment
\* whose clock was never captured or failed when it was opened.
Sampling(r, c) ==
  /\ r.open \cap r.paused = {}
  /\ r.armed \/ r.open = {}
  /\ r.armed => "wall" \in r.open \cup r.paused
  /\ r.armed /\ r.clockOk => "cpu" \in r.open \cup r.paused \/ r.cpuOpenFailed
  /\ "wall" \in r.open => r.wallBase <= c.wall
  /\ "cpu" \in r.open => r.clockOk /\ r.cpuBase <= c.cpu

\* An account is clean while the CPU clock has answered every time.
Account == [cpu : Nat, wall : Nat, clean : BOOLEAN]

Agrees(r, c, l) ==
  /\ l.clean => r.clockOk /\ c.readable /\ ~r.cpuOpenFailed
  /\ WallRun(r, c) = l.wall
  /\ CpuRun(r, c) <= l.cpu
  /\ l.clean => CpuRun(r, c) = l.cpu

InHand(r, c, l) == r \in Slot /\ Sampling(r, c) /\ Agrees(r, c, l)

\* luaext_watch_sample answers these totals; a CPU clock that does not answer
\* only makes it answer less.
LEMMA SampledIsRun ==
  ASSUME NEW r \in Slot, NEW c \in Clock, Sampling(r, c)
  PROVE  /\ WallSpent(r, c) = WallRun(r, c)
         /\ CpuSpent(r, c) <= CpuRun(r, c)
         /\ c.readable => CpuSpent(r, c) = CpuRun(r, c)
         /\ CpuRun(r, c) \in Nat /\ WallRun(r, c) \in Nat
  <1>1. /\ c.cpu \in Nat /\ c.wall \in Nat /\ r.cpuUsed \in Nat /\ r.wallUsed \in Nat
        /\ r.cpuBase \in Nat /\ r.wallBase \in Nat
    BY DEF Clock, Slot
  <1>2. "wall" \in r.open => Elapsed(c.wall, r.wallBase) = c.wall - r.wallBase
                             /\ c.wall - r.wallBase \in Nat
    BY <1>1 DEF Sampling, Elapsed
  <1>3. "cpu" \in r.open => r.clockOk /\ Elapsed(c.cpu, r.cpuBase) = c.cpu - r.cpuBase
                             /\ c.cpu - r.cpuBase \in Nat
    BY <1>1 DEF Sampling, Elapsed
  <1>4. WallSpent(r, c) = WallRun(r, c) /\ WallRun(r, c) \in Nat
    BY <1>1, <1>2 DEF WallSpent, WallRun
  <1>5. CpuRun(r, c) \in Nat
    BY <1>1, <1>3 DEF CpuRun
  <1>6. CASE "cpu" \in r.open /\ c.readable
    BY <1>1, <1>3, <1>4, <1>5, <1>6 DEF CpuSpent, CpuRun
  <1>7. CASE "cpu" \in r.open /\ ~c.readable
    BY <1>1, <1>3, <1>4, <1>5, <1>7 DEF CpuSpent, CpuRun
  <1>8. CASE "cpu" \notin r.open
    BY <1>1, <1>4, <1>5, <1>8 DEF CpuSpent, CpuRun
  <1> QED
    BY <1>6, <1>7, <1>8

\* What luaext_watch_open is called with: whatever ought to be open is, or is
\* asked for.
Openable(k, mask, c) ==
  /\ k.open \cap k.paused = {} /\ k.armed
  /\ "wall" \in k.open \cup k.paused \cup mask
  /\ k.clockOk => "cpu" \in k.open \cup k.paused \cup mask \/ k.cpuOpenFailed
  /\ "wall" \in k.open => k.wallBase <= c.wall
  /\ "cpu" \in k.open => k.clockOk /\ k.cpuBase <= c.cpu

\* Opening adds nothing to what was spent.
LEMMA OpenedInHand ==
  ASSUME NEW k \in Slot, NEW mask \in SUBSET Segments, NEW c \in Clock, NEW l \in Account,
         Openable(k, mask, c), Agrees(k, c, l)
  PROVE  InHand(Opened(k, mask, c), c, l)
  <1> DEFINE m == (mask \ k.paused) \ k.open
             q == Opened(k, mask, c)
  <1>1. /\ c.cpu \in Nat /\ c.wall \in Nat /\ c.readable \in BOOLEAN
        /\ k.cpuUsed \in Nat /\ k.wallUsed \in Nat /\ k.cpuBase \in Nat /\ k.wallBase \in Nat
        /\ k.open \subseteq Segments /\ k.clockOk \in BOOLEAN /\ k.cpuOpenFailed \in BOOLEAN
    BY DEF Clock, Slot
  <1>2. q \in Slot
    BY OpenedType
  <1>3. q.paused = k.paused /\ q.armed = k.armed /\ q.clockOk = k.clockOk
        /\ q.cpuUsed = k.cpuUsed /\ q.wallUsed = k.wallUsed
    BY DEF Opened, Slot
  <1>4. q.cpuOpenFailed = (k.cpuOpenFailed \/ (("cpu" \in m /\ k.clockOk) /\ ~c.readable))
    BY DEF Opened, Slot
  <1>5. q.wallBase = IF "wall" \in m THEN c.wall ELSE k.wallBase
    BY DEF Opened, Slot
  <1>6. q.cpuBase = IF ("cpu" \in m /\ k.clockOk) /\ c.readable THEN c.cpu ELSE k.cpuBase
    BY DEF Opened, Slot
  <1>7. q.open = k.open \cup (IF ("cpu" \in m /\ k.clockOk) /\ c.readable THEN {"cpu"} ELSE {})
                        \cup (m \cap {"wall"})
    BY DEF Opened, Slot
  <1>8. /\ "wall" \in q.open <=> "wall" \in k.open \/ "wall" \in m
        /\ "cpu" \in q.open <=> "cpu" \in k.open \/ ("cpu" \in m /\ k.clockOk /\ c.readable)
        /\ q.open \subseteq k.open \cup m
    BY <1>7
  <1>9. /\ "wall" \in m <=> "wall" \in mask /\ "wall" \notin k.paused /\ "wall" \notin k.open
        /\ "cpu" \in m <=> "cpu" \in mask /\ "cpu" \notin k.paused /\ "cpu" \notin k.open
        /\ m \cap k.paused = {}
    OBVIOUS
  <1> HIDE DEF q, m
  <1>10. q.open \cap q.paused = {} /\ q.armed
    BY <1>3, <1>8, <1>9 DEF Openable
  <1>11. "wall" \in q.open \cup q.paused
    BY <1>3, <1>8, <1>9 DEF Openable
  <1>12. q.clockOk => "cpu" \in q.open \cup q.paused \/ q.cpuOpenFailed
    BY <1>1, <1>3, <1>4, <1>8, <1>9 DEF Openable
  <1>13. "wall" \in q.open => q.wallBase <= c.wall
    BY <1>1, <1>5, <1>8, <1>9 DEF Openable
  <1>14. "cpu" \in q.open => q.clockOk /\ q.cpuBase <= c.cpu
    BY <1>1, <1>3, <1>6, <1>8, <1>9 DEF Openable
  <1>15. WallRun(q, c) = WallRun(k, c)
    BY <1>1, <1>3, <1>5, <1>8, <1>9 DEF WallRun
  <1>16. CpuRun(q, c) = CpuRun(k, c)
    BY <1>1, <1>3, <1>6, <1>8, <1>9 DEF CpuRun
  <1>17. l.clean => q.clockOk /\ c.readable /\ ~q.cpuOpenFailed
    BY <1>3, <1>4 DEF Agrees
  <1>18. Sampling(q, c)
    BY <1>10, <1>11, <1>12, <1>13, <1>14 DEF Sampling
  <1>19. Agrees(q, c, l)
    BY <1>15, <1>16, <1>17 DEF Agrees
  <1> QED
    BY <1>2, <1>18, <1>19 DEF InHand, q

\* luaext_watch_close banks what its segments measured, but for a CPU segment
\* whose clock does not answer.
LEMMA ClosedRuns ==
  ASSUME NEW k \in Slot, NEW mask \in SUBSET Segments, NEW c \in Clock,
         "wall" \in k.open => k.wallBase <= c.wall,
         "cpu" \in k.open => k.clockOk /\ k.cpuBase <= c.cpu
  PROVE  LET q == Closed(k, mask, c) IN
         /\ q.open = k.open \ mask
         /\ q.paused = k.paused /\ q.armed = k.armed /\ q.clockOk = k.clockOk
         /\ q.cpuOpenFailed = k.cpuOpenFailed
         /\ q.wallBase = k.wallBase /\ q.cpuBase = k.cpuBase
         /\ WallRun(q, c) = WallRun(k, c)
         /\ CpuRun(q, c) <= CpuRun(k, c)
         /\ c.readable => CpuRun(q, c) = CpuRun(k, c)
  <1> DEFINE q == Closed(k, mask, c)
             m == mask \cap k.open
  <1>1. /\ c.cpu \in Nat /\ c.wall \in Nat /\ c.readable \in BOOLEAN
        /\ k.cpuUsed \in Nat /\ k.wallUsed \in Nat /\ k.cpuBase \in Nat /\ k.wallBase \in Nat
    BY DEF Clock, Slot
  <1>2. /\ q.paused = k.paused /\ q.armed = k.armed /\ q.clockOk = k.clockOk
        /\ q.cpuOpenFailed = k.cpuOpenFailed
        /\ q.wallBase = k.wallBase /\ q.cpuBase = k.cpuBase
    BY DEF Closed, Slot
  <1>3. q.open = k.open \ m
    BY DEF Closed, Slot
  <1>4. q.wallUsed = IF "wall" \in m THEN WallSpent(k, c) ELSE k.wallUsed
    BY DEF Closed, Slot
  <1>5. q.cpuUsed = IF "cpu" \in m /\ ~CpuLost(k, c) THEN CpuSpent(k, c) ELSE k.cpuUsed
    BY DEF Closed, Slot
  <1>6. m = mask \cap k.open
    OBVIOUS
  <1>7. "wall" \in k.open => Elapsed(c.wall, k.wallBase) = c.wall - k.wallBase
    BY <1>1 DEF Elapsed
  <1>8. "cpu" \in k.open => Elapsed(c.cpu, k.cpuBase) = c.cpu - k.cpuBase
                             /\ c.cpu - k.cpuBase \in Nat
    BY <1>1 DEF Elapsed
  <1> HIDE DEF q, m
  <1>9. WallRun(q, c) = WallRun(k, c)
    <2>1. CASE "wall" \in m
      <3>1. "wall" \in k.open /\ "wall" \notin q.open /\ q.wallUsed = WallSpent(k, c)
        BY <1>3, <1>4, <1>6, <2>1
      <3>2. WallSpent(k, c) = k.wallUsed + (c.wall - k.wallBase)
        BY <1>7, <3>1 DEF WallSpent
      <3> QED
        BY <1>1, <3>1, <3>2 DEF WallRun
    <2>2. CASE "wall" \notin m
      <3>1. ("wall" \in k.open) = ("wall" \in q.open) /\ q.wallUsed = k.wallUsed
        BY <1>3, <1>4, <2>2
      <3> QED
        BY <1>2, <3>1 DEF WallRun
    <2> QED
      BY <2>1, <2>2
  <1>10. CpuRun(q, c) <= CpuRun(k, c) /\ (c.readable => CpuRun(q, c) = CpuRun(k, c))
    <2>1. CASE "cpu" \in m /\ c.readable
      <3>1. "cpu" \in k.open /\ "cpu" \notin q.open /\ k.clockOk
        BY <1>3, <1>6, <2>1
      <3>2. q.cpuUsed = CpuSpent(k, c) /\ CpuSpent(k, c) = k.cpuUsed + (c.cpu - k.cpuBase)
        BY <1>5, <1>8, <2>1, <3>1 DEF CpuLost, CpuSpent
      <3>3. CpuRun(q, c) = k.cpuUsed + (c.cpu - k.cpuBase) + 0
        BY <3>1, <3>2 DEF CpuRun
      <3>4. CpuRun(k, c) = k.cpuUsed + (c.cpu - k.cpuBase)
        BY <3>1 DEF CpuRun
      <3> QED
        BY <1>1, <1>8, <3>1, <3>3, <3>4
    <2>2. CASE "cpu" \in m /\ ~c.readable
      <3>1. "cpu" \in k.open /\ "cpu" \notin q.open /\ k.clockOk
        BY <1>3, <1>6, <2>2
      <3>2. q.cpuUsed = k.cpuUsed
        BY <1>5, <2>2, <3>1 DEF CpuLost
      <3>3. CpuRun(q, c) = k.cpuUsed + 0 /\ CpuRun(k, c) = k.cpuUsed + (c.cpu - k.cpuBase)
        BY <3>1, <3>2 DEF CpuRun
      <3> QED
        BY <1>1, <1>8, <2>2, <3>1, <3>3
    <2>3. CASE "cpu" \notin m
      <3>1. ("cpu" \in k.open) = ("cpu" \in q.open) /\ q.cpuUsed = k.cpuUsed
        BY <1>3, <1>5, <2>3
      <3>2. CpuRun(q, c) = CpuRun(k, c)
        BY <1>2, <3>1 DEF CpuRun
      <3>3. CpuRun(k, c) \in Int
        BY <1>1 DEF CpuRun
      <3> QED
        BY <3>2, <3>3
    <2> QED
      BY <2>1, <2>2, <2>3
  <1>11. q.open = k.open \ mask
    BY <1>3, <1>6
  <1> QED
    BY <1>2, <1>9, <1>10, <1>11 DEF q

\* Two records that measure alike.
SameClocks(r, q) ==
  /\ q.open = r.open /\ q.paused = r.paused /\ q.armed = r.armed
  /\ q.clockOk = r.clockOk /\ q.cpuOpenFailed = r.cpuOpenFailed
  /\ q.wallBase = r.wallBase /\ q.cpuBase = r.cpuBase
  /\ q.wallUsed = r.wallUsed /\ q.cpuUsed = r.cpuUsed

\* What says nothing about time changes no bill.
LEMMA SameClocksInHand ==
  ASSUME NEW r, NEW q \in Slot, NEW c, NEW l, SameClocks(r, q), InHand(r, c, l)
  PROVE  InHand(q, c, l)
  <1>1. WallRun(q, c) = WallRun(r, c) /\ CpuRun(q, c) = CpuRun(r, c)
    BY DEF SameClocks, WallRun, CpuRun
  <1> QED
    BY <1>1 DEF InHand, Sampling, Agrees, SameClocks

\* Stamping, leaving the heap, and setting a limit say nothing about time.
LEMMA StampedClocks ==
  ASSUME NEW r \in Slot, NEW d
  PROVE  SameClocks(r, Stamped(r, d))
BY DEF Stamped, SameClocks, Slot

\* So does the entry's leaving the heap.
LEMMA UnqueuedClocks ==
  ASSUME NEW r \in Slot
  PROVE  SameClocks(r, [r EXCEPT !.queued = FALSE])
BY DEF SameClocks, Slot

\* So do the setters.
LEMMA LimitClocks ==
  ASSUME NEW r \in Slot, NEW ns, NEW coarse
  PROVE  /\ SameClocks(r, WithCpuLimit(r, ns, coarse))
         /\ SameClocks(r, WithWallLimit(r, ns))
BY DEF WithCpuLimit, WithWallLimit, SameClocks, Slot

\* A slot just acquired has spent nothing.
LEMMA AcquiredInHand ==
  ASSUME NEW r \in Slot, NEW o \in Owners, NEW captured \in BOOLEAN,
         NEW c \in Clock, NEW l \in Account,
         l.cpu = 0, l.wall = 0, l.clean => captured /\ c.readable
  PROVE  InHand(Acquired(r, o, captured), c, l)
  <1> DEFINE q == Acquired(r, o, captured)
  <1>1. q \in Slot
    BY AcquiredType
  <1>2. /\ q.open = {} /\ q.paused = {} /\ q.armed = FALSE /\ q.clockOk = captured
        /\ q.cpuOpenFailed = FALSE /\ q.wallUsed = 0 /\ q.cpuUsed = 0
    BY DEF Acquired, BlankSlot
  <1> HIDE DEF q
  <1>3. WallRun(q, c) = 0 /\ CpuRun(q, c) = 0
    BY <1>2 DEF WallRun, CpuRun
  <1> QED
    BY <1>1, <1>2, <1>3 DEF InHand, Sampling, Agrees, q

\* luaext_watchdog_arm begins a call and bills nothing for it yet.
LEMMA ArmedInHand ==
  ASSUME NEW r, NEW c \in Clock, NEW l \in Account, InHand(r, c, l), ~r.armed
  PROVE  InHand(Armed(r, c), c, l)
  <1> DEFINE k == [r EXCEPT !.armed = TRUE, !.open = {}]
  <1>1. r \in Slot /\ r.open = {}
    BY DEF InHand, Sampling
  <1>2. /\ k \in Slot /\ k.open = {} /\ k.armed = TRUE
        /\ k.paused = r.paused /\ k.clockOk = r.clockOk /\ k.cpuOpenFailed = r.cpuOpenFailed
        /\ k.wallBase = r.wallBase /\ k.cpuBase = r.cpuBase
        /\ k.wallUsed = r.wallUsed /\ k.cpuUsed = r.cpuUsed
    BY <1>1 DEF Slot
  <1>3. Armed(r, c) = Opened(k, Segments, c)
    BY DEF Armed
  <1> HIDE DEF k
  <1>4. WallRun(k, c) = WallRun(r, c) /\ CpuRun(k, c) = CpuRun(r, c)
    BY <1>1, <1>2 DEF WallRun, CpuRun
  <1>5. Agrees(k, c, l)
    BY <1>2, <1>4 DEF InHand, Agrees
  <1>6. Openable(k, Segments, c)
    BY <1>2 DEF Openable, Segments
  <1>7. Segments \in SUBSET Segments
    OBVIOUS
  <1> QED
    BY <1>2, <1>3, <1>5, <1>6, <1>7, OpenedInHand

\* luaext_watchdog_resume reopens what was paused.
LEMMA ResumedForInHand ==
  ASSUME NEW r, NEW mask \in SUBSET Segments, NEW c \in Clock, NEW l \in Account,
         InHand(r, c, l), r.armed
  PROVE  InHand(ResumedFor(r, mask, c), c, l)
  <1> DEFINE k == [r EXCEPT !.paused = @ \ mask]
  <1>1. r \in Slot
    BY DEF InHand
  <1>2. /\ k \in Slot /\ k.open = r.open /\ k.armed = r.armed
        /\ k.paused = r.paused \ mask /\ k.clockOk = r.clockOk
        /\ k.cpuOpenFailed = r.cpuOpenFailed
        /\ k.wallBase = r.wallBase /\ k.cpuBase = r.cpuBase
        /\ k.wallUsed = r.wallUsed /\ k.cpuUsed = r.cpuUsed
    BY <1>1 DEF Slot
  <1>3. ResumedFor(r, mask, c) = Opened(k, mask, c)
    BY DEF ResumedFor
  <1> HIDE DEF k
  <1>4. WallRun(k, c) = WallRun(r, c) /\ CpuRun(k, c) = CpuRun(r, c)
    BY <1>2 DEF WallRun, CpuRun
  <1>5. Agrees(k, c, l)
    BY <1>2, <1>4 DEF InHand, Agrees
  <1>6. Openable(k, mask, c)
    <2>1. Sampling(r, c)
      BY DEF InHand
    <2>2. k.open \cap k.paused = {} /\ k.armed
      BY <1>2, <2>1 DEF Sampling
    <2>3. "wall" \in k.open \cup k.paused \cup mask
      BY <1>2, <2>1 DEF Sampling
    <2>4. k.clockOk => "cpu" \in k.open \cup k.paused \cup mask \/ k.cpuOpenFailed
      BY <1>2, <2>1 DEF Sampling
    <2> QED
      BY <1>2, <2>1, <2>2, <2>3, <2>4 DEF Openable, Sampling
  <1> QED
    BY <1>2, <1>3, <1>5, <1>6, OpenedInHand

\* luaext_watchdog_pause banks what it stops.
LEMMA PausedForInHand ==
  ASSUME NEW r, NEW mask \in SUBSET Segments, NEW c \in Clock, NEW l \in Account,
         InHand(r, c, l)
  PROVE  InHand(PausedFor(r, mask, c), c, l)
  <1> DEFINE k == [r EXCEPT !.paused = @ \cup mask]
             q == Closed(k, mask, c)
  <1>1. r \in Slot /\ Sampling(r, c) /\ Agrees(r, c, l)
    BY DEF InHand
  <1>2. /\ k \in Slot /\ k.open = r.open /\ k.armed = r.armed
        /\ k.paused = r.paused \cup mask /\ k.clockOk = r.clockOk
        /\ k.cpuOpenFailed = r.cpuOpenFailed
        /\ k.wallBase = r.wallBase /\ k.cpuBase = r.cpuBase
        /\ k.wallUsed = r.wallUsed /\ k.cpuUsed = r.cpuUsed
    BY <1>1 DEF Slot
  <1>3. PausedFor(r, mask, c) = q
    BY DEF PausedFor
  <1> HIDE DEF k
  <1>4. WallRun(k, c) = WallRun(r, c) /\ CpuRun(k, c) = CpuRun(r, c)
    BY <1>2 DEF WallRun, CpuRun
  <1>5. q \in Slot
    BY <1>2, ClosedType
  <1>6. /\ q.open = k.open \ mask
        /\ q.paused = k.paused /\ q.armed = k.armed /\ q.clockOk = k.clockOk
        /\ q.cpuOpenFailed = k.cpuOpenFailed
        /\ q.wallBase = k.wallBase /\ q.cpuBase = k.cpuBase
        /\ WallRun(q, c) = WallRun(k, c)
        /\ CpuRun(q, c) <= CpuRun(k, c)
        /\ c.readable => CpuRun(q, c) = CpuRun(k, c)
    BY <1>1, <1>2, ClosedRuns DEF Sampling
  <1> HIDE DEF q
  <1>7. Sampling(q, c)
    BY <1>1, <1>2, <1>6 DEF Sampling
  <1>8. Agrees(q, c, l)
    <2>1. CpuRun(r, c) \in Nat /\ CpuRun(r, c) <= l.cpu /\ l.cpu \in Nat
      BY <1>1, SampledIsRun DEF Agrees, Account
    <2>2. CpuRun(q, c) \in Nat
      BY <1>5, <1>7, SampledIsRun
    <2>3. CpuRun(q, c) <= l.cpu
      BY <1>4, <1>6, <2>1, <2>2
    <2> QED
      BY <1>1, <1>2, <1>4, <1>6, <2>3 DEF Agrees
  <1> QED
    BY <1>3, <1>5, <1>7, <1>8 DEF InHand

\* luaext_watchdog_disarm banks everything.
LEMMA DisarmedInHand ==
  ASSUME NEW r, NEW c \in Clock, NEW l \in Account, InHand(r, c, l)
  PROVE  InHand(Disarmed(r, c), c, l)
  <1> DEFINE k == Closed(r, Segments, c)
             q == [k EXCEPT !.armed = FALSE, !.paused = {}, !.cpuOpenFailed = FALSE]
  <1>1. r \in Slot /\ Sampling(r, c) /\ Agrees(r, c, l) /\ Segments \in SUBSET Segments
    BY DEF InHand
  <1>2. k \in Slot
    BY <1>1, ClosedType
  <1>3. /\ k.open = r.open \ Segments /\ k.clockOk = r.clockOk
        /\ WallRun(k, c) = WallRun(r, c)
        /\ CpuRun(k, c) <= CpuRun(r, c)
        /\ c.readable => CpuRun(k, c) = CpuRun(r, c)
    BY <1>1, ClosedRuns DEF Sampling
  <1>4. Disarmed(r, c) = q
    BY DEF Disarmed
  <1> HIDE DEF k
  <1>5. /\ q \in Slot /\ q.armed = FALSE /\ q.paused = {} /\ q.cpuOpenFailed = FALSE
        /\ q.open = k.open /\ q.clockOk = k.clockOk /\ q.wallBase = k.wallBase
        /\ q.cpuBase = k.cpuBase /\ q.wallUsed = k.wallUsed /\ q.cpuUsed = k.cpuUsed
    BY <1>2 DEF Slot
  <1> HIDE DEF q
  <1>6. q.open = {}
    BY <1>1, <1>3, <1>5 DEF Slot
  <1>7. WallRun(q, c) = WallRun(k, c) /\ CpuRun(q, c) = CpuRun(k, c)
    BY <1>5 DEF WallRun, CpuRun
  <1>8. Sampling(q, c)
    BY <1>5, <1>6 DEF Sampling
  <1>9. Agrees(q, c, l)
    <2>1. CpuRun(r, c) \in Nat /\ CpuRun(r, c) <= l.cpu /\ l.cpu \in Nat
      BY <1>1, SampledIsRun DEF Agrees, Account
    <2>2. CpuRun(q, c) \in Nat
      BY <1>5, <1>8, SampledIsRun
    <2>3. CpuRun(q, c) <= l.cpu
      BY <1>3, <1>7, <2>1, <2>2
    <2> QED
      BY <1>1, <1>3, <1>5, <1>7, <2>3 DEF Agrees
  <1> QED
    BY <1>4, <1>5, <1>8, <1>9 DEF InHand

\* Time passes for the slot and for the account alike.
LEMMA TickInHand ==
  ASSUME NEW r, NEW c \in Clock, NEW l \in Account, InHand(r, c, l),
         NEW d \in Clock, NEW k \in Account, NEW ran \in BOOLEAN,
         d.wall = c.wall + 1, d.cpu = IF ran THEN c.cpu + 1 ELSE c.cpu,
         d.readable = c.readable, k.clean = l.clean,
         k.wall = IF r.armed /\ "wall" \notin r.paused THEN l.wall + 1 ELSE l.wall,
         k.cpu = IF (r.armed /\ "cpu" \notin r.paused) /\ ran THEN l.cpu + 1 ELSE l.cpu
  PROVE  InHand(r, d, k)
  <1>1. /\ c.cpu \in Nat /\ c.wall \in Nat /\ r.cpuUsed \in Nat /\ r.wallUsed \in Nat
        /\ r.cpuBase \in Nat /\ r.wallBase \in Nat /\ l.cpu \in Nat /\ l.wall \in Nat
        /\ r \in Slot /\ Sampling(r, c) /\ Agrees(r, c, l)
    BY DEF Clock, Slot, InHand, Account
  <1>2. "wall" \in r.open <=> r.armed /\ "wall" \notin r.paused
    BY <1>1 DEF Sampling
  <1>3. "cpu" \in r.open => r.armed /\ "cpu" \notin r.paused
    BY <1>1 DEF Sampling
  <1>4. l.clean /\ r.armed /\ "cpu" \notin r.paused => "cpu" \in r.open
    BY <1>1 DEF Sampling, Agrees
  <1>5. Sampling(r, d)
    <2>1. "wall" \in r.open => r.wallBase <= d.wall
      BY <1>1 DEF Sampling
    <2>2. "cpu" \in r.open => r.clockOk /\ r.cpuBase <= d.cpu
      BY <1>1 DEF Sampling
    <2> QED
      BY <1>1, <2>1, <2>2 DEF Sampling
  <1>6. WallRun(r, d) = k.wall
    <2>1. WallRun(r, c) = l.wall
      BY <1>1 DEF Agrees
    <2> QED
      BY <1>1, <1>2, <2>1 DEF WallRun
  <1>7. CpuRun(r, d) = IF "cpu" \in r.open /\ ran THEN CpuRun(r, c) + 1 ELSE CpuRun(r, c)
    BY <1>1 DEF CpuRun
  <1>8. CpuRun(r, c) \in Nat /\ CpuRun(r, c) <= l.cpu /\ (l.clean => CpuRun(r, c) = l.cpu)
    BY <1>1, SampledIsRun DEF Agrees
  <1>9. CpuRun(r, d) <= k.cpu
    BY <1>1, <1>3, <1>7, <1>8
  <1>10. k.clean => CpuRun(r, d) = k.cpu
    BY <1>3, <1>4, <1>7, <1>8
  <1> QED
    BY <1>1, <1>5, <1>6, <1>9, <1>10 DEF InHand, Agrees

\* While the account is clean, a deadline lies the floor ahead at least, or at
\* the instant that never comes.
LEMMA DeadlineAhead ==
  ASSUME NEW r, NEW c \in Clock, NEW l, InHand(r, c, l), l.clean
  PROVE  Deadline(r, c) \in {U64Max} \cup c.wall + Floor .. U64Max
  <1>1. r \in Slot /\ c.wall \in Nat /\ c.readable
    BY DEF InHand, Agrees, Clock
  <1>2. ~CpuLost(r, c)
    BY <1>1 DEF CpuLost
  <1>3. Raised(Remaining(r, c)) \in Nat /\ Raised(Remaining(r, c)) >= Floor
    BY <1>1, RemainingType, WatchSlotAssumption DEF Raised
  <1>4. Deadline(r, c) = SaturatedAdd(c.wall, Raised(Remaining(r, c)))
    BY <1>2 DEF Deadline
  <1> QED
    BY <1>1, <1>3, <1>4, WatchSlotAssumption DEF SaturatedAdd

-----------------------------------------------------------------------------
(* When a slot falls due, and that nothing but a limit brings it nearer    *)

\* What the three budgets leave, and the instant the tightest runs out at: the
\* deadline as a clock that answers would give it.
CpuLeft(r, c)    == BudgetLeft("cpu" \in r.open, r.cpuLimit, CpuRun(r, c))
CoarseLeft(r, c) == BudgetLeft("wall" \in r.open, r.cpuWallLimit, WallRun(r, c))
WallLeft(r, c)   == BudgetLeft("wall" \in r.open, r.wallLimit, WallRun(r, c))

Left(r, c) == Lesser(CpuLeft(r, c), Lesser(CoarseLeft(r, c), WallLeft(r, c)))
Due(r, c)  == SaturatedAdd(c.wall, Raised(Left(r, c)))

\* All of these are quantities of time.
LEMMA LeftType ==
  ASSUME NEW r \in Slot, NEW c \in Clock, Sampling(r, c)
  PROVE  /\ CpuLeft(r, c) \in Nat /\ CoarseLeft(r, c) \in Nat /\ WallLeft(r, c) \in Nat
         /\ Left(r, c) \in Nat /\ Raised(Left(r, c)) \in Nat /\ Due(r, c) \in Nat
         /\ Due(r, c) <= U64Max
  <1>1. r.cpuLimit \in Nat /\ r.cpuWallLimit \in Nat /\ r.wallLimit \in Nat /\ c.wall \in Nat
    BY DEF Slot, Clock
  <1>2. CpuRun(r, c) \in Nat /\ WallRun(r, c) \in Nat
    BY SampledIsRun
  <1>3. CpuLeft(r, c) \in Nat /\ CoarseLeft(r, c) \in Nat /\ WallLeft(r, c) \in Nat
    BY <1>1, <1>2, BudgetLeftType DEF CpuLeft, CoarseLeft, WallLeft
  <1>4. Left(r, c) \in Nat
    BY <1>3 DEF Left, Lesser
  <1>5. Raised(Left(r, c)) \in Nat
    BY <1>4, WatchSlotAssumption DEF Raised
  <1> QED
    BY <1>1, <1>3, <1>4, <1>5, WatchSlotAssumption DEF Due, SaturatedAdd

\* While the clock answers, that is the deadline.
LEMMA DeadlineIsDue ==
  ASSUME NEW r \in Slot, NEW c \in Clock, Sampling(r, c), ~CpuLost(r, c)
  PROVE  Deadline(r, c) = Due(r, c) /\ Remaining(r, c) = Left(r, c)
  <1>1. WallSpent(r, c) = WallRun(r, c)
    BY SampledIsRun
  <1>2. CpuLeft(r, c) = BudgetLeft("cpu" \in r.open, r.cpuLimit, CpuSpent(r, c))
    <2>1. CASE "cpu" \in r.open
      <3>1. c.readable
        BY <2>1 DEF Sampling, CpuLost
      <3> QED
        BY <3>1, SampledIsRun DEF CpuLeft
    <2>2. CASE "cpu" \notin r.open
      BY <2>2 DEF CpuLeft, BudgetLeft
    <2> QED
      BY <2>1, <2>2
  <1>3. Remaining(r, c) = Left(r, c)
    BY <1>1, <1>2 DEF Remaining, Left, CoarseLeft, WallLeft
  <1> QED
    BY <1>3 DEF Deadline, Due

\* A slot that falls due has a deadline to publish.
LEMMA DueIsDeadline ==
  ASSUME NEW r \in Slot, NEW c \in Clock, Sampling(r, c), Due(r, c) < U64Max
  PROVE  /\ r.open # {} /\ r.armed /\ Left(r, c) # U64Max
         /\ ~CpuLost(r, c) /\ r.irq # NoIrq => HasDeadline(r, c)
  <1>1. c.wall \in Nat /\ Left(r, c) \in Nat
    BY LeftType DEF Clock
  <1>2. Left(r, c) # U64Max
    BY <1>1, WatchSlotAssumption DEF Due, SaturatedAdd, Raised
  <1>3. r.open # {}
    <2>1. r.open = {} => Left(r, c) = U64Max
      BY DEF Left, CpuLeft, CoarseLeft, WallLeft, BudgetLeft, Lesser
    <2> QED
      BY <1>2, <2>1
  <1>4. r.armed
    BY <1>3 DEF Sampling
  <1>5. ~CpuLost(r, c) => Remaining(r, c) # U64Max
    BY <1>2, DeadlineIsDue
  <1> QED
    BY <1>2, <1>3, <1>4, <1>5 DEF HasDeadline

\* y, reckoned d later, runs out no earlier than x, or never does.
NoSooner(x, y, d) == x <= y + d \/ y >= U64Max

\* That carries over to the tightest budget,
LEMMA LesserNoSooner ==
  ASSUME NEW a \in Nat, NEW b \in Nat, NEW x \in Nat, NEW y \in Nat, NEW d \in Nat,
         NoSooner(a, x, d), NoSooner(b, y, d)
  PROVE  NoSooner(Lesser(a, b), Lesser(x, y), d)
BY WatchSlotAssumption DEF NoSooner, Lesser

\* and to the deadline.
LEMMA AddNoSooner ==
  ASSUME NEW x \in Nat, NEW y \in Nat, NEW d \in Nat, NoSooner(x, y, d), NEW w \in Nat
  PROVE  SaturatedAdd(w, Raised(x)) <= SaturatedAdd(w + d, Raised(y))
BY WatchSlotAssumption DEF NoSooner, SaturatedAdd, Raised

\* Time that passes, and segments that are closed, bring nothing nearer.
LEMMA DueNoSooner ==
  ASSUME NEW r \in Slot, NEW q \in Slot, NEW c \in Clock, NEW e \in Clock, NEW d \in Nat,
         Sampling(r, c), Sampling(q, e), e.wall = c.wall + d, SameLimits(r, q),
         q.open \subseteq r.open,
         "wall" \in q.open => WallRun(q, e) <= WallRun(r, c) + d,
         "cpu" \in q.open => CpuRun(q, e) <= CpuRun(r, c) + d
  PROVE  Due(r, c) <= Due(q, e)
  <1>1. /\ CpuRun(r, c) \in Nat /\ WallRun(r, c) \in Nat
        /\ CpuRun(q, e) \in Nat /\ WallRun(q, e) \in Nat
        /\ r.cpuLimit \in Nat /\ r.cpuWallLimit \in Nat /\ r.wallLimit \in Nat
        /\ c.wall \in Nat
    BY SampledIsRun DEF Slot, Clock
  <1>2. /\ q.cpuLimit = r.cpuLimit /\ q.wallLimit = r.wallLimit
        /\ q.cpuWallLimit = r.cpuWallLimit
    BY DEF SameLimits
  <1>3. NoSooner(CpuLeft(r, c), CpuLeft(q, e), d)
    BY <1>1, <1>2, WatchSlotAssumption DEF CpuLeft, NoSooner, BudgetLeft
  <1>4. NoSooner(CoarseLeft(r, c), CoarseLeft(q, e), d)
    BY <1>1, <1>2, WatchSlotAssumption DEF CoarseLeft, NoSooner, BudgetLeft
  <1>5. NoSooner(WallLeft(r, c), WallLeft(q, e), d)
    BY <1>1, <1>2, WatchSlotAssumption DEF WallLeft, NoSooner, BudgetLeft
  <1>6. /\ CpuLeft(r, c) \in Nat /\ CoarseLeft(r, c) \in Nat /\ WallLeft(r, c) \in Nat
        /\ Left(r, c) \in Nat
        /\ CpuLeft(q, e) \in Nat /\ CoarseLeft(q, e) \in Nat /\ WallLeft(q, e) \in Nat
        /\ Left(q, e) \in Nat
    BY LeftType
  <1>7. NoSooner(Lesser(CoarseLeft(r, c), WallLeft(r, c)),
                 Lesser(CoarseLeft(q, e), WallLeft(q, e)), d)
    BY <1>4, <1>5, <1>6, LesserNoSooner
  <1>8. /\ Lesser(CoarseLeft(r, c), WallLeft(r, c)) \in Nat
        /\ Lesser(CoarseLeft(q, e), WallLeft(q, e)) \in Nat
    BY <1>6 DEF Lesser
  <1>9. NoSooner(Left(r, c), Left(q, e), d)
    BY <1>3, <1>6, <1>7, <1>8, LesserNoSooner DEF Left
  <1>10. SaturatedAdd(c.wall, Raised(Left(r, c))) <= SaturatedAdd(c.wall + d, Raised(Left(q, e)))
    BY <1>1, <1>6, <1>9, AddNoSooner
  <1> QED
    BY <1>10 DEF Due

\* What a pause leaves open has run no further than before.
PausedRuns(r, mask, c) ==
  LET q == PausedFor(r, mask, c) IN
  /\ q.open \subseteq r.open
  /\ WallRun(q, c) = WallRun(r, c) /\ CpuRun(q, c) <= CpuRun(r, c)

\* luaext_watchdog_pause closes segments and opens none.
LEMMA PausedForRuns ==
  ASSUME NEW r \in Slot, NEW mask \in SUBSET Segments, NEW c \in Clock, Sampling(r, c)
  PROVE  PausedRuns(r, mask, c)
  <1> DEFINE k == [r EXCEPT !.paused = @ \cup mask]
             q == Closed(k, mask, c)
  <1>1. /\ k \in Slot /\ k.open = r.open /\ k.clockOk = r.clockOk
        /\ k.wallBase = r.wallBase /\ k.cpuBase = r.cpuBase
        /\ k.wallUsed = r.wallUsed /\ k.cpuUsed = r.cpuUsed
    BY DEF Slot
  <1>2. PausedFor(r, mask, c) = q
    BY DEF PausedFor
  <1> HIDE DEF k
  <1>3. WallRun(k, c) = WallRun(r, c) /\ CpuRun(k, c) = CpuRun(r, c)
    BY <1>1 DEF WallRun, CpuRun
  <1>4. /\ q.open = k.open \ mask
        /\ WallRun(q, c) = WallRun(k, c) /\ CpuRun(q, c) <= CpuRun(k, c)
    BY <1>1, ClosedRuns DEF Sampling
  <1> HIDE DEF q
  <1> QED
    BY <1>1, <1>2, <1>3, <1>4 DEF PausedRuns

\* luaext_watchdog_disarm leaves none open.
LEMMA DisarmedIsShut ==
  ASSUME NEW r \in Slot, NEW c \in Clock, Sampling(r, c)
  PROVE  Disarmed(r, c).open = {}
  <1>1. Segments \in SUBSET Segments /\ r.open \subseteq Segments
    BY DEF Slot
  <1>2. Closed(r, Segments, c).open = r.open \ Segments /\ Closed(r, Segments, c) \in Slot
    BY <1>1, ClosedType, ClosedRuns DEF Sampling
  <1>3. Disarmed(r, c).open = Closed(r, Segments, c).open
    BY <1>2 DEF Disarmed, Slot
  <1> QED
    BY <1>1, <1>2, <1>3
=============================================================================
