--------------------------- MODULE WatchdogProofs ---------------------------
(***************************************************************************)
(* Theorems about module Watchdog, for every set of owners and slots,      *)
(* every set of limits, and without any bound on time, calls or module     *)
(* lifetimes but the constants' own.                                       *)
(*                                                                         *)
(* Everything rests on Typed: the types, and who holds which slot.  On it  *)
(* stand what the thread and the module owe each other; Quiescence, which  *)
(* keeps a flag inside its call; EnforcerInv, that a limit comes after the *)
(* attempt to start what enforces it; BillInv, that what a slot has in     *)
(* hand is what its owner ran, from which every step that trips, samples   *)
(* or returns is judged; and CoverInv, that queued tells the truth about   *)
(* the heap and what is queued comes due no later than the slot trips.     *)
(***************************************************************************)
EXTENDS Watchdog, WatchSlotProofs

USE WatchSlotAssumption, WatchdogAssumption, NoEntryAssumption

Holding(o) == own[o].slot # NoSlot

\* Who holds which slot: an owner between acquire and release, and nobody else;
\* the slot's irq pointer says so, and the free list does not offer it.
Tenancy ==
  /\ \A o \in Owners : Holding(o) <=> own[o].step # "none"
  /\ \A o \in Owners : Holding(o) =>
       own[o].slot \notin free /\ slots[own[o].slot].irq = o
  /\ \A s \in Slots : slots[s].irq \in Owners => own[slots[s].irq].slot = s
  /\ \A o \in Owners : own[o].step = "publish" => own[o].entry \in Entry
  /\ \A o \in Owners : Holding(o) => module.phase = "up"

Typed == TypeOK /\ Tenancy

-----------------------------------------------------------------------------
(* Reading the state                                                       *)

\* A reading of the clocks, of whichever thread, is a reading.
LEMMA ClockOfType ==
  ASSUME TypeOK, NEW p
  PROVE  ClockOf(p) \in Clock
BY DEF TypeOK, ClockOf, Clock

\* An owner past attach and before detach has a slot of the pool, and is its tenant.
LEMMA SlotOfType ==
  ASSUME Typed, NEW o \in Owners, own[o].step # "none"
  PROVE  /\ own[o].slot \in Slots
         /\ SlotOf(o) \in Slot
         /\ SlotOf(o).irq = o
BY DEF Typed, TypeOK, Tenancy, Holding, SlotOf, Place

\* What a stamped record is published with is a heap entry.
LEMMA EntryForType ==
  ASSUME NEW s \in Slots, NEW r \in Slot
  PROVE  EntryFor(s, r) \in Entry
BY DEF EntryFor, Entry, Slot

\* luaext_watch_raise leaves a reason in the flag.
LEMMA RaiseType ==
  ASSUME TypeOK, NEW p, NEW reason \in Reasons
  PROVE  Raise(p, reason) \in [Owners -> Flag]
BY DEF Raise, TypeOK, Flag

\* luaext_cond_signal does not move the thread.
LEMMA SignalledType ==
  ASSUME TypeOK
  PROVE  /\ Signalled \in Watcher
         /\ Signalled.pc = thread.pc
  <1>1. (thread.signalled \/ thread.pc = "wait") \in BOOLEAN
    OBVIOUS
  <1> QED
    BY <1>1 DEF Signalled, TypeOK, Watcher

\* An owner that replaces the record of the slot it holds by one of the same
\* tenant, and moves on without letting the slot go, disturbs no tenancy.
LEMMA KeepsTenancy ==
  ASSUME Typed, NEW o \in Owners, own[o].step # "none",
         NEW r \in Slot, r.irq = o,
         slots' = [slots EXCEPT ![own[o].slot] = r],
         NEW w, own' = [own EXCEPT ![o] = w],
         w.slot = own[o].slot, w.step # "none",
         w.step = "publish" => w.entry \in Entry,
         UNCHANGED free, module'.phase = module.phase
  PROVE  Tenancy'
BY SlotOfType DEF Typed, TypeOK, Tenancy, Holding

\* Leaving a critical section with the slot at r, whatever is published.
LEMMA SettleTyped ==
  ASSUME Typed, NEW o \in Owners, own[o].step # "none",
         NEW r \in Slot, r.irq = o, NEW back \in {"out", "in"}, NEW cost \in {0, 1},
         Settle(o, r, back, cost),
         UNCHANGED <<free, heap, thread, module, clocks>>
  PROVE  Typed'
  <1> DEFINE c == ClockOf(o)
             publish == r.hasLimits /\ NeedsEntry(r, c)
             left == IF publish THEN Stamped(r, Deadline(r, c)) ELSE r
             w == [own[o] EXCEPT !.step = IF publish THEN "publish" ELSE back,
                                 !.back = IF publish THEN back ELSE "out",
                                 !.ops = @ + cost,
                                 !.entry = IF publish
                                           THEN EntryFor(own[o].slot, left) ELSE @]
  <1>1. c \in Clock /\ own[o].slot \in Slots
    BY ClockOfType, SlotOfType DEF Typed
  <1>2. left \in Slot /\ left.irq = o
    BY <1>1, DeadlineType, StampedType, StampedTicket
  <1>3. irq' \in [Owners -> Flag]
    <2>1. (IF r.hasLimits THEN Verdict(r, c) ELSE "none") \in Reasons
      BY <1>1, VerdictType DEF Reasons
    <2> QED
      BY <2>1, RaiseType DEF Settle, Typed
  <1>4. /\ slots' = [slots EXCEPT ![own[o].slot] = left]
        /\ own' = [own EXCEPT ![o] = w]
    BY DEF Settle
  <1>5. /\ w \in Place
        /\ w.slot = own[o].slot /\ w.step # "none"
        /\ w.step = "publish" => w.entry \in Entry
    <2>1. EntryFor(own[o].slot, left) \in Entry
      BY <1>1, <1>2, EntryForType
    <2>2. own[o] \in Place /\ own[o].ops + cost \in Nat
      BY DEF Typed, TypeOK, Place
    <2> HIDE DEF left, publish
    <2> QED
      BY <2>1, <2>2 DEF Steps, Place
  <1> HIDE DEF left, w
  <1>6. Tenancy'
    BY <1>2, <1>4, <1>5, KeepsTenancy
  <1>7. TypeOK'
    BY <1>2, <1>3, <1>4, <1>5 DEF Typed, TypeOK, clocks
  <1> QED
    BY <1>6, <1>7 DEF Typed

-----------------------------------------------------------------------------
(* One lemma per action: every step keeps Typed                            *)

\* luaext_timers_attach takes a slot off the free list that no sandbox holds.
LEMMA AcquireTyped == ASSUME Typed, NEW o \in Owners, Acquire(o) PROVE Typed'
  <1>1. PICK s \in free, captured \in {TRUE, ~CaptureMayFail} :
          /\ slots' = [slots EXCEPT ![s] = Acquired(@, o, captured)]
          /\ free' = free \ {s}
          /\ own' = [own EXCEPT ![o] = [Idle EXCEPT !.slot = s, !.step = "out",
                                                    !.ops = own[o].ops + 1]]
          /\ ledger' = [ledger EXCEPT ![o] =
                          [Fresh EXCEPT !.clean = captured /\ readable[o]]]
    BY DEF Acquire
  <1> DEFINE r == Acquired(slots[s], o, captured)
             w == [Idle EXCEPT !.slot = s, !.step = "out", !.ops = own[o].ops + 1]
  <1>2. s \in Slots /\ captured \in BOOLEAN /\ slots[s] \in Slot
    BY DEF Typed, TypeOK
  <1>3. r \in Slot /\ r.irq = o
    BY <1>2, AcquiredType DEF Acquired, BlankSlot
  <1>4. /\ w \in Place
        /\ w.slot = s /\ w.step = "out"
    <2>1. own[o].ops + 1 \in Nat
      BY DEF Typed, TypeOK, Place
    <2> QED
      BY <1>2, <2>1 DEF Idle, Steps, Segments, Place
  <1>5. ledger' \in [Owners -> [cpu : Nat, wall : Nat, clean : BOOLEAN]]
    BY <1>1, <1>2 DEF Typed, TypeOK, Fresh
  <1>6. irq' \in [Owners -> Flag]
    BY DEF Acquire, Typed, TypeOK, Reasons, Flag
  <1>7. /\ own' = [own EXCEPT ![o] = w] /\ slots' = [slots EXCEPT ![s] = r]
        /\ free' \subseteq Slots
    BY <1>1 DEF Typed, TypeOK
  <1>8. own[o].step = "none" /\ own[o].slot = NoSlot /\ module.phase = "up"
    BY DEF Acquire, At, Typed, Tenancy, Holding
  <1>9. UNCHANGED <<heap, thread, module, now, cpu, readable>>
    BY DEF Acquire
  <1> HIDE DEF r, w
  <1>10. TypeOK'
    BY <1>2, <1>3, <1>4, <1>5, <1>6, <1>7, <1>9 DEF Typed, TypeOK
  <1>11. Tenancy'
    <2>1. \A p \in Owners : p # o => own'[p] = own[p]
      BY <1>7 DEF Typed, TypeOK
    <2>2. own'[o] = w /\ slots'[s] = r /\ \A q \in Slots : q # s => slots'[q] = slots[q]
      BY <1>2, <1>7 DEF Typed, TypeOK
    <2>3. \A p \in Owners : Holding(p) => own[p].slot # s
      BY <1>1 DEF Typed, Tenancy
    <2> QED
      BY <1>1, <1>2, <1>3, <1>4, <1>8, <1>9, <2>1, <2>2, <2>3
         DEF Typed, TypeOK, Tenancy, Holding
  <1> QED
    BY <1>10, <1>11 DEF Typed

\* luaext_timers_detach lets its slot go and clears the pointer to its flag.
LEMMA ReleaseTyped == ASSUME Typed, NEW o \in Owners, Release(o) PROVE Typed'
  <1> DEFINE s == own[o].slot
             r == Released(slots[s])
             w == [Idle EXCEPT !.ops = own[o].ops]
  <1>1. own[o].step = "out" /\ s \in Slots /\ slots[s] \in Slot /\ Holding(o)
    BY SlotOfType DEF Release, At, SlotOf, Typed, Tenancy
  <1>2. r \in Slot /\ r.irq = NoIrq
    BY <1>1, ReleasedType DEF Released, Slot
  <1>3. /\ w \in Place
        /\ w.slot = NoSlot /\ w.step = "none"
    BY DEF Typed, TypeOK, Idle, Steps, Segments, Place
  <1>4. /\ slots' = [slots EXCEPT ![s] = r] /\ free' = free \cup {s}
        /\ own' = [own EXCEPT ![o] = w]
        /\ ledger' = [ledger EXCEPT ![o] = Fresh]
        /\ irq' = [irq EXCEPT ![o] = "abort"]
        /\ UNCHANGED <<heap, thread, module, now, cpu, readable>>
    BY DEF Release
  <1>5. TypeOK'
    <2>1. ledger' \in [Owners -> [cpu : Nat, wall : Nat, clean : BOOLEAN]]
      BY <1>4 DEF Typed, TypeOK, Fresh
    <2> HIDE DEF r, w, s
    <2> QED
      BY <1>1, <1>2, <1>3, <1>4, <2>1 DEF Typed, TypeOK, Flag
  <1>6. Tenancy'
    <2>1. \A p \in Owners : p # o => own'[p] = own[p]
      BY <1>4 DEF Typed, TypeOK
    <2>2. own'[o] = w /\ slots'[s] = r /\ \A q \in Slots : q # s => slots'[q] = slots[q]
      BY <1>1, <1>4 DEF Typed, TypeOK
    <2>3. \A p \in Owners : p # o /\ Holding(p) => own[p].slot # s
      BY <1>1 DEF Typed, Tenancy
    <2> HIDE DEF r, w
    <2> QED
      BY <1>1, <1>2, <1>3, <1>4, <2>1, <2>2, <2>3 DEF Typed, TypeOK, Tenancy, Holding
  <1> QED
    BY <1>5, <1>6 DEF Typed

\* The call of a limit setter.
LEMMA SetLimitTyped == ASSUME Typed, NEW o \in Owners, SetLimit(o) PROVE Typed'
  <1>1. PICK budget \in Segments, ns \in Limits :
          own' = [own EXCEPT ![o].step = IF ns = 0 THEN "write" ELSE "prime",
                             ![o].back = own[o].step, ![o].ops = @ + 1,
                             ![o].budget = budget, ![o].ns = ns]
    BY DEF SetLimit
  <1> DEFINE w == [own[o] EXCEPT !.step = IF ns = 0 THEN "write" ELSE "prime",
                                 !.back = own[o].step, !.ops = @ + 1,
                                 !.budget = budget, !.ns = ns]
  <1>2. own[o].step \in {"out", "in"} /\ own[o] \in Place /\ own[o].ops + 1 \in Nat
    BY DEF SetLimit, At, Typed, TypeOK, Place
  <1>3. w \in Place /\ w.slot = own[o].slot /\ w.step \in {"write", "prime"}
    BY <1>2 DEF Place, Steps
  <1>4. own' = [own EXCEPT ![o] = w]
    BY <1>1
  <1>5. UNCHANGED <<slots, free, irq, heap, thread, module, clocks>>
    BY DEF SetLimit
  <1> HIDE DEF w
  <1>6. TypeOK'
    BY <1>3, <1>4, <1>5 DEF Typed, TypeOK, clocks
  <1>7. Tenancy'
    <2>1. own[o].slot \in Slots /\ SlotOf(o) \in Slot /\ SlotOf(o).irq = o
      BY <1>2, SlotOfType
    <2>2. slots' = [slots EXCEPT ![own[o].slot] = SlotOf(o)]
      BY <1>5, <2>1 DEF SlotOf, Typed, TypeOK
    <2> QED
      BY <1>2, <1>3, <1>4, <1>5, <2>1, <2>2, KeepsTenancy
  <1> QED
    BY <1>6, <1>7 DEF Typed

\* An owner that moves on and touches no slot.
LEMMA MovesOnTyped ==
  ASSUME Typed, NEW o \in Owners, own[o].step # "none",
         NEW w \in Place, own' = [own EXCEPT ![o] = w],
         w.slot = own[o].slot, w.step \notin {"none", "publish"},
         UNCHANGED <<slots, free>>, heap' \subseteq Entry, irq' \in [Owners -> Flag],
         thread' \in Watcher, module' \in ModuleState, module'.phase = module.phase,
         UNCHANGED clocks
  PROVE  Typed'
  <1>1. own[o].slot \in Slots /\ SlotOf(o) \in Slot /\ SlotOf(o).irq = o
    BY SlotOfType
  <1>2. slots' = [slots EXCEPT ![own[o].slot] = SlotOf(o)]
    BY <1>1 DEF SlotOf, Typed, TypeOK
  <1>3. Tenancy'
    BY <1>1, <1>2, KeepsTenancy
  <1>4. TypeOK'
    BY DEF Typed, TypeOK, clocks
  <1> QED
    BY <1>3, <1>4 DEF Typed

\* An owner that replaces its slot's record, and moves on.
LEMMA RewritesTyped ==
  ASSUME Typed, NEW o \in Owners, own[o].step # "none",
         NEW r \in Slot, SameTicket(SlotOf(o), r),
         slots' = [slots EXCEPT ![own[o].slot] = r],
         NEW w \in Place, own' = [own EXCEPT ![o] = w],
         w.slot = own[o].slot, w.step \notin {"none", "publish"},
         UNCHANGED <<free, irq, heap, thread, module, clocks>>
  PROVE  Typed'
  <1>1. own[o].slot \in Slots /\ r.irq = o
    BY SlotOfType DEF SameTicket
  <1>2. Tenancy'
    BY <1>1, KeepsTenancy
  <1>3. TypeOK'
    BY <1>1 DEF Typed, TypeOK, clocks
  <1> QED
    BY <1>2, <1>3 DEF Typed

\* A setter goes back to where it was called.
LEMMA BackFromType ==
  ASSUME NEW w \in Place
  PROVE  /\ BackFrom(w) \in Place
         /\ BackFrom(w).slot = w.slot
         /\ BackFrom(w).step = w.back
         /\ w.back \in {"out", "in"}
         /\ BackFrom(w).entry = w.entry
BY DEF BackFrom, Place, Steps, Segments

\* The attempt to start the thread.
LEMMA PrimeTyped == ASSUME Typed, NEW o \in Owners, Prime(o) PROVE Typed'
  <1>1. PICK started \in IF module.once THEN {module.running}
                         ELSE {TRUE, ~ThreadMayFail} :
          /\ module' = [module EXCEPT !.once = TRUE, !.running = started,
                                      !.failed = ~started]
          /\ thread' = IF started /\ ~module.once
                       THEN [thread EXCEPT !.pc = "check"] ELSE thread
          /\ own' = [own EXCEPT ![o] =
               IF started \/ HookArmed
               THEN [own[o] EXCEPT !.hook = @ \/ ~started, !.step = "write"]
               ELSE BackFrom(own[o])]
    BY DEF Prime
  <1> DEFINE w == IF started \/ HookArmed
                  THEN [own[o] EXCEPT !.hook = @ \/ ~started, !.step = "write"]
                  ELSE BackFrom(own[o])
  <1>2. started \in BOOLEAN /\ own[o] \in Place /\ own[o].step = "prime"
    BY DEF Typed, TypeOK, ModuleState, Prime, At
  <1>3. w \in Place /\ w.slot = own[o].slot /\ w.step \notin {"none", "publish"}
    <2>1. (own[o].hook \/ ~started) \in BOOLEAN
      OBVIOUS
    <2> QED
      BY <1>2, <2>1, BackFromType DEF Place, Steps
  <1>4. own' = [own EXCEPT ![o] = w]
    BY <1>1
  <1>5. module' \in ModuleState /\ module'.phase = module.phase
    BY <1>1, <1>2 DEF Typed, TypeOK, ModuleState
  <1>6. thread' \in Watcher
    BY <1>1 DEF Typed, TypeOK, Watcher
  <1>7. /\ UNCHANGED <<slots, free>> /\ heap' \subseteq Entry
        /\ irq' \in [Owners -> Flag] /\ UNCHANGED clocks
    BY DEF Prime, Typed, TypeOK
  <1> HIDE DEF w
  <1> QED
    BY <1>2, <1>3, <1>4, <1>5, <1>6, <1>7, MovesOnTyped

\* The limit written under the slot lock.
LEMMA WriteLimitTyped == ASSUME Typed, NEW o \in Owners, WriteLimit(o) PROVE Typed'
  <1> DEFINE ns == own[o].ns
             r == IF own[o].budget = "cpu"
                  THEN WithCpuLimit(SlotOf(o), ns, ns \in CoarseLimits)
                  ELSE WithWallLimit(SlotOf(o), ns)
             w == IF r.hasLimits
                  THEN [own[o] EXCEPT !.step = "republish", !.budget = "cpu", !.ns = 0]
                  ELSE BackFrom(own[o])
  <1>1. own[o].step = "write" /\ own[o] \in Place /\ ns \in Nat /\ SlotOf(o) \in Slot
    BY SlotOfType DEF WriteLimit, At, Typed, TypeOK, Place
  <1>2. (ns \in CoarseLimits) \in BOOLEAN
    OBVIOUS
  <1>3. r \in Slot /\ SameTicket(SlotOf(o), r)
    BY <1>1, <1>2, WithLimitType, LimitTicket
  <1>4. /\ slots' = [slots EXCEPT ![own[o].slot] = r]
        /\ own' = [own EXCEPT ![o] = w]
        /\ UNCHANGED <<free, irq, heap, thread, module, clocks>>
    BY DEF WriteLimit
  <1>5. w \in Place /\ w.slot = own[o].slot /\ w.step \notin {"none", "publish"}
    <2> HIDE DEF r
    <2> QED
      BY <1>1, BackFromType DEF Place, Steps, Segments
  <1> HIDE DEF r, w
  <1> QED
    BY <1>1, <1>3, <1>4, <1>5, RewritesTyped

\* luaext_watchdog_republish, which evaluates and stamps.
LEMMA RepublishTyped == ASSUME Typed, NEW o \in Owners, Republish(o) PROVE Typed'
  <1>1. own[o].step = "republish" /\ own[o].back \in {"out", "in"}
    BY DEF Republish, At, Typed, TypeOK, Place
  <1>2. SlotOf(o) \in Slot /\ SlotOf(o).irq = o
    BY <1>1, SlotOfType
  <1> QED
    BY <1>1, <1>2, SettleTyped DEF Republish

\* luaext_watch_publish puts the entry stamped earlier into the heap.
LEMMA PublishTyped == ASSUME Typed, NEW o \in Owners, Publish(o) PROVE Typed'
  <1> DEFINE w == [own[o] EXCEPT !.step = own[o].back, !.back = "out",
                                 !.entry = NoEntry]
  <1>1. own[o].step = "publish" /\ own[o] \in Place /\ own[o].entry \in Entry
    BY DEF Publish, At, Typed, TypeOK, Tenancy
  <1>2. w \in Place /\ w.slot = own[o].slot /\ w.step \notin {"none", "publish"}
    BY <1>1 DEF Place, Steps
  <1>3. own' = [own EXCEPT ![o] = w]
    BY DEF Publish
  <1>4. heap' \subseteq Entry
    BY <1>1 DEF Publish, Push, Typed, TypeOK
  <1>5. thread' \in Watcher
    BY SignalledType DEF Publish, Typed, TypeOK
  <1>6. /\ UNCHANGED <<slots, free>> /\ irq' \in [Owners -> Flag]
        /\ module' \in ModuleState /\ module'.phase = module.phase
        /\ UNCHANGED clocks
    BY DEF Publish, Typed, TypeOK
  <1> HIDE DEF w
  <1> QED
    BY <1>1, <1>2, <1>3, <1>4, <1>5, <1>6, MovesOnTyped

\* luaext_watchdog_arm.
LEMMA ArmTyped == ASSUME Typed, NEW o \in Owners, Arm(o) PROVE Typed'
  <1> DEFINE r == Armed(SlotOf(o), ClockOf(o))
  <1>1. own[o].step = "out"
    BY DEF Arm, At
  <1>2. SlotOf(o) \in Slot /\ SlotOf(o).irq = o /\ ClockOf(o) \in Clock
    BY <1>1, SlotOfType, ClockOfType DEF Typed
  <1>3. r \in Slot /\ r.irq = o
    BY <1>2, ArmedType, ArmedTicket DEF SameTicket
  <1>4. /\ Settle(o, r, "in", 1)
        /\ UNCHANGED <<free, heap, thread, module, clocks>>
    BY DEF Arm
  <1> HIDE DEF r
  <1> QED
    BY <1>1, <1>3, <1>4, SettleTyped

\* luaext_watchdog_resume.
LEMMA ResumeTyped == ASSUME Typed, NEW o \in Owners, Resume(o) PROVE Typed'
  <1>1. PICK mask \in (SUBSET Segments) \ {{}} :
          Settle(o, ResumedFor(SlotOf(o), mask, ClockOf(o)), "in", 1)
    BY DEF Resume
  <1> DEFINE r == ResumedFor(SlotOf(o), mask, ClockOf(o))
  <1>2. own[o].step = "in"
    BY DEF Resume, At
  <1>3. SlotOf(o) \in Slot /\ SlotOf(o).irq = o /\ ClockOf(o) \in Clock
    BY <1>2, SlotOfType, ClockOfType DEF Typed
  <1>4. r \in Slot /\ r.irq = o
    BY <1>3, ResumedForType, ResumedForTicket DEF SameTicket
  <1>5. /\ Settle(o, r, "in", 1)
        /\ UNCHANGED <<free, heap, thread, module, clocks>>
    BY <1>1 DEF Resume
  <1> HIDE DEF r
  <1> QED
    BY <1>2, <1>4, <1>5, SettleTyped

\* luaext_watchdog_pause.
LEMMA PauseTyped == ASSUME Typed, NEW o \in Owners, Pause(o) PROVE Typed'
  <1>1. PICK mask \in (SUBSET Segments) \ {{}} :
          slots' = [slots EXCEPT ![own[o].slot] = PausedFor(@, mask, ClockOf(o))]
    BY DEF Pause
  <1> DEFINE r == PausedFor(SlotOf(o), mask, ClockOf(o))
             w == [own[o] EXCEPT !.ops = @ + 1]
  <1>2. own[o].step = "in" /\ own[o] \in Place /\ own[o].ops + 1 \in Nat
    BY DEF Pause, At, Typed, TypeOK, Place
  <1>3. SlotOf(o) \in Slot /\ ClockOf(o) \in Clock
    BY <1>2, SlotOfType, ClockOfType DEF Typed
  <1>4. r \in Slot /\ SameTicket(SlotOf(o), r)
    BY <1>3, PausedForType, PausedForTicket
  <1>5. /\ slots' = [slots EXCEPT ![own[o].slot] = r]
        /\ own' = [own EXCEPT ![o] = w]
        /\ UNCHANGED <<free, irq, heap, thread, module, clocks>>
    BY <1>1 DEF Pause, SlotOf
  <1>6. w \in Place /\ w.slot = own[o].slot /\ w.step \notin {"none", "publish"}
    BY <1>2 DEF Place, Steps
  <1> HIDE DEF r, w
  <1> QED
    BY <1>2, <1>4, <1>5, <1>6, RewritesTyped

\* luaext_watchdog_disarm.
LEMMA DisarmTyped == ASSUME Typed, NEW o \in Owners, Disarm(o) PROVE Typed'
  <1> DEFINE r == Disarmed(SlotOf(o), ClockOf(o))
             w == [own[o] EXCEPT !.step = "disarmed"]
  <1>1. own[o].step \in {"checked", "in"} /\ own[o] \in Place
    BY DEF Disarm, At, Typed, TypeOK
  <1>2. SlotOf(o) \in Slot /\ ClockOf(o) \in Clock
    BY <1>1, SlotOfType, ClockOfType DEF Typed
  <1>3. r \in Slot /\ SameTicket(SlotOf(o), r)
    BY <1>2, DisarmedType, DisarmedTicket
  <1>4. /\ slots' = [slots EXCEPT ![own[o].slot] = r]
        /\ own' = [own EXCEPT ![o] = w]
        /\ UNCHANGED <<free, irq, heap, thread, module, clocks>>
    BY DEF Disarm, SlotOf
  <1>5. w \in Place /\ w.slot = own[o].slot /\ w.step \notin {"none", "publish"}
    BY <1>1 DEF Place, Steps
  <1> HIDE DEF r, w
  <1> QED
    BY <1>1, <1>3, <1>4, <1>5, RewritesTyped

\* The three steps of an owner that touch the flag and no slot.
LEMMA FlagStepTyped ==
  ASSUME Typed, NEW o \in Owners, SelfCheck(o) \/ FinalCheck(o) \/ ClearFlag(o)
  PROVE  Typed'
  <1>1. own[o].step \in {"in", "disarmed"} /\ own[o] \in Place
    BY DEF SelfCheck, FinalCheck, ClearFlag, At, Typed, TypeOK
  <1>2. SlotOf(o) \in Slot /\ ClockOf(o) \in Clock
    BY <1>1, SlotOfType, ClockOfType DEF Typed
  <1>3. irq' \in [Owners -> Flag]
    <2>1. Raise(o, Verdict(SlotOf(o), ClockOf(o))) \in [Owners -> Flag]
      BY <1>2, VerdictType, RaiseType DEF Typed
    <2> QED
      BY <2>1 DEF SelfCheck, FinalCheck, ClearFlag, Typed, TypeOK, Flag, Reasons
  <1>4. PICK step \in {"in", "checked", "out"} : own' = [own EXCEPT ![o].step = step]
    <2>1. CASE SelfCheck(o)
      BY <2>1 DEF SelfCheck, At, Typed, TypeOK, Place
    <2>2. CASE FinalCheck(o)
      BY <2>2 DEF FinalCheck
    <2>3. CASE ClearFlag(o)
      BY <2>3 DEF ClearFlag
    <2> QED
      BY <2>1, <2>2, <2>3
  <1> DEFINE w == [own[o] EXCEPT !.step = step]
  <1>5. w \in Place /\ w.slot = own[o].slot /\ w.step \notin {"none", "publish"}
    BY <1>1, <1>4 DEF Place, Steps
  <1>6. own' = [own EXCEPT ![o] = w]
    BY <1>4
  <1>7. /\ UNCHANGED <<slots, free>> /\ heap' \subseteq Entry
        /\ thread' \in Watcher /\ module' \in ModuleState
        /\ module'.phase = module.phase /\ UNCHANGED clocks
    BY DEF SelfCheck, FinalCheck, ClearFlag, Typed, TypeOK
  <1> HIDE DEF w
  <1> QED
    BY <1>1, <1>3, <1>5, <1>6, <1>7, MovesOnTyped

\* Every step of an owner.
LEMMA OwnerTyped == ASSUME Typed, NEW o \in Owners, Owner(o) PROVE Typed'
BY AcquireTyped, ReleaseTyped, SetLimitTyped, PrimeTyped, WriteLimitTyped,
   RepublishTyped, PublishTyped, ArmTyped, PauseTyped, ResumeTyped, DisarmTyped,
   FlagStepTyped
   DEF Owner

-----------------------------------------------------------------------------
(* The thread, the module and the clocks                                   *)

\* The thread pops the earliest entry: the slot's record and the flag change,
\* who holds the slot does not.
LEMMA ServiceTyped == ASSUME Typed, Service PROVE Typed'
  <1>1. PICK e \in heap :
          LET r == [slots[e.slot] EXCEPT !.queued = FALSE]
              c == ClockOf(r.irq)
              left == Stamped(r, Deadline(r, c))
          IN  \/ /\ ~Live(e)
                 /\ heap' = heap \ {e}
                 /\ UNCHANGED <<slots, irq>>
              \/ /\ Live(e)
                 /\ irq' = Raise(r.irq, Verdict(r, c))
                 /\ IF Verdict(r, c) = "none" /\ HasDeadline(r, c)
                    THEN /\ slots' = [slots EXCEPT ![e.slot] = left]
                         /\ heap' = (heap \ {e}) \cup {EntryFor(e.slot, left)}
                    ELSE /\ slots' = [slots EXCEPT ![e.slot] = r]
                         /\ heap' = heap \ {e}
    BY DEF Service
  <1> DEFINE s == e.slot
             r == [slots[s] EXCEPT !.queued = FALSE]
             c == ClockOf(r.irq)
             left == Stamped(r, Deadline(r, c))
  <1>2. s \in Slots /\ slots[s] \in Slot
    BY DEF Typed, TypeOK, Entry
  <1>3. r \in Slot /\ r.irq = slots[s].irq
    BY <1>2 DEF Slot
  <1>4. c \in Clock
    BY ClockOfType DEF Typed
  <1>5. left \in Slot /\ left.irq = slots[s].irq
    BY <1>3, <1>4, DeadlineType, StampedType, StampedTicket
  <1>6. EntryFor(s, left) \in Entry
    BY <1>2, <1>5, EntryForType
  <1>7. Raise(r.irq, Verdict(r, c)) \in [Owners -> Flag]
    BY <1>3, <1>4, VerdictType, RaiseType DEF Typed
  <1> HIDE DEF r, c, left, s
  <1>8. /\ irq' \in [Owners -> Flag] /\ heap' \subseteq Entry
        /\ \/ UNCHANGED slots
           \/ slots' = [slots EXCEPT ![s] = left]
           \/ slots' = [slots EXCEPT ![s] = r]
    BY <1>1, <1>6, <1>7 DEF Typed, TypeOK, r, c, left, s
  <1>9. /\ slots' \in [Slots -> Slot]
        /\ \A q \in Slots : slots'[q].irq = slots[q].irq
    BY <1>2, <1>3, <1>5, <1>8 DEF Typed, TypeOK
  <1>10. UNCHANGED <<free, own, thread, module, clocks>>
    BY DEF Service
  <1>11. TypeOK'
    BY <1>8, <1>9, <1>10 DEF Typed, TypeOK, clocks
  <1>12. Tenancy'
    <2>1. \A o \in Owners : Holding(o) => own[o].slot \in Slots
      BY DEF Typed, TypeOK, Holding, Place
    <2>2. own' = own /\ free' = free /\ module' = module
      BY <1>10
    <2>3. \A q \in Slots : slots'[q].irq \in Owners => own'[slots'[q].irq].slot = q
      BY <1>9, <2>2 DEF Typed, Tenancy
    <2>4. \A o \in Owners : Holding(o)' =>
            own'[o].slot \notin free' /\ slots'[own'[o].slot].irq = o
      BY <1>9, <2>1, <2>2 DEF Typed, Tenancy, Holding
    <2> QED
      BY <2>2, <2>3, <2>4 DEF Typed, Tenancy, Holding
  <1> QED
    BY <1>11, <1>12 DEF Typed

\* The thread going to sleep, waking up or leaving.
LEMMA ThreadTyped == ASSUME Typed, Exit \/ Sleep \/ Wake PROVE Typed'
  <1>1. thread' \in Watcher
    <2>1. CASE Exit
      BY <2>1 DEF Exit, Typed, TypeOK, Watcher
    <2>2. CASE Sleep
      BY <2>2 DEF Sleep, Typed, TypeOK, Watcher, Entry
    <2>3. CASE Wake
      BY <2>3 DEF Wake, Watcher
    <2> QED
      BY <2>1, <2>2, <2>3
  <1>2. UNCHANGED <<slots, free, irq, own, heap, module, clocks>>
    BY DEF Exit, Sleep, Wake
  <1> QED
    BY <1>1, <1>2 DEF Typed, TypeOK, Tenancy, Holding, clocks

\* Startup, shutdown and what lies between: no owner holds a slot then.
LEMMA ModuleTyped == ASSUME Typed, Module PROVE Typed'
  <1>1. CASE Shutdown
    <2>1. \A o \in Owners : ~Holding(o)
      BY <1>1 DEF Shutdown, At, Typed, Tenancy
    <2>2. thread' \in Watcher /\ module' \in ModuleState
      BY <1>1, SignalledType DEF Shutdown, Typed, TypeOK, ModuleState
    <2>3. UNCHANGED <<slots, free, irq, own, heap, clocks>>
      BY <1>1 DEF Shutdown
    <2> QED
      BY <2>1, <2>2, <2>3 DEF Typed, TypeOK, Tenancy, Holding, clocks
  <1>2. CASE Join
    <2>1. \A o \in Owners : ~Holding(o)
      BY <1>2 DEF Join, Typed, Tenancy
    <2>2. thread' \in Watcher /\ module' \in ModuleState
      BY <1>2 DEF Join, Typed, TypeOK, ModuleState, Watcher
    <2>3. UNCHANGED <<slots, free, irq, own, heap, clocks>>
      BY <1>2 DEF Join
    <2> QED
      BY <2>1, <2>2, <2>3 DEF Typed, TypeOK, Tenancy, Holding, clocks
  <1>3. CASE Teardown
    <2>1. \A o \in Owners : ~Holding(o)
      BY <1>3 DEF Teardown, Typed, Tenancy
    <2>2. slots' \in [Slots -> Slot] /\ \A s \in Slots : slots'[s].irq \notin Owners
      BY <1>3, BlankSlotType DEF Teardown, BlankSlot
    <2>3. heap' \subseteq Entry /\ free' \subseteq Slots /\ module' \in ModuleState
      BY <1>3 DEF Teardown, Typed, TypeOK, ModuleState
    <2>4. UNCHANGED <<irq, own, thread, clocks>>
      BY <1>3 DEF Teardown
    <2> QED
      BY <2>1, <2>2, <2>3, <2>4 DEF Typed, TypeOK, Tenancy, Holding, clocks
  <1>4. CASE Startup
    <2>1. module.startups + 1 \in Nat
      BY DEF Typed, TypeOK, ModuleState
    <2>2. module' \in ModuleState /\ module'.phase = "up"
      BY <1>4, <2>1 DEF Startup, Typed, TypeOK, ModuleState
    <2>3. UNCHANGED <<slots, free, irq, own, heap, thread, clocks>>
      BY <1>4 DEF Startup
    <2> QED
      BY <2>2, <2>3 DEF Typed, TypeOK, Tenancy, Holding, clocks
  <1> QED
    BY <1>1, <1>2, <1>3, <1>4 DEF Module

\* Time passing, or a CPU clock that starts or stops failing.
LEMMA ClockTyped ==
  ASSUME Typed, Tick \/ \E o \in Owners : ClockTurns(o)
  PROVE  Typed'
  <1>1. CASE Tick
    <2>1. PICK ran \in SUBSET Owners :
            /\ cpu' = [o \in Owners |-> IF o \in ran THEN cpu[o] + 1 ELSE cpu[o]]
            /\ ledger' = [o \in Owners |->
                 [ledger[o] EXCEPT
                    !.cpu = IF Owes(o, "cpu") /\ o \in ran THEN @ + 1 ELSE @,
                    !.wall = IF Owes(o, "wall") THEN @ + 1 ELSE @]]
      BY <1>1 DEF Tick
    <2>2. now' \in Nat /\ cpu' \in [Owners -> Nat]
      <3>1. \A o \in Owners : cpu[o] \in Nat
        BY DEF Typed, TypeOK
      <3>2. now + 1 \in Nat
        BY DEF Typed, TypeOK
      <3>3. cpu' = [o \in Owners |-> IF o \in ran THEN cpu[o] + 1 ELSE cpu[o]]
        BY <2>1
      <3>4. cpu' \in [Owners -> Nat]
        BY <3>1, <3>3
      <3> QED
        BY <1>1, <3>2, <3>4 DEF Tick
    <2>3. ledger' \in [Owners -> [cpu : Nat, wall : Nat, clean : BOOLEAN]]
      <3> DEFINE L(o) == [ledger[o] EXCEPT
                    !.cpu = IF Owes(o, "cpu") /\ o \in ran THEN @ + 1 ELSE @,
                    !.wall = IF Owes(o, "wall") THEN @ + 1 ELSE @]
      <3>1. ASSUME NEW o \in Owners
            PROVE  L(o) \in [cpu : Nat, wall : Nat, clean : BOOLEAN]
        <4>1. ledger[o] \in [cpu : Nat, wall : Nat, clean : BOOLEAN]
          BY DEF Typed, TypeOK
        <4>2. ledger[o].cpu + 1 \in Nat /\ ledger[o].wall + 1 \in Nat
          BY <4>1
        <4> QED
          BY <4>1, <4>2
      <3>2. ledger' = [o \in Owners |-> L(o)]
        BY <2>1
      <3> HIDE DEF L
      <3> QED
        BY <3>1, <3>2
    <2>4. UNCHANGED <<slots, free, irq, own, heap, thread, module, readable>>
      BY <1>1 DEF Tick
    <2> QED
      BY <2>2, <2>3, <2>4 DEF Typed, TypeOK, Tenancy, Holding
  <1>2. ASSUME NEW o \in Owners, ClockTurns(o) PROVE Typed'
    <2>1. /\ ledger' = [ledger EXCEPT ![o].clean = FALSE]
          /\ readable' = [readable EXCEPT ![o] = ~@]
          /\ UNCHANGED <<slots, free, irq, own, heap, thread, module, now, cpu>>
      BY <1>2 DEF ClockTurns
    <2>2. ledger' \in [Owners -> [cpu : Nat, wall : Nat, clean : BOOLEAN]]
      BY <2>1 DEF Typed, TypeOK
    <2>3. readable' \in [Owners -> BOOLEAN]
      BY <2>1 DEF Typed, TypeOK
    <2> QED
      BY <2>1, <2>2, <2>3 DEF Typed, TypeOK, Tenancy, Holding
  <1> QED
    BY <1>1, <1>2

-----------------------------------------------------------------------------
(* Type correctness                                                        *)

\* A module just started holds no slot out.
LEMMA InitTyped == Init => Typed
  <1> SUFFICES ASSUME Init PROVE Typed
    OBVIOUS
  <1>1. slots \in [Slots -> Slot] /\ \A s \in Slots : slots[s].irq = NoIrq
    BY BlankSlotType DEF Init, BlankSlot
  <1>2. own \in [Owners -> Place]
    BY DEF Init, Idle, Place, Steps, Segments
  <1>3. TypeOK
    BY <1>1, <1>2 DEF Init, TypeOK, Flag, Reasons, Watcher, ModuleState, Fresh
  <1>4. Tenancy
    BY <1>1 DEF Init, Tenancy, Holding, Idle
  <1> QED
    BY <1>3, <1>4 DEF Typed

\* Typed is inductive.
LEMMA NextTyped == Typed /\ [Next]_vars => Typed'
  <1>1. Typed /\ UNCHANGED vars => Typed'
    BY DEF vars, Typed, TypeOK, Tenancy, Holding
  <1>2. Typed /\ Next => Typed'
    BY OwnerTyped, ClockTyped, ServiceTyped, ThreadTyped, ModuleTyped
       DEF Next, WatchdogThread
  <1> QED
    BY <1>1, <1>2

\* Types and tenancy hold in every reachable state: a slot is held by at most
\* one sandbox, its irq pointer names that sandbox and nobody after release,
\* and none is held once shutdown began.
THEOREM TypedInvariant == Spec => []Typed
  BY InitTyped, NextTyped, PTL DEF Spec

\* Type correctness of the watchdog, for every value of its constants.
THEOREM TypeCorrect == Spec => []TypeOK
  <1>1. Typed => TypeOK
    BY DEF Typed
  <1> QED
    BY <1>1, TypedInvariant, PTL

-----------------------------------------------------------------------------
(* The thread and the module                                               *)

\* The thread is off, and asleep on nothing, when the module starts.
LEMMA InitThread == Init => ThreadNeverOutlivesPool /\ NoLostWakeup
BY DEF Init, ThreadNeverOutlivesPool, NoLostWakeup

\* Only Prime starts the thread, and its caller holds a slot, so the module is
\* up; only Join takes the module past "stopping", and the thread is gone then.
LEMMA PoolStep ==
  ASSUME Typed, ThreadNeverOutlivesPool, [Next]_vars
  PROVE  ThreadNeverOutlivesPool'
  <1>1. CASE \E o \in Owners : Prime(o)
    <2>1. module.phase = "up"
      BY <1>1 DEF Prime, At, Typed, Tenancy, Holding
    <2>2. module'.phase = module.phase
      BY <1>1 DEF Prime, Typed, TypeOK, ModuleState
    <2> QED
      BY <2>1, <2>2 DEF ThreadNeverOutlivesPool
  <1>2. CASE \E o \in Owners : Publish(o)
    BY <1>2, SignalledType DEF Publish, Typed, ThreadNeverOutlivesPool
  <1>3. CASE WatchdogThread
    <2>1. thread.pc = "off" => FALSE \/ Service
      BY <1>3 DEF WatchdogThread, Exit, Sleep, Wake
    <2>2. UNCHANGED module /\ (Service => UNCHANGED thread)
      BY <1>3 DEF WatchdogThread, Exit, Sleep, Wake, Service
    <2> QED
      BY <2>1, <2>2 DEF ThreadNeverOutlivesPool
  <1>4. CASE Module
    <2>1. CASE Shutdown
      BY <2>1 DEF Shutdown, Typed, TypeOK, ModuleState, ThreadNeverOutlivesPool
    <2>2. CASE Join
      BY <2>2 DEF Join, Typed, TypeOK, Watcher, ThreadNeverOutlivesPool
    <2>3. CASE Teardown
      BY <2>3 DEF Teardown, ThreadNeverOutlivesPool
    <2>4. CASE Startup
      BY <2>4 DEF Startup, Typed, TypeOK, ModuleState, ThreadNeverOutlivesPool
    <2> QED
      BY <1>4, <2>1, <2>2, <2>3, <2>4 DEF Module
  <1>5. CASE UNCHANGED <<thread, module>>
    BY <1>5 DEF ThreadNeverOutlivesPool
  <1>6. \A o \in Owners : Owner(o) =>
          Prime(o) \/ Publish(o) \/ UNCHANGED <<thread, module>>
    BY DEF Owner, Acquire, Release, SetLimit, WriteLimit, Republish, Arm, Pause,
           Resume, SelfCheck, FinalCheck, Disarm, ClearFlag
  <1> QED
    BY <1>1, <1>2, <1>3, <1>4, <1>5, <1>6 DEF Next, Tick, ClockTurns, vars

\* The one store the thread reads is gone only after the thread is.
THEOREM ThreadGoneBeforePool == Spec => []ThreadNeverOutlivesPool
  BY InitThread, PoolStep, TypedInvariant, PTL DEF Spec

\* Whatever puts an entry into the heap, or tells the thread to stop, signals
\* in the same critical section; the thread chooses how long to sleep in one.
LEMMA WakeupStep ==
  ASSUME Typed, NoLostWakeup, [Next]_vars
  PROVE  NoLostWakeup'
  <1>1. CASE \E o \in Owners : Prime(o)
    <2>1. UNCHANGED heap /\ module'.stop = module.stop
      BY <1>1 DEF Prime, Typed, TypeOK, ModuleState
    <2>2. thread' = thread \/ thread'.pc = "check"
      BY <1>1 DEF Prime, Typed, TypeOK, Watcher
    <2> QED
      BY <2>1, <2>2 DEF NoLostWakeup
  <1>2. CASE \E o \in Owners : Publish(o)
    <2>1. UNCHANGED module
      BY <1>2 DEF Publish
    <2>2. CASE UNCHANGED <<heap, thread>>
      BY <2>1, <2>2 DEF NoLostWakeup
    <2>3. CASE thread' = Signalled
      <3>1. thread'.pc = "wait" => thread'.signalled
        BY <2>3 DEF Signalled, Typed, TypeOK, Watcher
      <3> QED
        BY <3>1 DEF NoLostWakeup
    <2> QED
      BY <1>2, <2>2, <2>3 DEF Publish
  <1>3. CASE WatchdogThread
    <2>1. CASE Exit
      BY <2>1 DEF Exit, Typed, TypeOK, Watcher, NoLostWakeup
    <2>2. CASE Sleep
      BY <2>2 DEF Sleep, NoLostWakeup
    <2>3. CASE Wake
      BY <2>3 DEF Wake, NoLostWakeup
    <2>4. CASE Service
      BY <2>4 DEF Service, NoLostWakeup
    <2> QED
      BY <1>3, <2>1, <2>2, <2>3, <2>4 DEF WatchdogThread
  <1>4. CASE Module
    <2>1. CASE Shutdown
      <3>1. thread'.pc = "wait" => thread'.signalled
        BY <2>1 DEF Shutdown, Signalled, Typed, TypeOK, Watcher
      <3> QED
        BY <3>1 DEF NoLostWakeup
    <2>2. CASE Join
      BY <2>2 DEF Join, Typed, TypeOK, Watcher, NoLostWakeup
    <2>3. CASE Teardown
      BY <2>3 DEF Teardown, Typed, TypeOK, ModuleState, NoLostWakeup
    <2>4. CASE Startup
      BY <2>4 DEF Startup, Typed, TypeOK, ModuleState, NoLostWakeup
    <2> QED
      BY <1>4, <2>1, <2>2, <2>3, <2>4 DEF Module
  <1>5. CASE UNCHANGED <<heap, thread, module>>
    BY <1>5 DEF NoLostWakeup
  <1>6. \A o \in Owners : Owner(o) =>
          Prime(o) \/ Publish(o) \/ UNCHANGED <<heap, thread, module>>
    BY DEF Owner, Acquire, Release, SetLimit, WriteLimit, Republish, Arm, Pause,
           Resume, SelfCheck, FinalCheck, Disarm, ClearFlag
  <1> QED
    BY <1>1, <1>2, <1>3, <1>4, <1>5, <1>6 DEF Next, Tick, ClockTurns, vars

\* A sleeping thread sleeps past no deadline and past no shutdown.
THEOREM WakeupsKept == Spec => []NoLostWakeup
  BY InitThread, WakeupStep, TypedInvariant, PTL DEF Spec

-----------------------------------------------------------------------------
(* A flag does not outlive its call                                        *)

\* Owner o is between two calls, inside the setter of a limit or not.
Outside(o) ==
  \/ own[o].step = "out"
  \/ own[o].step \in {"prime", "write", "republish", "publish"} /\ own[o].back = "out"

\* The strengthening: between calls the slot is disarmed, so that nothing can
\* find a reason to raise the flag, and it is from the end of the call on.
Quiet(o) ==
  /\ Outside(o) => ~SlotOf(o).armed /\ irq[o] = "none"
  /\ own[o].step = "disarmed" => ~SlotOf(o).armed

Quiescence == \A o \in Owners : Quiet(o)

\* A step of one owner leaves another's place, slot and flag alone.
LEMMA OwnersApart ==
  ASSUME Typed, NEW o \in Owners, Owner(o), NEW p \in Owners, p # o,
         own[p].step # "none"
  PROVE  /\ own'[p] = own[p]
         /\ own[p].slot \in Slots
         /\ slots'[own[p].slot] = slots[own[p].slot]
         /\ irq'[p] = irq[p]
  <1>1. own[p].slot \in Slots /\ own[p].slot \notin free /\ own[p].slot # NoSlot
    BY SlotOfType DEF Typed, Tenancy, Holding
  <1>2. own[o].slot # own[p].slot
    BY <1>1 DEF Typed, Tenancy, Holding
  <1>3. own'[p] = own[p]
    BY DEF Owner, Acquire, Release, SetLimit, Prime, WriteLimit, Republish,
           Publish, Arm, Pause, Resume, SelfCheck, FinalCheck, Disarm, ClearFlag,
           Settle, Typed, TypeOK
  <1>4. slots'[own[p].slot] = slots[own[p].slot]
    BY <1>1, <1>2
       DEF Owner, Acquire, Release, SetLimit, Prime, WriteLimit, Republish,
           Publish, Arm, Pause, Resume, SelfCheck, FinalCheck, Disarm, ClearFlag,
           Settle, Typed, TypeOK
  <1>5. irq'[p] = irq[p]
    BY DEF Owner, Acquire, Release, SetLimit, Prime, WriteLimit, Republish,
           Publish, Arm, Pause, Resume, SelfCheck, FinalCheck, Disarm, ClearFlag,
           Settle, Raise, Typed, TypeOK
  <1> QED
    BY <1>1, <1>3, <1>4, <1>5

\* What an owner settles inside a call is no matter here; what it settles
\* between two calls is a disarmed slot, which has nothing to trip for.
LEMMA SettleQuiet ==
  ASSUME Typed, NEW o \in Owners, own[o].step # "none",
         NEW r \in Slot, r.irq = o, NEW back \in {"out", "in"}, NEW cost,
         Settle(o, r, back, cost),
         back = "out" => ~r.armed /\ irq[o] = "none"
  PROVE  Quiet(o)'
  <1> DEFINE c == ClockOf(o)
             publish == r.hasLimits /\ NeedsEntry(r, c)
  <1>1. own[o].slot \in Slots /\ own[o] \in Place
    BY SlotOfType DEF Typed, TypeOK
  <1>2. /\ own'[o].slot = own[o].slot
        /\ own'[o].step = IF publish THEN "publish" ELSE back
        /\ own'[o].back = IF publish THEN back ELSE "out"
    BY <1>1 DEF Settle, Typed, TypeOK, Place
  <1>3. CASE back = "in"
    BY <1>2, <1>3 DEF Quiet, Outside
  <1>4. CASE back = "out"
    <2>1. ~publish
      BY <1>4 DEF NeedsEntry, HasDeadline
    <2>2. Verdict(r, c) = "none"
      BY <1>4 DEF Verdict
    <2>3. slots'[own[o].slot] = r
      BY <1>1, <2>1 DEF Settle, Typed, TypeOK
    <2>4. irq'[o] = irq[o]
      BY <2>2 DEF Settle, Raise
    <2> QED
      BY <1>2, <1>4, <2>1, <2>3, <2>4 DEF Quiet, SlotOf
  <1> QED
    BY <1>3, <1>4

\* Its own steps keep an owner quiet between calls.
LEMMA OwnerQuiet ==
  ASSUME Typed, NEW o \in Owners, Quiet(o), Owner(o)
  PROVE  Quiet(o)'
  <1>1. CASE Acquire(o)
    <2>1. PICK s \in free, captured \in BOOLEAN :
            /\ slots' = [slots EXCEPT ![s] = Acquired(@, o, captured)]
            /\ own' = [own EXCEPT ![o] = [Idle EXCEPT !.slot = s, !.step = "out",
                                                      !.ops = own[o].ops + 1]]
      BY <1>1 DEF Acquire
    <2>2. own'[o].slot = s /\ own'[o].step = "out" /\ slots'[s] = Acquired(slots[s], o, captured)
      BY <2>1 DEF Idle, Typed, TypeOK
    <2>3. irq'[o] = "none"
      BY <1>1 DEF Acquire, Typed, TypeOK
    <2> QED
      BY <2>2, <2>3 DEF Quiet, SlotOf, Acquired, BlankSlot
  <1>2. CASE Release(o)
    <2>1. own'[o].step = "none"
      BY <1>2 DEF Release, Idle, Typed, TypeOK
    <2> QED
      BY <2>1 DEF Quiet, Outside
  <1>3. CASE SetLimit(o)
    <2>1. own[o].step \in {"in", "out"} /\ own[o] \in Place
      BY <1>3 DEF SetLimit, At, Typed, TypeOK
    <2>2. /\ own'[o].slot = own[o].slot /\ own'[o].back = own[o].step
          /\ own'[o].step \in {"prime", "write"}
          /\ slots' = slots /\ irq' = irq
      BY <1>3, <2>1 DEF SetLimit, Typed, TypeOK, Place
    <2> QED
      BY <2>1, <2>2 DEF Quiet, Outside, SlotOf
  <1>4. CASE Prime(o)
    <2>1. own[o].step = "prime" /\ own[o] \in Place
      BY <1>4 DEF Prime, At, Typed, TypeOK
    <2>2. /\ own'[o].slot = own[o].slot
          /\ \/ own'[o].step = "write" /\ own'[o].back = own[o].back
             \/ own'[o].step = own[o].back
          /\ slots' = slots /\ irq' = irq
      BY <1>4, <2>1 DEF Prime, BackFrom, Typed, TypeOK, Place
    <2> QED
      BY <2>1, <2>2 DEF Quiet, Outside, SlotOf, Place
  <1>5. CASE WriteLimit(o)
    <2> DEFINE r == IF own[o].budget = "cpu"
                    THEN WithCpuLimit(SlotOf(o), own[o].ns, own[o].ns \in CoarseLimits)
                    ELSE WithWallLimit(SlotOf(o), own[o].ns)
    <2>1. own[o].step = "write" /\ own[o] \in Place
      BY <1>5 DEF WriteLimit, At, Typed, TypeOK
    <2>2. own[o].slot \in Slots /\ SlotOf(o) \in Slot
      BY <2>1, SlotOfType
    <2>3. r.armed = SlotOf(o).armed
      BY <2>2 DEF WithCpuLimit, WithWallLimit, Slot
    <2>4. slots'[own[o].slot] = r /\ irq' = irq
      BY <1>5, <2>2 DEF WriteLimit, Typed, TypeOK
    <2>5. /\ own'[o].slot = own[o].slot
          /\ \/ own'[o].step = "republish" /\ own'[o].back = own[o].back
             \/ own'[o].step = own[o].back
      BY <1>5, <2>1 DEF WriteLimit, BackFrom, Typed, TypeOK, Place
    <2> HIDE DEF r
    <2> QED
      BY <2>1, <2>3, <2>4, <2>5 DEF Quiet, Outside, SlotOf, Place
  <1>6. CASE Republish(o)
    <2>1. own[o].step = "republish" /\ own[o].back \in {"out", "in"}
      BY <1>6 DEF Republish, At, Typed, TypeOK, Place
    <2>2. SlotOf(o) \in Slot /\ SlotOf(o).irq = o
      BY <2>1, SlotOfType
    <2> QED
      BY <1>6, <2>1, <2>2, SettleQuiet DEF Republish, Quiet, Outside
  <1>7. CASE Publish(o)
    <2>1. own[o].step = "publish" /\ own[o] \in Place
      BY <1>7 DEF Publish, At, Typed, TypeOK
    <2>2. /\ own'[o].slot = own[o].slot /\ own'[o].step = own[o].back
          /\ slots' = slots /\ irq' = irq
      BY <1>7, <2>1 DEF Publish, Typed, TypeOK, Place
    <2> QED
      BY <2>1, <2>2 DEF Quiet, Outside, SlotOf, Place
  <1>8. CASE Arm(o)
    <2> DEFINE r == Armed(SlotOf(o), ClockOf(o))
    <2>1. own[o].step = "out" /\ Settle(o, r, "in", 1)
      BY <1>8 DEF Arm, At
    <2>2. SlotOf(o) \in Slot /\ SlotOf(o).irq = o /\ ClockOf(o) \in Clock
      BY <2>1, SlotOfType, ClockOfType DEF Typed
    <2>3. r \in Slot /\ r.irq = o
      BY <2>2, ArmedType, ArmedTicket DEF SameTicket
    <2> HIDE DEF r
    <2> QED
      BY <2>1, <2>3, SettleQuiet
  <1>9. CASE Resume(o)
    <2>1. PICK mask \in SUBSET Segments :
            Settle(o, ResumedFor(SlotOf(o), mask, ClockOf(o)), "in", 1)
      BY <1>9 DEF Resume
    <2> DEFINE r == ResumedFor(SlotOf(o), mask, ClockOf(o))
    <2>2. own[o].step = "in" /\ Settle(o, r, "in", 1)
      BY <1>9, <2>1 DEF Resume, At
    <2>3. SlotOf(o) \in Slot /\ SlotOf(o).irq = o /\ ClockOf(o) \in Clock
      BY <2>2, SlotOfType, ClockOfType DEF Typed
    <2>4. r \in Slot /\ r.irq = o
      BY <2>3, ResumedForType, ResumedForTicket DEF SameTicket
    <2> HIDE DEF r
    <2> QED
      BY <2>2, <2>4, SettleQuiet
  <1>10. CASE Pause(o) \/ SelfCheck(o) \/ FinalCheck(o)
    <2>1. own'[o].step \in {"in", "checked"}
      BY <1>10 DEF Pause, SelfCheck, FinalCheck, At, Typed, TypeOK, Place
    <2> QED
      BY <2>1 DEF Quiet, Outside
  <1>11. CASE Disarm(o)
    <2>1. own[o].step \in {"in", "checked"} /\ own[o] \in Place
      BY <1>11 DEF Disarm, At, Typed, TypeOK
    <2>2. own[o].slot \in Slots /\ SlotOf(o) \in Slot /\ ClockOf(o) \in Clock
      BY <2>1, SlotOfType, ClockOfType DEF Typed
    <2>3. Closed(SlotOf(o), Segments, ClockOf(o)) \in Slot
      BY <2>2, ClosedType
    <2>4. ~Disarmed(SlotOf(o), ClockOf(o)).armed
      BY <2>3 DEF Disarmed, Slot
    <2>5. /\ own'[o].slot = own[o].slot /\ own'[o].step = "disarmed"
          /\ slots'[own[o].slot] = Disarmed(SlotOf(o), ClockOf(o))
      BY <1>11, <2>1, <2>2 DEF Disarm, SlotOf, Typed, TypeOK, Place
    <2> QED
      BY <2>4, <2>5 DEF Quiet, Outside, SlotOf
  <1>12. CASE ClearFlag(o)
    <2>1. own[o].step = "disarmed" /\ own[o] \in Place
      BY <1>12 DEF ClearFlag, At, Typed, TypeOK
    <2>2. /\ own'[o].slot = own[o].slot /\ own'[o].step = "out"
          /\ slots' = slots /\ irq'[o] = "none"
      BY <1>12, <2>1 DEF ClearFlag, Typed, TypeOK, Place
    <2> QED
      BY <2>1, <2>2 DEF Quiet, SlotOf
  <1> QED
    BY <1>1, <1>2, <1>3, <1>4, <1>5, <1>6, <1>7, <1>8, <1>9, <1>10, <1>11, <1>12
       DEF Owner

\* The thread raises a flag only for an armed slot, and never arms one.
LEMMA ServiceQuiet == ASSUME Typed, Quiescence, Service PROVE Quiescence'
  <1>1. PICK e \in heap :
          LET r == [slots[e.slot] EXCEPT !.queued = FALSE]
              c == ClockOf(r.irq)
              left == Stamped(r, Deadline(r, c))
          IN  \/ UNCHANGED <<slots, irq>>
              \/ /\ irq' = Raise(r.irq, Verdict(r, c))
                 /\ \/ slots' = [slots EXCEPT ![e.slot] = left]
                    \/ slots' = [slots EXCEPT ![e.slot] = r]
    BY DEF Service
  <1> DEFINE s == e.slot
             r == [slots[s] EXCEPT !.queued = FALSE]
             c == ClockOf(r.irq)
             left == Stamped(r, Deadline(r, c))
  <1>2. s \in Slots /\ slots[s] \in Slot
    BY DEF Typed, TypeOK, Entry
  <1>3. r \in Slot /\ r.irq = slots[s].irq /\ r.armed = slots[s].armed
    BY <1>2 DEF Slot
  <1>4. left.armed = slots[s].armed
    BY <1>3 DEF Stamped, Slot
  <1> HIDE DEF r, c, left, s
  <1>5. \/ UNCHANGED <<slots, irq>>
        \/ /\ irq' = Raise(r.irq, Verdict(r, c))
           /\ \/ slots' = [slots EXCEPT ![s] = left]
              \/ slots' = [slots EXCEPT ![s] = r]
    BY <1>1 DEF r, c, left, s
  <1>6. \A q \in Slots : slots'[q].armed = slots[q].armed
    BY <1>2, <1>3, <1>4, <1>5 DEF Typed, TypeOK
  <1>7. ASSUME NEW o \in Owners, own[o].step # "none", ~SlotOf(o).armed
        PROVE  irq'[o] = irq[o]
    <2>1. CASE Verdict(r, c) = "none"
      BY <1>5, <2>1 DEF Raise
    <2>2. CASE Verdict(r, c) # "none"
      <3>1. r.armed
        BY <2>2 DEF Verdict
      <3>2. own[o].slot \in Slots /\ SlotOf(o).irq = o
        BY <1>7, SlotOfType
      <3>3. r.irq # o
        BY <1>2, <1>3, <1>7, <3>1, <3>2 DEF Typed, Tenancy, SlotOf
      <3> QED
        BY <1>5, <3>3 DEF Raise, Typed, TypeOK
    <2> QED
      BY <2>1, <2>2
  <1>8. UNCHANGED own
    BY DEF Service
  <1>9. ASSUME NEW o \in Owners PROVE Quiet(o)'
    <2>1. CASE own[o].step = "none"
      BY <1>8, <2>1 DEF Quiet, Outside
    <2>2. CASE own[o].step # "none"
      <3>1. own[o].slot \in Slots
        BY <2>2, SlotOfType
      <3>2. SlotOf(o)'.armed = SlotOf(o).armed
        BY <1>6, <1>8, <3>1 DEF SlotOf
      <3>3. Quiet(o)
        BY DEF Quiescence
      <3> QED
        BY <1>7, <1>8, <2>2, <3>2, <3>3 DEF Quiet, Outside
    <2> QED
      BY <2>1, <2>2
  <1> QED
    BY <1>9 DEF Quiescence

\* Quiescence is inductive, given Typed.
LEMMA QuietStep ==
  ASSUME Typed, Quiescence, [Next]_vars
  PROVE  Quiescence'
  <1>1. ASSUME NEW o \in Owners, Owner(o) PROVE Quiescence'
    <2>1. ASSUME NEW p \in Owners PROVE Quiet(p)'
      <3>1. CASE p = o
        BY <1>1, <3>1, OwnerQuiet DEF Quiescence
      <3>2. CASE p # o /\ own[p].step # "none"
        <4>1. /\ own'[p] = own[p] /\ irq'[p] = irq[p]
              /\ slots'[own[p].slot] = slots[own[p].slot]
          BY <1>1, <3>2, OwnersApart
        <4>2. Quiet(p)
          BY DEF Quiescence
        <4> QED
          BY <4>1, <4>2 DEF Quiet, Outside, SlotOf
      <3>3. CASE p # o /\ own[p].step = "none"
        <4>1. own'[p] = own[p]
          BY <1>1, <3>3
             DEF Owner, Acquire, Release, SetLimit, Prime, WriteLimit, Republish,
                 Publish, Arm, Pause, Resume, SelfCheck, FinalCheck, Disarm,
                 ClearFlag, Settle, Typed, TypeOK
        <4> QED
          BY <3>3, <4>1 DEF Quiet, Outside
      <3> QED
        BY <3>1, <3>2, <3>3
    <2> QED
      BY <2>1 DEF Quiescence
  <1>2. CASE Teardown
    <2>1. \A o \in Owners : own[o].step = "none"
      BY <1>2 DEF Teardown, Typed, Tenancy, Holding
    <2>2. UNCHANGED own
      BY <1>2 DEF Teardown
    <2> QED
      BY <2>1, <2>2 DEF Quiescence, Quiet, Outside
  <1>3. CASE Service
    BY <1>3, ServiceQuiet
  <1>4. CASE UNCHANGED <<own, slots, irq>>
    BY <1>4 DEF Quiescence, Quiet, Outside, SlotOf
  <1>5. \/ \E o \in Owners : Owner(o)
        \/ Teardown \/ Service
        \/ UNCHANGED <<own, slots, irq>>
    BY DEF Next, WatchdogThread, Module, ClockTurns, Tick, Exit, Sleep, Wake,
           Shutdown, Join, Startup, vars
  <1> QED
    BY <1>1, <1>2, <1>3, <1>4, <1>5

\* No owner is between two calls, or past one, when the module starts.
LEMMA InitQuiet == Init => Quiescence
  <1>1. Init => Typed /\ \A o \in Owners : own[o].slot = NoSlot
    BY InitTyped DEF Init, Idle
  <1>2. Init => \A o \in Owners : own[o].step = "none"
    BY <1>1 DEF Typed, Tenancy, Holding
  <1> QED
    BY <1>2 DEF Quiescence, Quiet, Outside

\* A flag does not outlive its call: no stale entry of an earlier call, or of an
\* earlier tenant of the slot, raises it for a call that has not begun.
THEOREM FlagStaysInItsCall == Spec => []NoFlagBetweenCalls
  <1>1. Quiescence => NoFlagBetweenCalls
    BY DEF Quiescence, Quiet, Outside, NoFlagBetweenCalls, At
  <1> QED
    BY <1>1, InitQuiet, QuietStep, TypedInvariant, PTL DEF Spec

-----------------------------------------------------------------------------
(* A limit has something to enforce it                                     *)

\* An attempt to start the thread is made once a module lifetime, and what it
\* started runs until the join.
StartedOnce == module.running => module.once /\ module.phase \in {"up", "stopping"}

\* The strengthening: a slot with a limit, and a setter past Prime that will
\* write one, come after that attempt, and have the thread or the hook.
Enforced(o) ==
  /\ Declared(SlotOf(o))
  /\ SlotOf(o).hasLimits \/ (own[o].step = "write" /\ own[o].ns # 0)
       => module.once /\ (module.running \/ own[o].hook)

EnforcerInv == StartedOnce /\ \A o \in Owners : Holding(o) => Enforced(o)

\* What leaving a critical section does to the owner and its slot's record.
LEMMA SettleMoves ==
  ASSUME Typed, NEW o \in Owners, own[o].step # "none",
         NEW r \in Slot, NEW back \in {"out", "in"}, NEW cost, Settle(o, r, back, cost)
  PROVE  /\ own[o].slot \in Slots
         /\ own'[o].slot = own[o].slot /\ own'[o].hook = own[o].hook
         /\ own'[o].step \in {"publish", back}
         /\ own'[o].step = "publish" => own'[o].back = back
         /\ SlotOf(o)' = slots'[own[o].slot]
         /\ SameLimits(r, SlotOf(o)') /\ SameClocks(r, SlotOf(o)')
  <1> DEFINE c == ClockOf(o)
             publish == r.hasLimits /\ NeedsEntry(r, c)
             left == IF publish THEN Stamped(r, Deadline(r, c)) ELSE r
  <1>1. own[o].slot \in Slots /\ own[o] \in Place /\ slots \in [Slots -> Slot]
        /\ own \in [Owners -> Place]
    BY SlotOfType DEF Typed, TypeOK
  <1>2. SameLimits(r, left) /\ SameClocks(r, left)
    <2>1. SameLimits(r, r) /\ SameClocks(r, r)
      BY DEF SameLimits, SameClocks
    <2> QED
      BY <2>1, StampedLimits, StampedClocks
  <1>3. slots' = [slots EXCEPT ![own[o].slot] = left]
    BY DEF Settle
  <1>4. /\ own'[o].slot = own[o].slot /\ own'[o].hook = own[o].hook
        /\ own'[o].step = IF publish THEN "publish" ELSE back
        /\ own'[o].back = IF publish THEN back ELSE "out"
    BY <1>1 DEF Settle, Place
  <1> HIDE DEF left, publish
  <1>5. slots'[own[o].slot] = left /\ SlotOf(o)' = left
    BY <1>1, <1>3, <1>4 DEF SlotOf
  <1> QED
    BY <1>1, <1>2, <1>4, <1>5

\* A slot whose limits stay what they were, under a setter that writes none.
LEMMA LimitsStay ==
  ASSUME NEW o \in Owners, Enforced(o), NEW r, SlotOf(o)' = r, SameLimits(SlotOf(o), r),
         own'[o].hook = own[o].hook,
         own'[o].step # "write" \/ own'[o].ns = 0 \/ UNCHANGED own,
         module.once => module'.once /\ (module.running => module'.running)
  PROVE  Enforced(o)'
BY DEF Enforced, SameLimits, Declared

\* Its own steps keep an owner's limits enforced.
LEMMA OwnerEnforced ==
  ASSUME Typed, EnforcerInv, NEW o \in Owners, Owner(o), Holding(o)'
  PROVE  Enforced(o)'
  <1>1. own \in [Owners -> Place] /\ own[o] \in Place /\ slots \in [Slots -> Slot]
    BY DEF Typed, TypeOK
  <1>2. CASE Acquire(o)
    <2>1. PICK s \in free, captured \in BOOLEAN :
            /\ slots' = [slots EXCEPT ![s] = Acquired(@, o, captured)]
            /\ own' = [own EXCEPT ![o] = [Idle EXCEPT !.slot = s, !.step = "out",
                                                      !.ops = own[o].ops + 1]]
      BY <1>2 DEF Acquire
    <2>2. s \in Slots
      BY DEF Typed, TypeOK
    <2>3. own'[o].slot = s /\ own'[o].step = "out" /\ slots'[s] = Acquired(slots[s], o, captured)
      BY <1>1, <2>1, <2>2 DEF Idle
    <2> QED
      BY <2>3 DEF Enforced, Declared, SlotOf, Acquired, BlankSlot
  <1>3. CASE Release(o)
    BY <1>1, <1>3 DEF Release, Idle, Holding
  <1>4. CASE own[o].step # "none"
    <2>1. /\ Enforced(o) /\ own[o].slot \in Slots /\ SlotOf(o) \in Slot
          /\ ClockOf(o) \in Clock
      BY <1>4, SlotOfType, ClockOfType DEF EnforcerInv, Typed, Tenancy
    <2>2. SameLimits(SlotOf(o), SlotOf(o))
      BY DEF SameLimits
    <2>3. CASE SetLimit(o)
      <3>1. /\ own'[o].slot = own[o].slot /\ own'[o].hook = own[o].hook
            /\ own'[o].step # "write" \/ own'[o].ns = 0
            /\ slots' = slots /\ module' = module
        BY <1>1, <2>3 DEF SetLimit, Place
      <3>2. SlotOf(o)' = SlotOf(o)
        BY <3>1 DEF SlotOf
      <3> QED
        BY <2>1, <2>2, <3>1, <3>2, LimitsStay
    <2>4. CASE Prime(o)
      <3>1. PICK started \in IF module.once THEN {module.running}
                             ELSE {TRUE, ~ThreadMayFail} :
              /\ module' = [module EXCEPT !.once = TRUE, !.running = started,
                                          !.failed = ~started]
              /\ own' = [own EXCEPT ![o] =
                   IF started \/ HookArmed
                   THEN [own[o] EXCEPT !.hook = @ \/ ~started, !.step = "write"]
                   ELSE BackFrom(own[o])]
        BY <2>4 DEF Prime
      <3>2. started \in BOOLEAN /\ module \in ModuleState
        BY DEF Typed, TypeOK, ModuleState
      <3>3. /\ module'.once = TRUE /\ module'.running = started
            /\ module.once => started = module.running
        BY <3>1, <3>2 DEF ModuleState
      <3>4. SlotOf(o)' = SlotOf(o)
        BY <1>1, <2>4, <3>1 DEF Prime, SlotOf, BackFrom, Place
      <3>5. CASE started \/ HookArmed
        <4>1. own'[o].hook = (own[o].hook \/ ~started)
          BY <1>1, <3>1, <3>5 DEF Place
        <4>2. module'.running \/ own'[o].hook
          BY <3>2, <3>3, <4>1
        <4> QED
          BY <2>1, <3>3, <3>4, <4>2 DEF Enforced, Declared
      <3>6. CASE ~(started \/ HookArmed)
        <4>1. own'[o] = BackFrom(own[o])
          BY <1>1, <3>1, <3>6
        <4>2. own'[o].hook = own[o].hook /\ own'[o].step # "write"
          BY <1>1, <4>1 DEF BackFrom, Place
        <4> QED
          BY <2>1, <2>2, <3>3, <3>4, <4>2, LimitsStay
      <3> QED
        BY <3>5, <3>6
    <2>5. CASE WriteLimit(o)
      <3> DEFINE ns == own[o].ns
                 r == IF own[o].budget = "cpu"
                      THEN WithCpuLimit(SlotOf(o), ns, ns \in CoarseLimits)
                      ELSE WithWallLimit(SlotOf(o), ns)
      <3>1. own[o].step = "write" /\ ns \in Nat /\ (ns \in CoarseLimits) \in BOOLEAN
        BY <1>1, <2>5 DEF WriteLimit, At, Place
      <3>2. /\ Declared(WithCpuLimit(SlotOf(o), ns, ns \in CoarseLimits))
            /\ WithCpuLimit(SlotOf(o), ns, ns \in CoarseLimits).hasLimits
                 => ns # 0 \/ SlotOf(o).hasLimits
            /\ Declared(WithWallLimit(SlotOf(o), ns))
            /\ WithWallLimit(SlotOf(o), ns).hasLimits => ns # 0 \/ SlotOf(o).hasLimits
        BY <2>1, <3>1, SetterLimits DEF Enforced
      <3>3. Declared(r) /\ (r.hasLimits => ns # 0 \/ SlotOf(o).hasLimits)
        BY <3>2
      <3>4. /\ slots' = [slots EXCEPT ![own[o].slot] = r] /\ module' = module
            /\ own' = [own EXCEPT ![o] =
                 IF r.hasLimits
                 THEN [own[o] EXCEPT !.step = "republish", !.budget = "cpu", !.ns = 0]
                 ELSE BackFrom(own[o])]
        BY <2>5 DEF WriteLimit
      <3> HIDE DEF r
      <3>5. own'[o].slot = own[o].slot /\ own'[o].hook = own[o].hook /\ own'[o].step # "write"
        BY <1>1, <3>4 DEF BackFrom, Place
      <3>6. SlotOf(o)' = r
        BY <1>1, <2>1, <3>4, <3>5 DEF SlotOf
      <3> QED
        BY <2>1, <3>1, <3>3, <3>4, <3>5, <3>6 DEF Enforced, ns
    <2>6. CASE \E r \in Slot, back \in {"out", "in"}, cost \in {0, 1} :
                 SameLimits(SlotOf(o), r) /\ Settle(o, r, back, cost) /\ module' = module
      <3>1. PICK r \in Slot, back \in {"out", "in"}, cost \in {0, 1} :
              SameLimits(SlotOf(o), r) /\ Settle(o, r, back, cost) /\ module' = module
        BY <2>6
      <3>2. /\ own'[o].hook = own[o].hook /\ own'[o].step # "write"
            /\ SameLimits(r, SlotOf(o)')
        BY <1>4, <3>1, SettleMoves
      <3>3. SameLimits(SlotOf(o), SlotOf(o)')
        BY <3>1, <3>2 DEF SameLimits
      <3> QED
        BY <2>1, <3>1, <3>2, <3>3, LimitsStay
    <2>7. CASE Publish(o) \/ SelfCheck(o) \/ FinalCheck(o) \/ ClearFlag(o)
      <3>1. /\ own'[o].slot = own[o].slot /\ own'[o].hook = own[o].hook
            /\ own'[o].step # "write"
            /\ slots' = slots /\ module' = module
        BY <1>1, <2>7 DEF Publish, SelfCheck, FinalCheck, ClearFlag, At, Place
      <3>2. SlotOf(o)' = SlotOf(o)
        BY <3>1 DEF SlotOf
      <3> QED
        BY <2>1, <2>2, <3>1, <3>2, LimitsStay
    <2>8. CASE Pause(o) \/ Disarm(o)
      <3>1. PICK r \in Slot : slots' = [slots EXCEPT ![own[o].slot] = r]
                              /\ SameLimits(SlotOf(o), r)
        <4>1. CASE Pause(o)
          <5>1. PICK mask \in SUBSET Segments :
                  slots' = [slots EXCEPT ![own[o].slot] = PausedFor(@, mask, ClockOf(o))]
            BY <4>1 DEF Pause
          <5> QED
            BY <2>1, <5>1, PausedForType, CallLimits DEF SlotOf
        <4>2. CASE Disarm(o)
          <5>1. slots' = [slots EXCEPT ![own[o].slot] = Disarmed(SlotOf(o), ClockOf(o))]
            BY <4>2 DEF Disarm, SlotOf
          <5>2. {} \in SUBSET Segments
            OBVIOUS
          <5>3. SameLimits(SlotOf(o), Disarmed(SlotOf(o), ClockOf(o)))
            BY <2>1, <5>2, CallLimits
          <5> QED
            BY <2>1, <5>1, <5>3, DisarmedType
        <4> QED
          BY <2>8, <4>1, <4>2
      <3>2. /\ own'[o].slot = own[o].slot /\ own'[o].hook = own[o].hook
            /\ own'[o].step # "write" /\ module' = module
        BY <1>1, <2>8 DEF Pause, Disarm, At, Place
      <3>3. SlotOf(o)' = r
        BY <1>1, <2>1, <3>1, <3>2 DEF SlotOf
      <3> QED
        BY <2>1, <3>1, <3>2, <3>3, LimitsStay
    <2>9. CASE Republish(o) \/ Arm(o) \/ Resume(o)
      <3>1. CASE Republish(o)
        BY <1>1, <2>1, <2>2, <2>6, <3>1 DEF Republish, Place
      <3>2. CASE Arm(o)
        <4>1. Armed(SlotOf(o), ClockOf(o)) \in Slot /\ {} \in SUBSET Segments
          BY <2>1, ArmedType
        <4>2. SameLimits(SlotOf(o), Armed(SlotOf(o), ClockOf(o)))
          BY <2>1, <4>1, CallLimits
        <4> QED
          BY <2>6, <3>2, <4>1, <4>2 DEF Arm
      <3>3. CASE Resume(o)
        <4>1. PICK mask \in SUBSET Segments :
                Settle(o, ResumedFor(SlotOf(o), mask, ClockOf(o)), "in", 1)
          BY <3>3 DEF Resume
        <4>2. /\ ResumedFor(SlotOf(o), mask, ClockOf(o)) \in Slot
              /\ SameLimits(SlotOf(o), ResumedFor(SlotOf(o), mask, ClockOf(o)))
          BY <2>1, ResumedForType, CallLimits
        <4>3. module' = module
          BY <3>3 DEF Resume
        <4> QED
          BY <2>6, <4>1, <4>2, <4>3
      <3> QED
        BY <2>9, <3>1, <3>2, <3>3
    <2>10. ~Acquire(o)
      BY <1>4 DEF Acquire, At
    <2> QED
      BY <1>3, <2>3, <2>4, <2>5, <2>7, <2>8, <2>9, <2>10 DEF Owner
  <1>5. CASE own[o].step = "none"
    <2>1. ~(Owner(o) /\ ~Acquire(o))
      BY <1>5 DEF Owner, Release, SetLimit, Prime, WriteLimit, Republish,
         Publish, Arm, Pause, Resume, SelfCheck, FinalCheck, Disarm, ClearFlag, At
    <2> QED
      BY <1>2, <2>1
  <1> QED
    BY <1>4, <1>5

\* An owner's step takes nothing from the thread that was started once.
LEMMA OwnerKeepsThread ==
  ASSUME Typed, StartedOnce, NEW o \in Owners, Owner(o)
  PROVE  /\ StartedOnce'
         /\ module.once => module'.once /\ (module.running => module'.running)
  <1>1. CASE Prime(o)
    <2>1. PICK started \in IF module.once THEN {module.running}
                           ELSE {TRUE, ~ThreadMayFail} :
            module' = [module EXCEPT !.once = TRUE, !.running = started,
                                     !.failed = ~started]
      BY <1>1 DEF Prime
    <2>2. module \in ModuleState
      BY DEF Typed, TypeOK
    <2>3. /\ module'.once = TRUE /\ module'.running = started
          /\ module'.phase = module.phase /\ (module.once => started = module.running)
      BY <2>1, <2>2 DEF ModuleState
    <2>4. module.phase = "up"
      BY <1>1 DEF Prime, At, Typed, Tenancy
    <2> QED
      BY <2>3, <2>4 DEF StartedOnce
  <1>2. CASE UNCHANGED module
    BY <1>2 DEF StartedOnce
  <1>3. Prime(o) \/ UNCHANGED module
    BY DEF Owner, Acquire, Release, SetLimit, WriteLimit, Republish, Publish, Arm,
           Pause, Resume, SelfCheck, FinalCheck, Disarm, ClearFlag
  <1> QED
    BY <1>1, <1>2, <1>3

\* Another owner's step leaves this one's place, slot and flag alone.
LEMMA HolderApart ==
  ASSUME Typed, NEW o \in Owners, Owner(o), NEW p \in Owners, p # o, Holding(p)'
  PROVE  /\ Holding(p) /\ own'[p] = own[p] /\ own[p].slot \in Slots
         /\ slots'[own[p].slot] = slots[own[p].slot] /\ SlotOf(p)' = SlotOf(p)
         /\ irq'[p] = irq[p]
  <1>1. own'[p] = own[p]
    BY DEF Owner, Acquire, Release, SetLimit, Prime, WriteLimit, Republish,
           Publish, Arm, Pause, Resume, SelfCheck, FinalCheck, Disarm, ClearFlag,
           Settle, Typed, TypeOK
  <1>2. Holding(p) /\ own[p].step # "none"
    BY <1>1 DEF Holding, Typed, Tenancy
  <1> QED
    BY <1>1, <1>2, OwnersApart DEF SlotOf

\* The thread changes no slot's limits and nothing of what it measured.
LEMMA ServiceSlots ==
  ASSUME Typed, Service, NEW s \in Slots
  PROVE  /\ slots[s] \in Slot /\ slots'[s] \in Slot
         /\ SameLimits(slots[s], slots'[s]) /\ SameClocks(slots[s], slots'[s])
         /\ slots'[s].irq = slots[s].irq
  <1>1. PICK e \in heap :
          LET r == [slots[e.slot] EXCEPT !.queued = FALSE]
              c == ClockOf(r.irq)
              left == Stamped(r, Deadline(r, c))
          IN  \/ UNCHANGED slots
              \/ slots' = [slots EXCEPT ![e.slot] = left]
              \/ slots' = [slots EXCEPT ![e.slot] = r]
    BY DEF Service
  <1> DEFINE r == [slots[e.slot] EXCEPT !.queued = FALSE]
             c == ClockOf(r.irq)
             left == Stamped(r, Deadline(r, c))
  <1>2. /\ e.slot \in Slots /\ slots[e.slot] \in Slot /\ slots \in [Slots -> Slot]
        /\ slots[s] \in Slot
    BY DEF Typed, TypeOK, Entry
  <1>3. /\ r \in Slot /\ r.irq = slots[e.slot].irq
        /\ SameLimits(slots[e.slot], r) /\ SameClocks(slots[e.slot], r)
    BY <1>2, UnqueuedClocks DEF Slot, SameLimits
  <1>4. c \in Clock
    BY ClockOfType DEF Typed
  <1>5. left \in Slot /\ left.irq = r.irq /\ SameLimits(r, left) /\ SameClocks(r, left)
    BY <1>3, <1>4, DeadlineType, StampedType, StampedTicket, StampedLimits, StampedClocks
  <1>6. /\ SameLimits(slots[e.slot], left) /\ SameClocks(slots[e.slot], left)
        /\ SameLimits(slots[s], slots[s]) /\ SameClocks(slots[s], slots[s])
    BY <1>3, <1>5 DEF SameLimits, SameClocks
  <1> HIDE DEF r, c, left
  <1>7. slots' = slots \/ slots' = [slots EXCEPT ![e.slot] = left]
                       \/ slots' = [slots EXCEPT ![e.slot] = r]
    BY <1>1 DEF r, c, left
  <1>8. CASE s = e.slot
    BY <1>2, <1>3, <1>5, <1>6, <1>7, <1>8
  <1>9. CASE s # e.slot
    BY <1>2, <1>6, <1>7, <1>9
  <1> QED
    BY <1>8, <1>9

\* No owner holds a slot when the module is anywhere but up.
LEMMA ModuleEmpty ==
  ASSUME Typed, Module, NEW o \in Owners
  PROVE  ~Holding(o) /\ ~Holding(o)' /\ own[o].step = "none"
  <1>1. module.phase # "up" \/ Shutdown
    BY DEF Module, Join, Teardown, Startup
  <1>2. ~Holding(o) /\ own[o].step = "none"
    BY <1>1 DEF Shutdown, At, Typed, Tenancy
  <1>3. UNCHANGED own
    BY DEF Module, Shutdown, Join, Teardown, Startup
  <1> QED
    BY <1>2, <1>3 DEF Holding

\* EnforcerInv is inductive, given Typed.
LEMMA EnforcerStep ==
  ASSUME Typed, EnforcerInv, [Next]_vars
  PROVE  EnforcerInv'
  <1>1. ASSUME NEW o \in Owners, Owner(o) PROVE EnforcerInv'
    <2>1. /\ StartedOnce'
          /\ module.once => module'.once /\ (module.running => module'.running)
      BY <1>1, OwnerKeepsThread DEF EnforcerInv
    <2>2. ASSUME NEW p \in Owners, Holding(p)' PROVE Enforced(p)'
      <3>1. CASE p = o
        BY <1>1, <2>2, <3>1, OwnerEnforced
      <3>2. CASE p # o
        <4>1. Holding(p) /\ own'[p] = own[p] /\ SlotOf(p)' = SlotOf(p)
          BY <1>1, <2>2, <3>2, HolderApart
        <4>2. Enforced(p)
          BY <4>1 DEF EnforcerInv
        <4> QED
          BY <2>1, <4>1, <4>2 DEF Enforced, Declared
      <3> QED
        BY <3>1, <3>2
    <2> QED
      BY <2>1, <2>2 DEF EnforcerInv
  <1>2. CASE Service
    <2>1. UNCHANGED <<own, module>>
      BY <1>2 DEF Service
    <2>2. ASSUME NEW p \in Owners, Holding(p)' PROVE Enforced(p)'
      <3>1. Holding(p) /\ own[p].slot \in Slots /\ own[p].step # "none"
        BY <2>1, <2>2, SlotOfType DEF Holding, Typed, Tenancy
      <3>2. SameLimits(SlotOf(p), SlotOf(p)')
        BY <1>2, <2>1, <3>1, ServiceSlots DEF SlotOf
      <3>3. Enforced(p)
        BY <3>1 DEF EnforcerInv
      <3> QED
        BY <2>1, <3>2, <3>3, LimitsStay
    <2> QED
      BY <2>1, <2>2 DEF EnforcerInv, StartedOnce
  <1>3. CASE Module
    <2>1. \A p \in Owners : ~Holding(p)'
      BY <1>3, ModuleEmpty
    <2>2. StartedOnce'
      BY <1>3 DEF EnforcerInv, StartedOnce, Module, Shutdown, Join, Teardown, Startup,
                  Typed, TypeOK, ModuleState
    <2> QED
      BY <2>1, <2>2 DEF EnforcerInv
  <1>4. CASE UNCHANGED <<slots, own, module>>
    BY <1>4 DEF EnforcerInv, StartedOnce, Enforced, Declared, SlotOf, Holding
  <1>5. \/ \E o \in Owners : Owner(o)
        \/ Module \/ Service
        \/ UNCHANGED <<slots, own, module>>
    BY DEF Next, WatchdogThread, ClockTurns, Tick, Exit, Sleep, Wake, vars
  <1> QED
    BY <1>1, <1>2, <1>3, <1>4, <1>5

\* No slot is held, and no thread runs, when the module starts.
LEMMA InitEnforcer == Init => EnforcerInv
BY DEF Init, EnforcerInv, StartedOnce, Holding, Idle

\* A limit that was accepted has something to enforce it, as long as it stands:
\* the thread, which nothing but the module's shutdown ends, or the hook of the
\* sandbox that was limited when the thread had been refused.
THEOREM LimitsAreEnforced == Spec => []LimitsHaveAnEnforcer
  <1>1. EnforcerInv => LimitsHaveAnEnforcer
    BY DEF EnforcerInv, Enforced, Holding, LimitsHaveAnEnforcer
  <1> QED
    BY <1>1, InitEnforcer, EnforcerStep, TypedInvariant, PTL DEF Spec

-----------------------------------------------------------------------------
(* A sandbox is billed what it owes                                        *)

\* Owner o is inside a call: where Outside says it is not, or past the boundary.
Inside(o) ==
  \/ own[o].step \in {"in", "checked"}
  \/ own[o].step \in {"prime", "write", "republish", "publish"} /\ own[o].back = "in"

\* A limit too fine for its clock is a limit of wall time too.
Companion(r) == r.cpuWallLimit = IF r.cpuLimit \in CoarseLimits THEN r.cpuLimit ELSE 0

\* The strengthening: the slot's books agree with the ledger segment by segment
\* and not only in total, and a call that runs has its slot armed.
Bill(o) ==
  /\ InHand(SlotOf(o), ClockOf(o), ledger[o])
  /\ Companion(SlotOf(o))
  /\ Inside(o) => SlotOf(o).armed

BillInv == \A o \in Owners : Holding(o) => Bill(o)

\* The setters keep the companion.
LEMMA SetterCompanion ==
  ASSUME NEW r \in Slot, Companion(r), NEW ns
  PROVE  /\ Companion(WithCpuLimit(r, ns, ns \in CoarseLimits))
         /\ Companion(WithWallLimit(r, ns))
BY DEF Companion, WithCpuLimit, WithWallLimit, Slot

\* An owner's books, once its slot's record is r, on unchanged clocks.
LEMMA BillOf ==
  ASSUME NEW o \in Owners, NEW r, InHand(r, ClockOf(o), ledger[o]), Companion(r),
         NEW q \in Slot, SlotOf(o)' = q, SameClocks(r, q), SameLimits(r, q),
         UNCHANGED clocks, Inside(o)' => r.armed
  PROVE  Bill(o)'
  <1>1. ClockOf(o)' = ClockOf(o) /\ ledger'[o] = ledger[o]
    BY DEF ClockOf, clocks
  <1>2. InHand(q, ClockOf(o), ledger[o])
    BY SameClocksInHand
  <1>3. Companion(q) /\ q.armed = r.armed
    BY DEF SameLimits, SameClocks, Companion
  <1> QED
    BY <1>1, <1>2, <1>3 DEF Bill

\* The same, where the step settles at r.
LEMMA SettledBill ==
  ASSUME Typed, NEW o \in Owners, own[o].step # "none", TypeOK',
         NEW r, InHand(r, ClockOf(o), ledger[o]), Companion(r),
         NEW back \in {"out", "in"}, NEW cost, Settle(o, r, back, cost),
         UNCHANGED clocks, back = "in" => r.armed
  PROVE  Bill(o)'
  <1>1. r \in Slot
    BY DEF InHand
  <1>2. /\ own[o].slot \in Slots
        /\ own'[o].step \in {"publish", back}
        /\ own'[o].step = "publish" => own'[o].back = back
        /\ SlotOf(o)' = slots'[own[o].slot]
        /\ SameLimits(r, SlotOf(o)') /\ SameClocks(r, SlotOf(o)')
    BY <1>1, SettleMoves
  <1>3. SlotOf(o)' \in Slot
    BY <1>2 DEF TypeOK
  <1>4. Inside(o)' => r.armed
    BY <1>2 DEF Inside
  <1> QED
    BY <1>2, <1>3, <1>4, BillOf

\* Nothing is in hand twice.
LEMMA SameSlot ==
  ASSUME NEW r
  PROVE  SameClocks(r, r) /\ SameLimits(r, r)
BY DEF SameClocks, SameLimits

\* Owner o leaves a critical section with its slot at r, whose books are right.
Settles(o, r) ==
  /\ r \in Slot /\ InHand(r, ClockOf(o), ledger[o]) /\ Companion(r)
  /\ SameLimits(SlotOf(o), r) /\ SameTicket(SlotOf(o), r)
  /\ \E back \in {"out", "in"}, cost \in {0, 1} :
       Settle(o, r, back, cost) /\ (back = "in" => r.armed)
  /\ UNCHANGED <<free, heap, thread, module, clocks>>

\* That is what republish, arm and resume have in common.
LEMMA SettlesAt ==
  ASSUME Typed, NEW o \in Owners, own[o].step # "none", Quiet(o), Bill(o),
         Republish(o) \/ Arm(o) \/ Resume(o)
  PROVE  \E r : Settles(o, r)
  <1> DEFINE r == SlotOf(o)
  <1>1. /\ own[o] \in Place /\ r \in Slot
        /\ ClockOf(o) \in Clock /\ ledger[o] \in Account
    BY SlotOfType, ClockOfType DEF Typed, TypeOK, Account
  <1>2. /\ InHand(r, ClockOf(o), ledger[o]) /\ Companion(r)
        /\ (Inside(o) => r.armed)
    BY DEF Bill
  <1>3. CASE Republish(o)
    <2>1. own[o].step = "republish" /\ own[o].back \in {"out", "in"}
          /\ Settle(o, r, own[o].back, 0)
      BY <1>1, <1>3 DEF Republish, At, Place
    <2>2. own[o].back = "in" => r.armed
      BY <1>2, <2>1 DEF Inside
    <2>3. SameLimits(r, r) /\ SameTicket(r, r)
      BY DEF SameLimits, SameTicket
    <2> QED
      BY <1>1, <1>2, <1>3, <2>1, <2>2, <2>3 DEF Republish, Settles
  <1>4. CASE Arm(o)
    <2> DEFINE q == Armed(r, ClockOf(o))
    <2>1. own[o].step = "out" /\ Settle(o, q, "in", 1)
      BY <1>4 DEF Arm, At
    <2>2. ~r.armed /\ {} \in SUBSET Segments
      BY <2>1 DEF Quiet, Outside
    <2>3. /\ q \in Slot /\ InHand(q, ClockOf(o), ledger[o]) /\ SameLimits(r, q)
          /\ SameTicket(r, q)
      BY <1>1, <1>2, <2>2, ArmedType, ArmedInHand, CallLimits, ArmedTicket
    <2>4. q.armed
      BY <1>1 DEF Armed, Opened, Slot
    <2>5. Companion(q)
      BY <1>2, <2>3 DEF Companion, SameLimits
    <2> HIDE DEF q
    <2> QED
      BY <1>4, <2>1, <2>3, <2>4, <2>5 DEF Arm, Settles
  <1>5. CASE Resume(o)
    <2>1. PICK mask \in SUBSET Segments :
            Settle(o, ResumedFor(r, mask, ClockOf(o)), "in", 1)
      BY <1>5 DEF Resume
    <2> DEFINE q == ResumedFor(r, mask, ClockOf(o))
    <2>2. r.armed
      BY <1>2, <1>5 DEF Resume, At, Inside
    <2>3. /\ q \in Slot /\ InHand(q, ClockOf(o), ledger[o]) /\ SameLimits(r, q)
          /\ SameTicket(r, q)
      BY <1>1, <1>2, <2>2, ResumedForType, ResumedForInHand, CallLimits, ResumedForTicket
    <2>4. q.armed
      BY <1>1, <2>2 DEF ResumedFor, Opened, Slot
    <2>5. Companion(q)
      BY <1>2, <2>3 DEF Companion, SameLimits
    <2>6. Settle(o, q, "in", 1)
      BY <2>1
    <2> HIDE DEF q
    <2> QED
      BY <1>5, <2>3, <2>4, <2>5, <2>6 DEF Resume, Settles
  <1> QED
    BY <1>3, <1>4, <1>5

\* Its own steps keep an owner's books.
LEMMA OwnerBilled ==
  ASSUME Typed, TypeOK', NEW o \in Owners, Quiet(o), Holding(o) => Bill(o),
         Owner(o), Holding(o)'
  PROVE  Bill(o)'
  <1>1. own \in [Owners -> Place] /\ own[o] \in Place /\ slots \in [Slots -> Slot]
    BY DEF Typed, TypeOK
  <1>2. ClockOf(o) \in Clock /\ ledger[o] \in Account
    BY ClockOfType DEF Typed, TypeOK, Account
  <1>3. CASE Acquire(o)
    <2>1. PICK s \in free, captured \in {TRUE, ~CaptureMayFail} :
            /\ slots' = [slots EXCEPT ![s] = Acquired(@, o, captured)]
            /\ own' = [own EXCEPT ![o] = [Idle EXCEPT !.slot = s, !.step = "out",
                                                      !.ops = own[o].ops + 1]]
            /\ ledger' = [ledger EXCEPT ![o] =
                            [Fresh EXCEPT !.clean = captured /\ readable[o]]]
      BY <1>3 DEF Acquire
    <2> DEFINE l == [Fresh EXCEPT !.clean = captured /\ readable[o]]
               q == Acquired(slots[s], o, captured)
    <2>2. s \in Slots /\ slots[s] \in Slot /\ captured \in BOOLEAN /\ readable[o] \in BOOLEAN
          /\ ledger \in [Owners -> Account]
      BY <1>1 DEF Typed, TypeOK, Account
    <2>3. /\ own'[o].slot = s /\ own'[o].step = "out"
          /\ slots'[s] = q
          /\ ledger'[o] = l
      BY <1>1, <2>1, <2>2 DEF Idle
    <2>4. l \in Account /\ l.cpu = 0 /\ l.wall = 0 /\ l.clean = (captured /\ readable[o])
      BY <2>2 DEF Fresh, Account
    <2>5. ClockOf(o)' = ClockOf(o) /\ ClockOf(o).readable = readable[o]
      BY <1>3 DEF Acquire, ClockOf
    <2> HIDE DEF l
    <2>6. InHand(q, ClockOf(o), l)
      BY <1>2, <2>2, <2>4, <2>5, AcquiredInHand
    <2>7. Companion(q)
      BY WatchdogAssumption DEF Acquired, BlankSlot, Companion
    <2>8. ~Inside(o)'
      BY <2>3 DEF Inside
    <2> HIDE DEF q
    <2>9. SlotOf(o)' = q
      BY <2>3 DEF SlotOf
    <2> QED
      BY <2>3, <2>5, <2>6, <2>7, <2>8, <2>9 DEF Bill
  <1>4. CASE Release(o)
    BY <1>1, <1>4 DEF Release, Idle, Holding
  <1>5. CASE own[o].step # "none" /\ ~Release(o)
    <2> DEFINE r == SlotOf(o)
    <2>1. /\ Bill(o) /\ own[o].slot \in Slots /\ r \in Slot
      BY <1>5, SlotOfType DEF Typed, Tenancy
    <2>2. /\ InHand(r, ClockOf(o), ledger[o]) /\ Companion(r)
          /\ (Inside(o) => r.armed)
      BY <2>1 DEF Bill
    <2>3. UNCHANGED clocks
      BY <1>5 DEF Owner, Acquire, SetLimit, Prime, WriteLimit, Republish, Publish, Arm,
           Pause, Resume, SelfCheck, FinalCheck, Disarm, ClearFlag, At
    <2>4. CASE SetLimit(o) \/ Prime(o) \/ Publish(o) \/ SelfCheck(o) \/ FinalCheck(o)
      <3>1. own'[o].slot = own[o].slot /\ slots' = slots
        <4>1. CASE Prime(o)
          BY <1>1, <4>1 DEF Prime, BackFrom, Place
        <4>2. CASE SetLimit(o)
          BY <1>1, <4>2 DEF SetLimit, Place
        <4>3. CASE Publish(o) \/ SelfCheck(o) \/ FinalCheck(o)
          BY <1>1, <4>3 DEF Publish, SelfCheck, FinalCheck, Place
        <4> QED
          BY <2>4, <4>1, <4>2, <4>3
      <3>2. SlotOf(o)' = r
        BY <3>1 DEF SlotOf
      <3>3. Inside(o)' => Inside(o)
        <4>1. CASE SetLimit(o)
          BY <1>1, <4>1 DEF SetLimit, At, Inside, Place
        <4>2. CASE Prime(o)
          <5>1. \/ own'[o].step = "write" /\ own'[o].back = own[o].back
                \/ own'[o].step = own[o].back
            BY <1>1, <4>2 DEF Prime, BackFrom, Place
          <5>2. own[o].step = "prime" /\ own[o].back \in {"out", "in"}
            BY <1>1, <4>2 DEF Prime, At, Place
          <5> QED
            BY <5>1, <5>2 DEF Inside
        <4>3. CASE Publish(o)
          BY <1>1, <4>3 DEF Publish, At, Inside, Place
        <4>4. CASE SelfCheck(o) \/ FinalCheck(o)
          BY <1>1, <4>4 DEF SelfCheck, FinalCheck, At, Inside, Place
        <4> QED
          BY <2>4, <4>1, <4>2, <4>3, <4>4
      <3> HIDE DEF r
      <3> QED
        BY <2>1, <2>2, <2>3, <3>2, <3>3, SameSlot, BillOf
    <2>5. CASE ClearFlag(o)
      <3>1. own'[o].slot = own[o].slot /\ slots' = slots /\ own'[o].step = "out"
        BY <1>1, <2>5 DEF ClearFlag, Place
      <3>2. SlotOf(o)' = r /\ ~Inside(o)'
        BY <3>1 DEF SlotOf, Inside
      <3> HIDE DEF r
      <3> QED
        BY <2>1, <2>2, <2>3, <3>2, SameSlot, BillOf
    <2>6. CASE WriteLimit(o)
      <3> DEFINE ns == own[o].ns
                 q == IF own[o].budget = "cpu"
                      THEN WithCpuLimit(r, ns, ns \in CoarseLimits)
                      ELSE WithWallLimit(r, ns)
      <3>1. own[o].step = "write" /\ ns \in Nat /\ (ns \in CoarseLimits) \in BOOLEAN
        BY <1>1, <2>6 DEF WriteLimit, At, Place
      <3>2. q \in Slot /\ Companion(q) /\ SameClocks(r, q)
        BY <2>1, <2>2, <3>1, WithLimitType, SetterCompanion, LimitClocks
      <3>3. /\ slots' = [slots EXCEPT ![own[o].slot] = q]
            /\ own' = [own EXCEPT ![o] =
                 IF q.hasLimits
                 THEN [own[o] EXCEPT !.step = "republish", !.budget = "cpu", !.ns = 0]
                 ELSE BackFrom(own[o])]
        BY <2>6 DEF WriteLimit
      <3> HIDE DEF q
      <3>4. /\ own'[o].slot = own[o].slot
            /\ \/ own'[o].step = "republish" /\ own'[o].back = own[o].back
               \/ own'[o].step = own[o].back
        BY <1>1, <3>3 DEF BackFrom, Place
      <3>5. SlotOf(o)' = q
        BY <1>1, <2>1, <3>3, <3>4 DEF SlotOf
      <3>6. own[o].back \in {"out", "in"}
        BY <1>1 DEF Place
      <3>7. Inside(o)' => Inside(o)
        BY <3>1, <3>4, <3>6 DEF Inside
      <3>8. InHand(q, ClockOf(o), ledger[o])
        BY <2>2, <3>2, SameClocksInHand
      <3>9. q.armed = r.armed
        BY <3>2 DEF SameClocks
      <3> HIDE DEF r
      <3> QED
        BY <2>2, <2>3, <3>2, <3>5, <3>7, <3>8, <3>9, SameSlot, BillOf
    <2>7. CASE Pause(o)
      <3>1. PICK mask \in SUBSET Segments :
              slots' = [slots EXCEPT ![own[o].slot] = PausedFor(@, mask, ClockOf(o))]
        BY <2>7 DEF Pause
      <3> DEFINE q == PausedFor(r, mask, ClockOf(o))
      <3>2. own'[o].slot = own[o].slot /\ own[o].step = "in" /\ own'[o].step = "in"
        BY <1>1, <2>7 DEF Pause, At, Place
      <3>3. /\ InHand(q, ClockOf(o), ledger[o]) /\ SameLimits(r, q)
        BY <1>2, <2>1, <2>2, PausedForInHand, CallLimits
      <3>4. q \in Slot
        BY <1>2, <2>1, PausedForType
      <3>5. q.armed = r.armed
        BY <1>2, <2>1 DEF PausedFor, Closed, Slot
      <3>6. SlotOf(o)' = q
        BY <1>1, <2>1, <3>1, <3>2 DEF SlotOf
      <3>7. r.armed
        BY <2>2, <3>2 DEF Inside
      <3>8. Companion(q)
        BY <2>2, <3>3 DEF Companion, SameLimits
      <3> HIDE DEF r, q
      <3> QED
        BY <2>3, <3>3, <3>4, <3>5, <3>6, <3>7, <3>8, SameSlot, BillOf
    <2>8. CASE Disarm(o)
      <3> DEFINE q == Disarmed(r, ClockOf(o))
      <3>1. slots' = [slots EXCEPT ![own[o].slot] = q]
        BY <2>8 DEF Disarm, SlotOf
      <3>2. own'[o].slot = own[o].slot /\ own'[o].step = "disarmed"
        BY <1>1, <2>8 DEF Disarm, Place
      <3>3. {} \in SUBSET Segments
        OBVIOUS
      <3>4. /\ InHand(q, ClockOf(o), ledger[o]) /\ SameLimits(r, q) /\ q \in Slot
        BY <1>2, <2>1, <2>2, <3>3, DisarmedInHand, CallLimits, DisarmedType
      <3>5. SlotOf(o)' = q /\ ~Inside(o)'
        BY <1>1, <2>1, <3>1, <3>2 DEF SlotOf, Inside
      <3>6. Companion(q)
        BY <2>2, <3>4 DEF Companion, SameLimits
      <3> HIDE DEF r, q
      <3> QED
        BY <2>3, <3>4, <3>5, <3>6, SameSlot, BillOf
    <2>9. CASE Republish(o) \/ Arm(o) \/ Resume(o)
      <3>1. PICK q : Settles(o, q)
        BY <1>5, <2>1, <2>9, SettlesAt
      <3>2. PICK back \in {"out", "in"}, cost \in {0, 1} :
              Settle(o, q, back, cost) /\ (back = "in" => q.armed)
        BY <3>1 DEF Settles
      <3>3. InHand(q, ClockOf(o), ledger[o]) /\ Companion(q)
        BY <3>1 DEF Settles
      <3> HIDE DEF r
      <3> QED
        BY <1>5, <2>3, <3>2, <3>3, SettledBill
    <2>10. ~Acquire(o)
      BY <1>5 DEF Acquire, At
    <2> QED
      BY <1>5, <2>4, <2>5, <2>6, <2>7, <2>8, <2>9, <2>10 DEF Owner
  <1>6. CASE own[o].step = "none"
    <2>1. Acquire(o)
      BY <1>6 DEF Owner, Release, SetLimit, Prime, WriteLimit, Republish,
         Publish, Arm, Pause, Resume, SelfCheck, FinalCheck, Disarm, ClearFlag, At
    <2> QED
      BY <1>3, <2>1
  <1> QED
    BY <1>4, <1>5, <1>6

\* Time passes, for the clocks and for the ledger.
LEMMA TickBilled ==
  ASSUME Typed, BillInv, Tick
  PROVE  BillInv'
  <1>1. PICK ran \in SUBSET Owners :
          /\ cpu' = [o \in Owners |-> IF o \in ran THEN cpu[o] + 1 ELSE cpu[o]]
          /\ ledger' = [o \in Owners |->
               [ledger[o] EXCEPT
                  !.cpu = IF Owes(o, "cpu") /\ o \in ran THEN @ + 1 ELSE @,
                  !.wall = IF Owes(o, "wall") THEN @ + 1 ELSE @]]
    BY DEF Tick
  <1>2. now' = now + 1 /\ UNCHANGED <<slots, own, readable>>
    BY DEF Tick
  <1>3. ASSUME NEW o \in Owners, Holding(o)' PROVE Bill(o)'
    <2> DEFINE r == SlotOf(o)
               c == ClockOf(o)
               d == [wall |-> now + 1, cpu |-> IF o \in ran THEN cpu[o] + 1 ELSE cpu[o],
                     readable |-> readable[o]]
               l == ledger[o]
               k == [ledger[o] EXCEPT
                       !.cpu = IF Owes(o, "cpu") /\ o \in ran THEN @ + 1 ELSE @,
                       !.wall = IF Owes(o, "wall") THEN @ + 1 ELSE @]
    <2>1. Holding(o) /\ Bill(o)
      BY <1>2, <1>3 DEF Holding, BillInv
    <2>2. c \in Clock /\ l \in Account
      BY ClockOfType DEF Typed, TypeOK, Account
    <2>3. /\ c.wall = now /\ c.cpu = cpu[o] /\ c.readable = readable[o]
          /\ now \in Nat /\ cpu[o] \in Nat /\ readable[o] \in BOOLEAN
      BY DEF ClockOf, Typed, TypeOK
    <2>4. ClockOf(o)' = d /\ ledger'[o] = k
      BY <1>1, <1>2 DEF ClockOf
    <2>5. /\ d \in Clock /\ d.wall = c.wall + 1 /\ d.readable = c.readable
          /\ d.cpu = IF o \in ran THEN c.cpu + 1 ELSE c.cpu
      BY <2>3 DEF Clock
    <2>6. l.cpu \in Nat /\ l.wall \in Nat /\ l.clean \in BOOLEAN
      BY <2>2 DEF Account
    <2>7. /\ k.clean = l.clean
          /\ k.wall = IF Owes(o, "wall") THEN l.wall + 1 ELSE l.wall
          /\ k.cpu = IF Owes(o, "cpu") /\ o \in ran THEN l.cpu + 1 ELSE l.cpu
      BY <2>2 DEF Account
    <2>8. k \in Account
      <3>1. (IF Owes(o, "cpu") /\ o \in ran THEN ledger[o].cpu + 1 ELSE ledger[o].cpu) \in Nat
        BY <2>6
      <3>2. (IF Owes(o, "wall") THEN ledger[o].wall + 1 ELSE ledger[o].wall) \in Nat
        BY <2>6
      <3> QED
        BY <2>2, <3>1, <3>2 DEF Account
    <2>9. /\ Owes(o, "wall") = (r.armed /\ "wall" \notin r.paused)
          /\ Owes(o, "cpu") = (r.armed /\ "cpu" \notin r.paused)
      BY <2>1 DEF Owes, Holding
    <2>10. InHand(r, c, l)
      BY <2>1 DEF Bill
    <2> HIDE DEF r, c, d, l, k
    <2>11. (o \in ran) \in BOOLEAN
      OBVIOUS
    <2>12. InHand(r, d, k)
      BY <2>2, <2>5, <2>7, <2>8, <2>9, <2>10, <2>11, TickInHand
    <2>13. SlotOf(o)' = r /\ (Inside(o)' <=> Inside(o))
      BY <1>2 DEF SlotOf, r, Inside
    <2> QED
      BY <2>1, <2>4, <2>12, <2>13 DEF Bill, r
  <1> QED
    BY <1>3 DEF BillInv

\* A CPU clock that starts or stops failing leaves the account unclean.
LEMMA TurnBilled ==
  ASSUME Typed, BillInv, NEW o \in Owners, ClockTurns(o)
  PROVE  BillInv'
  <1>1. /\ readable' = [readable EXCEPT ![o] = ~@]
        /\ ledger' = [ledger EXCEPT ![o].clean = FALSE]
        /\ UNCHANGED <<slots, own, now, cpu>>
    BY DEF ClockTurns
  <1>2. ASSUME NEW p \in Owners, Holding(p)' PROVE Bill(p)'
    <2>1. Holding(p) /\ Bill(p) /\ SlotOf(p)' = SlotOf(p) /\ (Inside(p)' <=> Inside(p))
      BY <1>1, <1>2 DEF Holding, BillInv, SlotOf, Inside
    <2>2. ledger \in [Owners -> Account] /\ readable \in [Owners -> BOOLEAN]
      BY DEF Typed, TypeOK, Account
    <2>3. CASE p # o
      <3>1. ClockOf(p)' = ClockOf(p) /\ ledger'[p] = ledger[p]
        BY <1>1, <2>2, <2>3 DEF ClockOf
      <3> QED
        BY <2>1, <3>1 DEF Bill
    <2>4. CASE p = o
      <3> DEFINE c == ClockOf(p)
                 d == ClockOf(p)'
                 l == ledger[p]
                 k == ledger'[p]
                 r == SlotOf(p)
      <3>1. d.wall = c.wall /\ d.cpu = c.cpu
        BY <1>1 DEF ClockOf
      <3>2. k.clean = FALSE /\ k.wall = l.wall /\ k.cpu = l.cpu
        BY <1>1, <2>2, <2>4 DEF Account
      <3>3. InHand(r, c, l)
        BY <2>1 DEF Bill
      <3> HIDE DEF c, d, l, k, r
      <3>4. WallRun(r, d) = WallRun(r, c) /\ CpuRun(r, d) = CpuRun(r, c)
        BY <3>1 DEF WallRun, CpuRun
      <3>5. InHand(r, d, k)
        BY <3>1, <3>2, <3>3, <3>4 DEF InHand, Sampling, Agrees
      <3> QED
        BY <2>1, <3>5 DEF Bill, r, d, k
    <2> QED
      BY <2>3, <2>4
  <1> QED
    BY <1>2 DEF BillInv

\* BillInv is inductive, given Typed and Quiescence.
LEMMA BillStep ==
  ASSUME Typed, Typed', Quiescence, BillInv, [Next]_vars
  PROVE  BillInv'
  <1>1. ASSUME NEW o \in Owners, Owner(o) PROVE BillInv'
    <2>1. ASSUME NEW p \in Owners, Holding(p)' PROVE Bill(p)'
      <3>1. CASE p = o
        BY <1>1, <2>1, <3>1, OwnerBilled DEF BillInv, Quiescence, Typed
      <3>2. CASE p # o
        <4>1. Holding(p) /\ own'[p] = own[p] /\ SlotOf(p)' = SlotOf(p)
          BY <1>1, <2>1, <3>2, HolderApart
        <4>2. ledger'[p] = ledger[p] /\ UNCHANGED <<now, cpu, readable>>
          <5>1. ledger \in [Owners -> Account]
            BY DEF Typed, TypeOK, Account
          <5> QED
            BY <1>1, <3>2, <5>1
               DEF Owner, Acquire, Release, SetLimit, Prime, WriteLimit, Republish,
                   Publish, Arm, Pause, Resume, SelfCheck, FinalCheck, Disarm,
                   ClearFlag, clocks
        <4>3. Bill(p)
          BY <4>1 DEF BillInv
        <4> QED
          BY <4>1, <4>2, <4>3 DEF Bill, Inside, ClockOf
      <3> QED
        BY <3>1, <3>2
    <2> QED
      BY <2>1 DEF BillInv
  <1>2. CASE Service
    <2>1. UNCHANGED own /\ UNCHANGED clocks
      BY <1>2 DEF Service
    <2>2. ASSUME NEW p \in Owners, Holding(p)' PROVE Bill(p)'
      <3>1. Holding(p) /\ own[p].slot \in Slots /\ own[p].step # "none"
        BY <2>1, <2>2, SlotOfType DEF Holding, Typed, Tenancy
      <3>2. /\ SlotOf(p) \in Slot /\ SlotOf(p)' \in Slot
            /\ SameLimits(SlotOf(p), SlotOf(p)') /\ SameClocks(SlotOf(p), SlotOf(p)')
        BY <1>2, <2>1, <3>1, ServiceSlots DEF SlotOf
      <3>3. Bill(p)
        BY <3>1 DEF BillInv
      <3>4. Inside(p)' => SlotOf(p).armed
        BY <2>1, <3>3 DEF Bill, Inside
      <3>5. InHand(SlotOf(p), ClockOf(p), ledger[p]) /\ Companion(SlotOf(p))
        BY <3>3 DEF Bill
      <3> QED
        BY <2>1, <3>2, <3>4, <3>5, BillOf
    <2> QED
      BY <2>2 DEF BillInv
  <1>3. CASE Module
    BY <1>3, ModuleEmpty DEF BillInv
  <1>4. CASE Tick
    BY <1>4, TickBilled
  <1>5. CASE \E o \in Owners : ClockTurns(o)
    BY <1>5, TurnBilled
  <1>6. CASE UNCHANGED <<slots, own, clocks>>
    BY <1>6 DEF BillInv, Bill, Inside, SlotOf, ClockOf, Holding, clocks
  <1>7. \/ \E o \in Owners : Owner(o)
        \/ Module \/ Service \/ Tick \/ \E o \in Owners : ClockTurns(o)
        \/ UNCHANGED <<slots, own, clocks>>
    BY DEF Next, WatchdogThread, Exit, Sleep, Wake, vars, clocks
  <1> QED
    BY <1>1, <1>2, <1>3, <1>4, <1>5, <1>6, <1>7

\* Nobody owes anything when the module starts.
LEMMA InitBill == Init => BillInv
BY DEF Init, BillInv, Holding, Idle

\* What the proofs after this one stand on.
WatchInv == Typed /\ Quiescence /\ EnforcerInv /\ BillInv

\* They hold together.
LEMMA WatchInvStep == WatchInv /\ [Next]_vars => WatchInv'
  <1> SUFFICES ASSUME WatchInv, [Next]_vars PROVE WatchInv'
    OBVIOUS
  <1>1. Typed'
    BY NextTyped DEF WatchInv
  <1>2. Quiescence'
    BY QuietStep DEF WatchInv
  <1>3. EnforcerInv'
    BY EnforcerStep DEF WatchInv
  <1>4. BillInv'
    BY <1>1, BillStep DEF WatchInv
  <1> QED
    BY <1>1, <1>2, <1>3, <1>4 DEF WatchInv

\* The inductive invariant of the watchdog: who holds which slot, that nothing
\* is armed between calls, that every limit is enforced, and that the books of
\* every slot agree with what its sandbox used.
THEOREM WatchdogHolds == Spec => []WatchInv
  <1>1. Init => WatchInv
    BY InitTyped, InitQuiet, InitEnforcer, InitBill DEF WatchInv
  <1> QED
    BY <1>1, WatchInvStep, PTL DEF Spec

\* A sandbox is billed what it owes, to the unit: its wall time always, its CPU
\* time while its clock answered, and never more than that; over any sequence
\* of calls, pauses, resumes and limits changed in the middle.
THEOREM BillingIsExact == Spec => []BilledExactly
  <1>1. WatchInv => BilledExactly
    <2> SUFFICES ASSUME WatchInv, NEW o \in Owners, own[o].slot # NoSlot
                 PROVE  LET r == SlotOf(o)
                            c == ClockOf(o)
                        IN  /\ WallSpent(r, c) = ledger[o].wall
                            /\ CpuSpent(r, c) <= ledger[o].cpu
                            /\ ledger[o].clean => CpuSpent(r, c) = ledger[o].cpu
      BY DEF BilledExactly
    <2> DEFINE r == SlotOf(o)
               c == ClockOf(o)
    <2>1. InHand(r, c, ledger[o])
      BY DEF WatchInv, BillInv, Bill, Holding
    <2>2. c \in Clock /\ ledger[o] \in Account
      BY ClockOfType DEF WatchInv, Typed, TypeOK, Account
    <2> HIDE DEF r, c
    <2>3. r \in Slot /\ Sampling(r, c) /\ Agrees(r, c, ledger[o])
      BY <2>1 DEF InHand
    <2>4. /\ WallSpent(r, c) = WallRun(r, c)
          /\ CpuSpent(r, c) <= CpuRun(r, c)
          /\ c.readable => CpuSpent(r, c) = CpuRun(r, c)
          /\ CpuRun(r, c) \in Nat /\ CpuSpent(r, c) \in Nat
      BY <2>2, <2>3, SampledIsRun, SpentType
    <2>5. ledger[o].cpu \in Nat
      BY <2>2 DEF Account
    <2>6. WallSpent(r, c) = ledger[o].wall /\ CpuSpent(r, c) <= ledger[o].cpu
      BY <2>3, <2>4, <2>5 DEF Agrees
    <2>7. ledger[o].clean => CpuSpent(r, c) = ledger[o].cpu
      BY <2>3, <2>4 DEF Agrees
    <2> QED
      BY <2>6, <2>7 DEF r, c
  <1> QED
    BY <1>1, WatchdogHolds, PTL

-----------------------------------------------------------------------------
(* What an evaluation finds, and what that says of the ledger              *)

\* A budget is used up, by the account.
Overdrawn(r, l) ==
  \/ r.cpuLimit # 0 /\ l.cpu >= r.cpuLimit
  \/ r.cpuLimit \in CoarseLimits /\ l.wall >= r.cpuLimit
  \/ r.wallLimit # 0 /\ l.wall >= r.wallLimit

\* A slot trips only for a budget that is really used up, or for a CPU clock
\* that failed.
LEMMA TripIsEarned ==
  ASSUME NEW r, NEW c \in Clock, NEW l \in Account, InHand(r, c, l), Companion(r),
         Verdict(r, c) # "none"
  PROVE  \/ Overdrawn(r, l)
         \/ Verdict(r, c) = "cpu" /\ ~l.clean
  <1>1. r \in Slot /\ Sampling(r, c) /\ Agrees(r, c, l) /\ CoarseLimits \subseteq Nat \ {0}
    BY DEF InHand
  <1>2. /\ WallSpent(r, c) = l.wall /\ CpuSpent(r, c) <= CpuRun(r, c)
        /\ CpuRun(r, c) <= l.cpu /\ CpuRun(r, c) \in Nat /\ CpuSpent(r, c) \in Nat
    BY <1>1, SampledIsRun, SpentType DEF Agrees
  <1>3. /\ l.cpu \in Nat /\ l.wall \in Nat /\ l.clean \in BOOLEAN
        /\ r.cpuLimit \in Nat /\ r.wallLimit \in Nat
    BY <1>1 DEF Account, Slot
  <1>4. CASE CpuBreached(r, c)
    <2>1. Verdict(r, c) = "cpu"
      BY <1>4 DEF Verdict
    <2>2. CpuLost(r, c) \/ r.cpuOpenFailed => ~l.clean
      BY <1>1 DEF CpuLost, Agrees
    <2>3. r.cpuLimit # 0 /\ CpuSpent(r, c) >= r.cpuLimit => Overdrawn(r, l)
      BY <1>2, <1>3 DEF Overdrawn
    <2>4. r.cpuWallLimit # 0 /\ WallSpent(r, c) >= r.cpuWallLimit => Overdrawn(r, l)
      BY <1>2, <1>3 DEF Companion, Overdrawn
    <2> QED
      BY <1>4, <2>1, <2>2, <2>3, <2>4 DEF CpuBreached
  <1>5. CASE ~CpuBreached(r, c)
    <2>1. WallBreached(r, c)
      BY <1>5 DEF Verdict
    <2> QED
      BY <1>2, <2>1 DEF WallBreached, Overdrawn
  <1> QED
    BY <1>4, <1>5

\* A slot that does not trip is within its budgets, while its clock answered.
LEMMA PassIsHonest ==
  ASSUME NEW r, NEW c \in Clock, NEW l \in Account, InHand(r, c, l), Companion(r),
         r.armed, r.irq # NoIrq, Verdict(r, c) = "none", l.clean
  PROVE  ~Overdrawn(r, l)
  <1>1. r \in Slot /\ Sampling(r, c) /\ Agrees(r, c, l) /\ CoarseLimits \subseteq Nat \ {0}
    BY DEF InHand
  <1>2. WallSpent(r, c) = l.wall /\ CpuSpent(r, c) = l.cpu
    BY <1>1, SampledIsRun DEF Agrees
  <1>3. /\ l.cpu \in Nat /\ l.wall \in Nat /\ r.cpuLimit \in Nat /\ r.wallLimit \in Nat
    BY <1>1 DEF Account, Slot
  <1>4. ~CpuBreached(r, c) /\ ~WallBreached(r, c)
    BY DEF Verdict
  <1>5. r.cpuLimit # 0 => ~(l.cpu >= r.cpuLimit)
    BY <1>2, <1>4 DEF CpuBreached
  <1>6. r.cpuLimit \in CoarseLimits => ~(l.wall >= r.cpuLimit)
    BY <1>1, <1>2, <1>4 DEF CpuBreached, Companion
  <1>7. r.wallLimit # 0 => ~(l.wall >= r.wallLimit)
    BY <1>2, <1>4 DEF WallBreached
  <1> QED
    BY <1>5, <1>6, <1>7 DEF Overdrawn

\* OverBudget reads the slot and the ledger.
LEMMA OverBudgetReads ==
  ASSUME NEW o \in Owners
  PROVE  OverBudget(o) = Overdrawn(SlotOf(o), ledger[o])
BY DEF OverBudget, Overdrawn

-----------------------------------------------------------------------------
(* The boundary of a call                                                  *)

\* The step a call leaves its inside by with success in view is its last check,
\* and that check found nothing if the flag is down after it.
LEMMA BoundaryCheck ==
  ASSUME WatchInv, [Next]_vars, NEW o \in Owners, At(o, "in"), At(o, "checked")',
         irq'[o] = "none"
  PROVE  LET r == SlotOf(o) IN
         /\ Bill(o) /\ Declared(r) /\ r \in Slot /\ r.armed /\ r.irq # NoIrq
         /\ r.hasLimits => Verdict(r, ClockOf(o)) = "none"
         /\ ClockOf(o) \in Clock /\ ledger[o] \in Account
  <1>1. /\ own \in [Owners -> Place] /\ own[o] \in Place /\ irq \in [Owners -> Flag]
        /\ own[o].step = "in" /\ Typed
    BY DEF WatchInv, Typed, TypeOK, At
  <1>2. own'[o].step = "checked"
    BY DEF At
  <1>3. FinalCheck(o)
    <2>1. ASSUME NEW p \in Owners, Owner(p) PROVE p = o
      BY <1>1, <1>2, <2>1, OwnersApart
    <2>2. Owner(o)
      <3>1. \/ \E p \in Owners : Owner(p)
            \/ UNCHANGED own
        BY DEF Next, WatchdogThread, Module, ClockTurns, Tick, Exit, Sleep, Wake, Service,
               Shutdown, Join, Teardown, Startup, vars
      <3> QED
        BY <1>1, <1>2, <2>1, <3>1
    <2>3. ASSUME NEW r, NEW cost PROVE ~Settle(o, r, "in", cost)
      BY <1>1, <1>2 DEF Settle, Place
    <2>4. ~Arm(o) /\ ~Republish(o) /\ ~Resume(o)
      BY <1>1, <2>3 DEF Arm, Republish, Resume, At
    <2>5. ~SetLimit(o)
      <3>1. SetLimit(o) => own'[o].step \in {"write", "prime"}
        BY <1>1 DEF SetLimit, Place
      <3> QED
        BY <1>2, <3>1
    <2>6. ~Pause(o) /\ ~SelfCheck(o)
      BY <1>1, <1>2 DEF Pause, SelfCheck, Place
    <2>7. ~Disarm(o)
      BY <1>1, <1>2 DEF Disarm, Place
    <2> QED
      BY <1>1, <2>2, <2>4, <2>5, <2>6, <2>7
         DEF Owner, Acquire, Release, Prime, WriteLimit, Publish, ClearFlag, At
  <1>4. Holding(o) /\ SlotOf(o) \in Slot /\ SlotOf(o).irq = o
    BY <1>1, SlotOfType DEF Typed, Tenancy
  <1>5. Bill(o) /\ Declared(SlotOf(o))
    BY <1>4 DEF WatchInv, BillInv, EnforcerInv, Enforced
  <1>6. SlotOf(o).armed
    BY <1>1, <1>5 DEF Bill, Inside
  <1>7. SlotOf(o).hasLimits => Verdict(SlotOf(o), ClockOf(o)) = "none"
    BY <1>1, <1>3 DEF FinalCheck, Raise
  <1>8. ClockOf(o) \in Clock /\ ledger[o] \in Account
    BY <1>1, ClockOfType DEF Typed, TypeOK, Account
  <1> QED
    BY <1>4, <1>5, <1>6, <1>7, <1>8

\* A call that reports success was within its budgets when its boundary sampled
\* it, however late the watchdog thread runs.
THEOREM SuccessIsHonest == Spec => HonestReturn
  <1>1. ASSUME WatchInv, [Next]_vars, NEW o \in Owners, At(o, "in"), At(o, "checked")',
               irq'[o] = "none", ledger[o].clean
        PROVE  ~OverBudget(o)
    <2> DEFINE r == SlotOf(o)
    <2>1. /\ Bill(o) /\ Declared(r) /\ r \in Slot /\ r.armed /\ r.irq # NoIrq
          /\ r.hasLimits => Verdict(r, ClockOf(o)) = "none"
          /\ ClockOf(o) \in Clock /\ ledger[o] \in Account
      BY <1>1, BoundaryCheck
    <2>2. InHand(r, ClockOf(o), ledger[o]) /\ Companion(r)
      BY <2>1 DEF Bill
    <2> HIDE DEF r
    <2>3. CASE r.hasLimits
      BY <1>1, <2>1, <2>2, <2>3, PassIsHonest, OverBudgetReads DEF r
    <2>4. CASE ~r.hasLimits
      <3>1. ~Overdrawn(r, ledger[o])
        BY <2>1, <2>4 DEF Declared, Overdrawn
      <3> QED
        BY <3>1, OverBudgetReads DEF r
    <2> QED
      BY <2>3, <2>4
  <1>2. WatchInv /\ [Next]_vars =>
          [\A o \in Owners :
             At(o, "in") /\ At(o, "checked")' /\ irq'[o] = "none" /\ ledger[o].clean
               => ~OverBudget(o)]_vars
    BY <1>1
  <1> QED
    BY <1>2, WatchdogHolds, PTL DEF Spec, HonestReturn

\* The CPU budget is measured or the call fails: a limited call that reports
\* success, and has not paused its CPU clock, is reading it.
THEOREM BudgetIsMeasured == Spec => MeasuredOrStopped
  <1>1. ASSUME WatchInv, [Next]_vars, NEW o \in Owners, At(o, "in"), At(o, "checked")',
               irq'[o] = "none",
               SlotOf(o).hasLimits, SlotOf(o).clockOk, "cpu" \notin SlotOf(o).paused
        PROVE  "cpu" \in SlotOf(o).open /\ readable[o]
    <2> DEFINE r == SlotOf(o)
    <2>1. /\ Bill(o) /\ r \in Slot /\ r.armed /\ r.irq # NoIrq
          /\ Verdict(r, ClockOf(o)) = "none"
      BY <1>1, BoundaryCheck
    <2>2. Sampling(r, ClockOf(o))
      BY <2>1 DEF Bill, InHand
    <2>3. ~CpuLost(r, ClockOf(o)) /\ ~r.cpuOpenFailed
      BY <2>1 DEF Verdict, CpuBreached
    <2>4. "cpu" \in r.open
      BY <1>1, <2>1, <2>2, <2>3 DEF Sampling
    <2>5. ClockOf(o).readable = readable[o]
      BY DEF ClockOf
    <2> QED
      BY <1>1, <2>3, <2>4, <2>5 DEF CpuLost
  <1>2. WatchInv /\ [Next]_vars =>
          [\A o \in Owners :
             At(o, "in") /\ At(o, "checked")' /\ irq'[o] = "none" =>
               LET r == SlotOf(o) IN
               r.hasLimits /\ r.clockOk /\ "cpu" \notin r.paused
                 => "cpu" \in r.open /\ readable[o]]_vars
    BY <1>1
  <1> QED
    BY <1>2, WatchdogHolds, PTL DEF Spec, MeasuredOrStopped

-----------------------------------------------------------------------------
(* A flag goes up for a reason                                             *)

\* Only a verdict moves a flag that is raised, and only its owner's.
LEMMA RaiseReads ==
  ASSUME TypeOK, NEW p, NEW v, irq' = Raise(p, v), NEW o \in Owners, irq'[o] # irq[o]
  PROVE  p = o /\ v # "none" /\ irq'[o] = v
BY DEF TypeOK, Raise

\* The flag of o goes up over the record r of its slot.
TripsAt(o, r) ==
  /\ Holding(o) /\ own'[o].slot = own[o].slot
  /\ InHand(r, ClockOf(o), ledger[o]) /\ Companion(r)
  /\ Verdict(r, ClockOf(o)) = irq'[o]
  /\ SameLimits(r, SlotOf(o)')
  /\ UNCHANGED clocks

\* Whoever raises it, the owner or the thread.
LEMMA TripIsAVerdict ==
  ASSUME WatchInv, [Next]_vars, NEW o \in Owners,
         irq'[o] # irq[o], irq'[o] \in {"cpu", "wall"}
  PROVE  \E r : TripsAt(o, r)
  <1>1. /\ Typed /\ TypeOK /\ own \in [Owners -> Place] /\ own[o] \in Place
        /\ irq \in [Owners -> Flag] /\ slots \in [Slots -> Slot]
    BY DEF WatchInv, Typed, TypeOK
  <1>2. CASE Owner(o)
    <2>1. ~Acquire(o) /\ ~Release(o) /\ ~ClearFlag(o)
      BY <1>1 DEF Acquire, Release, ClearFlag
    <2>2. own[o].step # "none"
      BY <1>2, <2>1 DEF Owner, SetLimit, Prime, WriteLimit, Republish,
         Publish, Arm, Pause, Resume, SelfCheck, FinalCheck, Disarm, At
    <2>3. Holding(o) /\ SlotOf(o) \in Slot /\ own[o].slot \in Slots
      BY <1>1, <2>2, SlotOfType DEF Typed, Tenancy
    <2>4. Quiet(o) /\ Bill(o)
      BY <2>3 DEF WatchInv, Quiescence, BillInv
    <2>5. CASE Republish(o) \/ Arm(o) \/ Resume(o)
      <3>1. PICK r : Settles(o, r)
        BY <1>1, <2>2, <2>4, <2>5, SettlesAt
      <3>2. PICK back \in {"out", "in"}, cost \in {0, 1} : Settle(o, r, back, cost)
        BY <3>1 DEF Settles
      <3>3. r \in Slot /\ InHand(r, ClockOf(o), ledger[o]) /\ Companion(r) /\ UNCHANGED clocks
        BY <3>1 DEF Settles
      <3>4. own'[o].slot = own[o].slot /\ SameLimits(r, SlotOf(o)')
        BY <1>1, <2>2, <3>2, <3>3, SettleMoves
      <3>5. irq' = Raise(o, IF r.hasLimits THEN Verdict(r, ClockOf(o)) ELSE "none")
        BY <3>2 DEF Settle
      <3>6. Verdict(r, ClockOf(o)) = irq'[o]
        BY <1>1, <3>5, RaiseReads
      <3> QED
        BY <2>3, <3>3, <3>4, <3>6 DEF TripsAt
    <2>6. CASE SelfCheck(o) \/ FinalCheck(o)
      <3>1. /\ irq' = Raise(o, Verdict(SlotOf(o), ClockOf(o)))
            /\ UNCHANGED clocks /\ slots' = slots
        BY <2>6 DEF SelfCheck, FinalCheck
      <3>2. own'[o].slot = own[o].slot
        BY <1>1, <2>6 DEF SelfCheck, FinalCheck, Place
      <3>3. SlotOf(o)' = SlotOf(o) /\ SameLimits(SlotOf(o), SlotOf(o))
        BY <3>1, <3>2 DEF SlotOf, SameLimits
      <3>4. Verdict(SlotOf(o), ClockOf(o)) = irq'[o]
        BY <1>1, <3>1, RaiseReads
      <3> QED
        BY <2>3, <2>4, <3>1, <3>2, <3>3, <3>4 DEF TripsAt, Bill
    <2>7. CASE SetLimit(o) \/ Prime(o) \/ WriteLimit(o) \/ Publish(o) \/ Pause(o) \/ Disarm(o)
      BY <2>7 DEF SetLimit, Prime, WriteLimit, Publish, Pause, Disarm
    <2> QED
      BY <1>2, <2>1, <2>5, <2>6, <2>7 DEF Owner
  <1>3. ASSUME NEW p \in Owners, Owner(p), p # o PROVE FALSE
    <2>1. CASE \E v : irq' = Raise(p, v)
      BY <1>1, <1>3, <2>1, RaiseReads
    <2>2. CASE \E v : irq' = [irq EXCEPT ![p] = v]
      BY <1>1, <1>3, <2>2
    <2>3. CASE Republish(p) \/ Arm(p) \/ Resume(p)
      <3>1. \E r, back, cost : Settle(p, r, back, cost)
        BY <2>3 DEF Republish, Arm, Resume
      <3> QED
        BY <2>1, <3>1 DEF Settle
    <2>4. CASE SelfCheck(p) \/ FinalCheck(p)
      BY <2>1, <2>4 DEF SelfCheck, FinalCheck
    <2>5. CASE Acquire(p) \/ Release(p) \/ ClearFlag(p)
      BY <2>2, <2>5 DEF Acquire, Release, ClearFlag
    <2>6. CASE SetLimit(p) \/ Prime(p) \/ WriteLimit(p) \/ Publish(p) \/ Pause(p) \/ Disarm(p)
      BY <2>6 DEF SetLimit, Prime, WriteLimit, Publish, Pause, Disarm
    <2> QED
      BY <1>3, <2>3, <2>4, <2>5, <2>6 DEF Owner
  <1>4. CASE Service
    <2>1. PICK e \in heap :
            LET r == [slots[e.slot] EXCEPT !.queued = FALSE] IN
            irq' = irq \/ irq' = Raise(r.irq, Verdict(r, ClockOf(r.irq)))
      BY <1>4 DEF Service
    <2> DEFINE r == [slots[e.slot] EXCEPT !.queued = FALSE]
    <2>2. e.slot \in Slots /\ slots[e.slot] \in Slot
      BY <1>1 DEF TypeOK, Entry
    <2>3. /\ r \in Slot /\ r.irq = slots[e.slot].irq
          /\ SameClocks(slots[e.slot], r) /\ SameLimits(slots[e.slot], r)
      BY <2>2, UnqueuedClocks DEF Slot, SameLimits
    <2>4. irq' = Raise(r.irq, Verdict(r, ClockOf(r.irq)))
      BY <2>1
    <2> HIDE DEF r
    <2>5. r.irq = o /\ Verdict(r, ClockOf(o)) = irq'[o]
      BY <1>1, <2>4, RaiseReads
    <2>6. own[o].slot = e.slot /\ Holding(o) /\ SlotOf(o) = slots[e.slot]
      <3>1. slots[e.slot].irq = o
        BY <2>3, <2>5
      <3>2. \A s \in Slots : slots[s].irq \in Owners => own[slots[s].irq].slot = s
        BY <1>1 DEF Typed, Tenancy
      <3>3. own[o].slot = e.slot
        BY <2>2, <3>1, <3>2
      <3>4. e.slot # NoSlot
        BY <2>2, WatchdogAssumption
      <3> QED
        BY <3>3, <3>4 DEF Holding, SlotOf
    <2>7. InHand(SlotOf(o), ClockOf(o), ledger[o]) /\ Companion(SlotOf(o))
      BY <2>6 DEF WatchInv, BillInv, Bill
    <2>8. InHand(r, ClockOf(o), ledger[o]) /\ Companion(r)
      BY <2>3, <2>6, <2>7, SameClocksInHand DEF Companion, SameLimits
    <2>9. UNCHANGED own /\ UNCHANGED clocks
      BY <1>4 DEF Service
    <2>10. SameLimits(slots[e.slot], slots'[e.slot])
      BY <1>1, <1>4, <2>2, ServiceSlots
    <2>11. SameLimits(r, SlotOf(o)')
      BY <2>3, <2>6, <2>9, <2>10 DEF SlotOf, SameLimits
    <2> QED
      BY <2>5, <2>6, <2>8, <2>9, <2>11 DEF TripsAt
  <1>5. \/ \E p \in Owners : Owner(p)
        \/ Service \/ UNCHANGED irq
    BY DEF Next, WatchdogThread, Module, ClockTurns, Tick, Exit, Sleep, Wake,
           Shutdown, Join, Teardown, Startup, vars
  <1> QED
    BY <1>2, <1>3, <1>4, <1>5

\* Nothing trips early: a flag goes up for a budget only when that budget is
\* really used up, or its CPU clock has failed; whoever raises it, and whatever
\* call or tenant of the slot the entry that led to it was published for.
THEOREM NothingTripsEarly == Spec => NoEarlyTrip
  <1>1. ASSUME WatchInv, [Next]_vars, NEW o \in Owners,
               irq'[o] # irq[o], irq'[o] \in {"cpu", "wall"}
        PROVE  OverBudget(o)' \/ (irq'[o] = "cpu" /\ ~ledger[o].clean)
    <2>1. PICK r : TripsAt(o, r)
      BY <1>1, TripIsAVerdict
    <2>2. /\ InHand(r, ClockOf(o), ledger[o]) /\ Companion(r)
          /\ Verdict(r, ClockOf(o)) = irq'[o] /\ SameLimits(r, SlotOf(o)')
          /\ ledger' = ledger
      BY <2>1 DEF TripsAt, clocks
    <2>3. ClockOf(o) \in Clock /\ ledger[o] \in Account
      BY <1>1, ClockOfType DEF WatchInv, Typed, TypeOK, Account
    <2>4. Verdict(r, ClockOf(o)) # "none"
      BY <1>1, <2>2
    <2>5. Overdrawn(r, ledger[o]) \/ (Verdict(r, ClockOf(o)) = "cpu" /\ ~ledger[o].clean)
      BY <2>2, <2>3, <2>4, TripIsEarned
    <2>6. Overdrawn(r, ledger[o]) => Overdrawn(SlotOf(o)', ledger'[o])
      BY <2>2 DEF Overdrawn, SameLimits
    <2>7. OverBudget(o)' = Overdrawn(SlotOf(o)', ledger'[o])
      BY DEF OverBudget, Overdrawn
    <2> QED
      BY <2>2, <2>5, <2>6, <2>7
  <1>2. WatchInv /\ [Next]_vars =>
          [\A o \in Owners :
             irq'[o] # irq[o] /\ irq'[o] \in {"cpu", "wall"} =>
               \/ OverBudget(o)'
               \/ irq'[o] = "cpu" /\ ~ledger[o].clean]_vars
    BY <1>1
  <1> QED
    BY <1>2, WatchdogHolds, PTL DEF Spec, NoEarlyTrip

-----------------------------------------------------------------------------
(* The thread never spins                                                  *)

\* The slot s of owner o is stamped with the deadline of the record r.
StampsAt(s, o, r) ==
  /\ slots[s].irq = o
  /\ InHand(r, ClockOf(o), ledger[o])
  /\ slots'[s].queuedDeadline = Deadline(r, ClockOf(o))

\* Whoever stamps it.
LEMMA StampIsADeadline ==
  ASSUME WatchInv, [Next]_vars, NEW s \in Slots, slots'[s].epoch = slots[s].epoch + 1
  PROVE  \E o \in Owners : \E r : StampsAt(s, o, r)
  <1>1. /\ Typed /\ TypeOK /\ own \in [Owners -> Place]
        /\ slots \in [Slots -> Slot] /\ slots[s] \in Slot /\ slots[s].epoch \in Nat
    BY DEF WatchInv, Typed, TypeOK, Slot
  <1>2. ~(slots'[s].epoch = slots[s].epoch)
    BY <1>1
  <1>3. ASSUME NEW o \in Owners, Owner(o) PROVE \E r : StampsAt(s, o, r)
    <2>1. ~Acquire(o)
      <3>1. ASSUME NEW t \in free, NEW captured,
                   slots' = [slots EXCEPT ![t] = Acquired(@, o, captured)]
            PROVE  FALSE
        <4>1. Acquired(slots[t], o, captured).epoch = slots[t].epoch
          BY DEF Acquired, BlankSlot
        <4> QED
          BY <1>1, <1>2, <3>1, <4>1
      <3> QED
        BY <3>1 DEF Acquire
    <2>2. ~Release(o)
      <3>1. ASSUME slots' = [slots EXCEPT ![own[o].slot] = Released(@)], own[o].slot = s
            PROVE  FALSE
        <4>1. Released(slots[s]).epoch = slots[s].epoch
          BY <1>1 DEF Released, Slot
        <4> QED
          BY <1>1, <1>2, <3>1, <4>1
      <3>2. Release(o) => slots'[s] = slots[s] \/ own[o].slot = s
        BY <1>1 DEF Release
      <3> QED
        BY <1>2, <3>1, <3>2 DEF Release
    <2>3. own[o].step # "none"
      BY <1>3, <2>1 DEF Owner, Release, SetLimit, Prime, WriteLimit, Republish,
         Publish, Arm, Pause, Resume, SelfCheck, FinalCheck, Disarm, ClearFlag, At
    <2>4. /\ Holding(o) /\ SlotOf(o) \in Slot /\ SlotOf(o).irq = o /\ own[o].slot \in Slots
          /\ ClockOf(o) \in Clock
      BY <1>1, <2>3, SlotOfType, ClockOfType DEF Typed, Tenancy
    <2>5. ASSUME NEW r, SameTicket(SlotOf(o), r), slots' = [slots EXCEPT ![own[o].slot] = r]
          PROVE  FALSE
      <3>1. r.epoch = SlotOf(o).epoch
        BY <2>5 DEF SameTicket
      <3> QED
        BY <1>1, <1>2, <2>4, <2>5, <3>1 DEF SlotOf
    <2>6. CASE Republish(o) \/ Arm(o) \/ Resume(o)
      <3>1. Quiet(o) /\ Bill(o)
        BY <2>4 DEF WatchInv, Quiescence, BillInv
      <3>2. PICK r : Settles(o, r)
        BY <1>1, <2>3, <2>6, <3>1, SettlesAt
      <3>3. PICK back \in {"out", "in"}, cost \in {0, 1} : Settle(o, r, back, cost)
        BY <3>2 DEF Settles
      <3>4. r \in Slot /\ InHand(r, ClockOf(o), ledger[o]) /\ SameTicket(SlotOf(o), r)
        BY <3>2 DEF Settles
      <3>5. \/ slots' = [slots EXCEPT ![own[o].slot] = r]
            \/ slots' = [slots EXCEPT ![own[o].slot] = Stamped(r, Deadline(r, ClockOf(o)))]
        BY <3>3 DEF Settle
      <3>6. slots' = [slots EXCEPT ![own[o].slot] = Stamped(r, Deadline(r, ClockOf(o)))]
        BY <2>5, <3>4, <3>5
      <3>7. s = own[o].slot
        BY <1>1, <1>2, <2>4, <3>6
      <3>8. slots'[s].queuedDeadline = Deadline(r, ClockOf(o))
        BY <1>1, <3>4, <3>6, <3>7, StampedTicket
      <3> QED
        BY <2>4, <3>4, <3>7, <3>8 DEF StampsAt, SlotOf
    <2>7. CASE WriteLimit(o)
      <3> DEFINE r == IF own[o].budget = "cpu"
                      THEN WithCpuLimit(SlotOf(o), own[o].ns, own[o].ns \in CoarseLimits)
                      ELSE WithWallLimit(SlotOf(o), own[o].ns)
      <3>1. SameTicket(SlotOf(o), r)
        BY <2>4, LimitTicket
      <3>2. slots' = [slots EXCEPT ![own[o].slot] = r]
        BY <2>7 DEF WriteLimit
      <3> QED
        BY <2>5, <3>1, <3>2
    <2>8. CASE Pause(o)
      <3>1. PICK mask \in SUBSET Segments :
              slots' = [slots EXCEPT ![own[o].slot] = PausedFor(SlotOf(o), mask, ClockOf(o))]
        BY <2>8 DEF Pause, SlotOf
      <3> QED
        BY <2>4, <2>5, <3>1, PausedForTicket
    <2>9. CASE Disarm(o)
      <3>1. slots' = [slots EXCEPT ![own[o].slot] = Disarmed(SlotOf(o), ClockOf(o))]
        BY <2>9 DEF Disarm, SlotOf
      <3> QED
        BY <2>4, <2>5, <3>1, DisarmedTicket
    <2>10. CASE UNCHANGED slots
      BY <1>2, <2>10
    <2> QED
      BY <1>3, <2>1, <2>2, <2>6, <2>7, <2>8, <2>9, <2>10
         DEF Owner, SetLimit, Prime, Publish, SelfCheck, FinalCheck, ClearFlag
  <1>4. CASE Service
    <2>1. PICK e \in heap :
            LET r == [slots[e.slot] EXCEPT !.queued = FALSE]
                c == ClockOf(r.irq)
                left == Stamped(r, Deadline(r, c))
            IN  \/ UNCHANGED slots
                \/ HasDeadline(r, c) /\ slots' = [slots EXCEPT ![e.slot] = left]
                \/ slots' = [slots EXCEPT ![e.slot] = r]
      BY <1>4 DEF Service
    <2> DEFINE r == [slots[e.slot] EXCEPT !.queued = FALSE]
               c == ClockOf(r.irq)
               left == Stamped(r, Deadline(r, c))
    <2>2. e.slot \in Slots /\ slots[e.slot] \in Slot
      BY <1>1 DEF TypeOK, Entry
    <2>3. /\ r \in Slot /\ r.irq = slots[e.slot].irq /\ r.epoch = slots[e.slot].epoch
          /\ SameClocks(slots[e.slot], r)
      BY <2>2, UnqueuedClocks DEF Slot
    <2>4. left.queuedDeadline = Deadline(r, c)
      BY <2>3, StampedTicket
    <2>5. HasDeadline(r, c) /\ slots' = [slots EXCEPT ![e.slot] = left]
      BY <1>1, <1>2, <2>1, <2>2, <2>3
    <2> HIDE DEF left, r, c
    <2>6. s = e.slot /\ r.irq # NoIrq
      BY <1>1, <1>2, <2>2, <2>5 DEF HasDeadline
    <2>7. slots[s].irq \in Owners /\ r.irq = slots[s].irq
      BY <1>1, <2>3, <2>6 DEF Slot
    <2> DEFINE o == slots[s].irq
    <2>8. own[o].slot = s /\ Holding(o) /\ SlotOf(o) = slots[s]
      BY <1>1, <2>7 DEF Typed, Tenancy, Holding, SlotOf
    <2>9. InHand(SlotOf(o), ClockOf(o), ledger[o])
      BY <2>7, <2>8 DEF WatchInv, BillInv, Bill
    <2>10. InHand(r, ClockOf(o), ledger[o])
      BY <2>3, <2>6, <2>8, <2>9, SameClocksInHand
    <2>11. slots'[s].queuedDeadline = Deadline(r, ClockOf(o))
      BY <1>1, <2>4, <2>5, <2>6, <2>7 DEF c
    <2> QED
      BY <2>7, <2>10, <2>11 DEF StampsAt
  <1>5. ~Teardown
    BY <1>1 DEF Teardown, BlankSlot
  <1>6. \/ \E o \in Owners : Owner(o)
        \/ Teardown \/ Service
        \/ UNCHANGED slots
    BY DEF Next, WatchdogThread, Module, ClockTurns, Tick, Exit, Sleep, Wake,
           Shutdown, Join, Startup, vars
  <1> QED
    BY <1>2, <1>3, <1>4, <1>5, <1>6

\* The thread never spins: an entry it pushes back, or an owner stamps, lies at
\* least the floor ahead, or at the instant that never comes; a CPU clock that
\* failed is the one exception, and it trips at once.
THEOREM ThreadNeverSpins == Spec => DeadlinesAdvance
  <1>1. ASSUME WatchInv, [Next]_vars, NEW s \in Slots,
               slots'[s].epoch = slots[s].epoch + 1, ledger[slots[s].irq].clean
        PROVE  slots'[s].queuedDeadline \in {U64Max} \cup now + Floor .. U64Max
    <2>1. PICK o \in Owners : \E r : StampsAt(s, o, r)
      BY <1>1, StampIsADeadline
    <2>2. PICK r : StampsAt(s, o, r)
      BY <2>1
    <2>3. ClockOf(o) \in Clock /\ ClockOf(o).wall = now
      BY <1>1, ClockOfType DEF WatchInv, Typed, ClockOf
    <2>4. InHand(r, ClockOf(o), ledger[o]) /\ ledger[o].clean
      BY <1>1, <2>2 DEF StampsAt
    <2>5. Deadline(r, ClockOf(o)) \in {U64Max} \cup ClockOf(o).wall + Floor .. U64Max
      BY <2>3, <2>4, DeadlineAhead
    <2> QED
      BY <2>2, <2>3, <2>5 DEF StampsAt
  <1>2. WatchInv /\ [Next]_vars =>
          [\A s \in Slots :
             slots'[s].epoch = slots[s].epoch + 1 /\ ledger[slots[s].irq].clean
               => slots'[s].queuedDeadline \in {U64Max} \cup now + Floor .. U64Max]_vars
    BY <1>1
  <1> QED
    BY <1>2, WatchdogHolds, PTL DEF Spec, DeadlinesAdvance

-----------------------------------------------------------------------------
(* The watchdog never sleeps past a breach                                 *)

\* The entries that will be looked at: those of the heap, and the one that owner
\* o has stamped and not yet published.
Outstanding(o) == heap \cup (IF At(o, "publish") THEN {own[o].entry} ELSE {})

\* The entry the slot believes the heap to hold.
Ticket(o) == EntryFor(own[o].slot, SlotOf(o))

DueOf(o) == Due(SlotOf(o), ClockOf(o))

\* A limit of owner o's will run out at a known instant, and nobody has tripped
\* it yet; nor is the limit one whose setter is about to republish.
Pressing(o) ==
  /\ ~At(o, "republish") /\ irq[o] = "none" /\ SlotOf(o).hasLimits
  /\ DueOf(o) < U64Max

\* Something looks at it by then.
Timely(o) ==
  Pressing(o) => \E e \in Outstanding(o) :
                   e.slot = own[o].slot /\ Live(e) /\ e.deadline <= DueOf(o)

\* The strengthening: the flag `queued`, on which a publication is saved, tells
\* the truth about the heap, whether a limit presses or not; and no slot says it
\* is queued before the thread was tried.
Cover(o) ==
  /\ SlotOf(o).queued => module.once
  /\ module.running =>
       /\ SlotOf(o).queued => Ticket(o) \in Outstanding(o)
       /\ Timely(o)

CoverInv == \A o \in Owners : Holding(o) => Cover(o)

\* What is asked of an owner's slot before its due instant can be spoken of.
Fits(o) ==
  /\ SlotOf(o) \in Slot /\ SlotOf(o).irq = o
  /\ ClockOf(o) \in Clock
  /\ Sampling(SlotOf(o), ClockOf(o))
  /\ Outstanding(o) \subseteq Entry

\* The invariant says so,
LEMMA Fit ==
  ASSUME WatchInv, NEW o \in Owners, Holding(o)
  PROVE  Fits(o)
  <1>1. Typed /\ own[o].step # "none" /\ Bill(o)
    BY DEF WatchInv, Typed, Tenancy, BillInv
  <1>2. SlotOf(o) \in Slot /\ SlotOf(o).irq = o /\ ClockOf(o) \in Clock
    BY <1>1, SlotOfType, ClockOfType DEF Typed
  <1>3. Sampling(SlotOf(o), ClockOf(o))
    BY <1>1 DEF Bill, InHand
  <1>4. Outstanding(o) \subseteq Entry
    BY <1>1 DEF Outstanding, At, Typed, TypeOK, Tenancy
  <1> QED
    BY <1>2, <1>3, <1>4 DEF Fits

\* before a step and after it.
LEMMA FitNext ==
  ASSUME WatchInv', NEW o \in Owners, Holding(o)'
  PROVE  Fits(o)'
  <1>1. TypeOK' /\ Tenancy' /\ Bill(o)'
    BY DEF WatchInv, Typed, BillInv
  <1>2. own'[o].slot \in Slots
    BY <1>1 DEF TypeOK, Holding, Place
  <1>3. SlotOf(o)' \in Slot /\ SlotOf(o)'.irq = o
    BY <1>1, <1>2 DEF TypeOK, Tenancy, Holding, SlotOf
  <1>4. ClockOf(o)' \in Clock
    BY <1>1 DEF TypeOK, ClockOf, Clock
  <1>5. Sampling(SlotOf(o), ClockOf(o))'
    BY <1>1 DEF Bill, InHand
  <1>6. (Outstanding(o) \subseteq Entry)'
    BY <1>1 DEF Outstanding, At, TypeOK, Tenancy
  <1> QED
    BY <1>3, <1>4, <1>5, <1>6 DEF Fits

\* The ticket of a slot speaks for it.
LEMMA TicketIsLive ==
  ASSUME NEW o \in Owners
  PROVE  Ticket(o).slot = own[o].slot /\ Live(Ticket(o))
         /\ Ticket(o).deadline = SlotOf(o).queuedDeadline
BY DEF Ticket, EntryFor, Live, SlotOf

\* A step that leaves the ticket and what speaks for the slot, and under which
\* no limit starts to press and none is due sooner.
LEMMA CoverKept ==
  ASSUME NEW o \in Owners, Cover(o), Fits(o), Fits(o)',
         own'[o].slot = own[o].slot, SameTicket(SlotOf(o), SlotOf(o)'),
         module.once => module'.once, module'.running => module.running,
         module'.running =>
           \A f \in Outstanding(o) :
             f.slot = own[o].slot /\ Live(f) => f \in Outstanding(o)',
         Pressing(o)' => Pressing(o) /\ DueOf(o) <= DueOf(o)'
  PROVE  Cover(o)'
  <1>1. DueOf(o) \in Nat /\ DueOf(o)' \in Nat
    BY LeftType DEF Fits, DueOf
  <1>2. Ticket(o)' = Ticket(o) /\ SlotOf(o)'.queued = SlotOf(o).queued
    BY DEF Ticket, EntryFor, SameTicket
  <1>3. ASSUME NEW f, f.slot = own[o].slot, Live(f) PROVE Live(f)'
    BY <1>3 DEF Live, SlotOf, SameTicket
  <1>4. SlotOf(o)'.queued => module'.once
    BY <1>2 DEF Cover
  <1>5. ASSUME module'.running, SlotOf(o)'.queued PROVE Ticket(o)' \in Outstanding(o)'
    <2>1. Ticket(o) \in Outstanding(o)
      BY <1>2, <1>5 DEF Cover
    <2> QED
      BY <1>2, <1>5, <2>1, TicketIsLive
  <1>6. ASSUME module'.running, Pressing(o)'
        PROVE  \E e \in Outstanding(o)' :
                 e.slot = own'[o].slot /\ Live(e)' /\ e.deadline <= DueOf(o)'
    <2>1. PICK e \in Outstanding(o) :
            e.slot = own[o].slot /\ Live(e) /\ e.deadline <= DueOf(o)
      BY <1>6 DEF Cover, Timely
    <2>2. e.deadline \in Nat
      BY <2>1 DEF Fits, Entry
    <2>3. e.deadline <= DueOf(o)'
      BY <1>1, <1>6, <2>1, <2>2
    <2> QED
      BY <1>3, <1>6, <2>1, <2>3
  <1> QED
    BY <1>4, <1>5, <1>6 DEF Cover, Timely

\* A slot that is not queued and has no limit asks for nothing.
LEMMA NothingToCover ==
  ASSUME NEW o \in Owners, ~SlotOf(o)'.queued, ~SlotOf(o)'.hasLimits
  PROVE  Cover(o)'
BY DEF Cover, Timely, Pressing

\* Leaving a critical section covers what it leaves: by the entry stamped there,
\* or by the one the heap holds already.
LEMMA SettleCovered ==
  ASSUME Typed, Typed', NEW o \in Owners, own[o].step \notin {"none", "publish"},
         Enforced(o), Cover(o),
         NEW r, Settles(o, r)
  PROVE  Cover(o)'
  <1> DEFINE c == ClockOf(o)
             publish == r.hasLimits /\ NeedsEntry(r, c)
  <1>1. PICK back \in {"out", "in"}, cost \in {0, 1} : Settle(o, r, back, cost)
    BY DEF Settles
  <1>2. /\ r \in Slot /\ Sampling(r, c) /\ SameLimits(SlotOf(o), r)
        /\ SameTicket(SlotOf(o), r)
        /\ UNCHANGED <<heap, module>> /\ UNCHANGED clocks
    BY DEF Settles, InHand
  <1>3. /\ own[o].slot \in Slots /\ own[o] \in Place /\ own \in [Owners -> Place]
        /\ slots \in [Slots -> Slot] /\ irq \in [Owners -> Flag]
        /\ c \in Clock /\ r.irq = o
    BY <1>2, SlotOfType, ClockOfType DEF Typed, TypeOK, SameTicket
  <1>4. ClockOf(o)' = c
    BY <1>2 DEF ClockOf, clocks
  <1>5. Verdict(r, c) = "none" => ~CpuLost(r, c)
    BY <1>2, <1>3 DEF Verdict, CpuBreached, CpuLost, Sampling
  <1>6. Due(r, c) \in Nat
    BY <1>2, <1>3, LeftType
  <1>7. CASE publish
    <2> DEFINE q == Stamped(r, Deadline(r, c))
    <2>1. /\ slots' = [slots EXCEPT ![own[o].slot] = q]
          /\ own'[o].slot = own[o].slot /\ own'[o].step = "publish"
          /\ own'[o].entry = EntryFor(own[o].slot, q)
      BY <1>1, <1>3, <1>7 DEF Settle, Place
    <2>2. q.queuedDeadline = Deadline(r, c) /\ SameLimits(r, q) /\ SameClocks(r, q)
      BY <1>2, StampedTicket, StampedLimits, StampedClocks
    <2>3. Deadline(r, c) = Due(r, c)
      BY <1>2, <1>3, <1>5, <1>7, DeadlineIsDue DEF NeedsEntry
    <2> HIDE DEF q
    <2>4. SlotOf(o)' = q
      BY <1>3, <2>1 DEF SlotOf
    <2>5. Due(q, c) = Due(r, c)
      BY <2>2 DEF SameLimits, SameClocks, Due, Left, CpuLeft, CoarseLeft, WallLeft,
                  CpuRun, WallRun
    <2>6. DueOf(o)' = Due(r, c)
      BY <1>4, <2>4, <2>5 DEF DueOf
    <2>7. Ticket(o)' = own'[o].entry /\ Ticket(o)' \in Outstanding(o)'
      BY <2>1, <2>4 DEF Ticket, Outstanding, At
    <2>8. /\ Ticket(o)'.slot = own'[o].slot /\ Live(Ticket(o))'
          /\ Ticket(o)'.deadline = Due(r, c)
      BY <2>2, <2>3, <2>4 DEF Ticket, EntryFor, Live, SlotOf
    <2>9. module'.once
      BY <1>2, <1>7 DEF Enforced, SameLimits
    <2> QED
      BY <1>6, <2>6, <2>7, <2>8, <2>9 DEF Cover, Timely
  <1>8. CASE ~publish
    <2>1. /\ slots' = [slots EXCEPT ![own[o].slot] = r]
          /\ own'[o].slot = own[o].slot /\ own'[o].step \in {"out", "in"}
      BY <1>1, <1>3, <1>8 DEF Settle, Place
    <2>2. SlotOf(o)' = r
      BY <1>3, <2>1 DEF SlotOf
    <2>3. Outstanding(o) = heap /\ Outstanding(o)' = heap
      BY <1>2, <2>1 DEF Outstanding, At
    <2>4. Ticket(o)' = Ticket(o) /\ DueOf(o)' = Due(r, c)
      BY <1>2, <1>4, <2>1, <2>2 DEF Ticket, EntryFor, SameTicket, DueOf
    <2>5. r.queued => module'.once /\ (module'.running => Ticket(o)' \in Outstanding(o)')
      BY <1>2, <2>3, <2>4 DEF Cover, SameTicket
    <2>6. ASSUME module'.running, Pressing(o)'
          PROVE  \E e \in Outstanding(o)' :
                   e.slot = own'[o].slot /\ Live(e)' /\ e.deadline <= DueOf(o)'
      <3>1. irq'[o] = "none" /\ r.hasLimits /\ Due(r, c) < U64Max
        BY <2>2, <2>4, <2>6 DEF Pressing
      <3>2. irq' = Raise(o, Verdict(r, c))
        BY <1>1, <3>1 DEF Settle
      <3>3. Verdict(r, c) = "none"
        BY <1>3, <3>1, <3>2 DEF Raise
      <3>4. ~CpuLost(r, c) /\ HasDeadline(r, c)
        BY <1>2, <1>3, <1>5, <3>1, <3>3, DueIsDeadline
      <3>5. Deadline(r, c) = Due(r, c)
        BY <1>2, <1>3, <3>4, DeadlineIsDue
      <3>6. r.queued /\ r.queuedDeadline <= Due(r, c)
        BY <1>8, <3>1, <3>3, <3>4, <3>5 DEF NeedsEntry, Covered
      <3>7. /\ Ticket(o)'.slot = own'[o].slot /\ Live(Ticket(o))'
            /\ Ticket(o)'.deadline = r.queuedDeadline
        BY <2>2 DEF Ticket, EntryFor, Live, SlotOf
      <3> QED
        BY <2>4, <2>5, <2>6, <3>6, <3>7
    <2> QED
      BY <2>2, <2>5, <2>6 DEF Cover, Timely
  <1> QED
    BY <1>7, <1>8

\* Two readings of an owner's due instant between which nothing it reads moved.
LEMMA DueStays ==
  ASSUME NEW o \in Owners, SlotOf(o)' = SlotOf(o), UNCHANGED <<now, cpu>>
  PROVE  DueOf(o)' = DueOf(o)
BY DEF DueOf, Due, Left, CpuLeft, CoarseLeft, WallLeft, CpuRun, WallRun, ClockOf

\* What an owner's step does to what the others share with it.
LEMMA OwnerShares ==
  ASSUME Typed, HeapMayFail = FALSE, NEW o \in Owners, Owner(o)
  PROVE  /\ heap \subseteq heap'
         /\ UNCHANGED <<now, cpu>>
         /\ module.once => module'.once /\ (module'.running => module.running)
  <1>1. heap \subseteq heap'
    BY DEF Owner, Acquire, Release, SetLimit, Prime, WriteLimit, Republish, Publish, Push,
           Arm, Pause, Resume, SelfCheck, FinalCheck, Disarm, ClearFlag
  <1>2. UNCHANGED <<now, cpu>>
    BY DEF Owner, Acquire, Release, SetLimit, Prime, WriteLimit, Republish, Publish, Arm,
           Pause, Resume, SelfCheck, FinalCheck, Disarm, ClearFlag, clocks
  <1>3. CASE Prime(o)
    <2>1. PICK started \in IF module.once THEN {module.running}
                           ELSE {TRUE, ~ThreadMayFail} :
            module' = [module EXCEPT !.once = TRUE, !.running = started,
                                     !.failed = ~started]
      BY <1>3 DEF Prime
    <2>2. module \in ModuleState
      BY DEF Typed, TypeOK
    <2>3. module'.once = TRUE /\ module'.running = started
      BY <2>1, <2>2 DEF ModuleState
    <2> QED
      BY <1>1, <1>2, <2>1, <2>3
  <1>4. Prime(o) \/ UNCHANGED module
    BY DEF Owner, Acquire, Release, SetLimit, WriteLimit, Republish, Publish, Arm,
           Pause, Resume, SelfCheck, FinalCheck, Disarm, ClearFlag
  <1> QED
    BY <1>1, <1>2, <1>3, <1>4

\* Its own steps keep an owner covered.
LEMMA OwnerCovered ==
  ASSUME WatchInv, WatchInv', CoverInv, HeapMayFail = FALSE,
         NEW o \in Owners, Owner(o), Holding(o)'
  PROVE  Cover(o)'
  <1>1. /\ own \in [Owners -> Place] /\ own[o] \in Place /\ slots \in [Slots -> Slot]
        /\ irq \in [Owners -> Flag] /\ Typed /\ Typed'
    BY DEF WatchInv, Typed, TypeOK
  <1>2. CASE Acquire(o)
    <2>1. PICK s \in free, captured \in {TRUE, ~CaptureMayFail} :
            /\ slots' = [slots EXCEPT ![s] = Acquired(@, o, captured)]
            /\ own' = [own EXCEPT ![o] = [Idle EXCEPT !.slot = s, !.step = "out",
                                                      !.ops = own[o].ops + 1]]
      BY <1>2 DEF Acquire
    <2>2. s \in Slots
      BY <1>1 DEF Typed, TypeOK
    <2>3. own'[o].slot = s /\ slots'[s] = Acquired(slots[s], o, captured)
      BY <1>1, <2>1, <2>2 DEF Idle
    <2>4. ~SlotOf(o)'.queued /\ ~SlotOf(o)'.hasLimits
      BY <2>3 DEF SlotOf, Acquired, BlankSlot
    <2> QED
      BY <2>4, NothingToCover
  <1>3. CASE Release(o)
    BY <1>1, <1>3 DEF Release, Idle, Holding
  <1>4. CASE own[o].step # "none" /\ ~Release(o)
    <2>1. Holding(o)
      BY <1>1, <1>4 DEF Typed, Tenancy
    <2>2. /\ Cover(o) /\ Fits(o) /\ Fits(o)' /\ Enforced(o) /\ Bill(o) /\ Bill(o)' /\ Quiet(o)
          /\ own[o].slot \in Slots
      BY <1>1, <1>4, <2>1, Fit, FitNext, SlotOfType
         DEF CoverInv, WatchInv, EnforcerInv, BillInv, Quiescence
    <2>3. /\ heap \subseteq heap' /\ UNCHANGED <<now, cpu>>
          /\ module.once => module'.once /\ (module'.running => module.running)
      BY <1>1, OwnerShares
    <2>4. SameTicket(SlotOf(o), SlotOf(o)) /\ DueOf(o) \in Nat
      BY <2>2, LeftType DEF SameTicket, Fits, DueOf
    <2>5. CASE SetLimit(o) \/ SelfCheck(o) \/ FinalCheck(o)
      <3>1. /\ own'[o].slot = own[o].slot /\ slots' = slots /\ module' = module
            /\ own[o].step \in {"out", "in"}
        <4>1. CASE SetLimit(o)
          BY <1>1, <4>1 DEF SetLimit, Place, At
        <4>2. CASE SelfCheck(o) \/ FinalCheck(o)
          BY <1>1, <4>2 DEF SelfCheck, FinalCheck, Place, At
        <4> QED
          BY <2>5, <4>1, <4>2
      <3>2. SlotOf(o)' = SlotOf(o)
        BY <3>1 DEF SlotOf
      <3>3. DueOf(o)' = DueOf(o)
        BY <2>3, <3>2, DueStays
      <3>4. Outstanding(o) = heap /\ heap \subseteq Outstanding(o)'
        BY <2>3, <3>1 DEF Outstanding, At
      <3>5. irq'[o] = "none" => irq[o] = "none"
        BY <1>1, <2>5 DEF SetLimit, SelfCheck, FinalCheck, Raise
      <3>6. Pressing(o)' => Pressing(o) /\ DueOf(o) <= DueOf(o)'
        BY <2>4, <3>1, <3>2, <3>3, <3>5 DEF Pressing, At
      <3> QED
        BY <2>2, <2>4, <3>1, <3>2, <3>4, <3>6, CoverKept
    <2>6. CASE Prime(o)
      <3>1. /\ own'[o].slot = own[o].slot /\ slots' = slots /\ irq' = irq
            /\ own[o].step = "prime"
        BY <1>1, <2>6 DEF Prime, BackFrom, Place, At
      <3>2. SlotOf(o)' = SlotOf(o)
        BY <3>1 DEF SlotOf
      <3>3. CASE ~module.once
        <4>1. ~SlotOf(o).queued /\ ~SlotOf(o).hasLimits
          BY <2>2, <3>3 DEF Cover, Enforced
        <4> QED
          BY <3>2, <4>1, NothingToCover
      <3>4. CASE module.once
        <4>1. DueOf(o)' = DueOf(o)
          BY <2>3, <3>2, DueStays
        <4>2. Outstanding(o) = heap /\ heap \subseteq Outstanding(o)'
          BY <2>3, <3>1 DEF Outstanding, At
        <4>3. Pressing(o)' => Pressing(o) /\ DueOf(o) <= DueOf(o)'
          BY <2>4, <3>1, <3>2, <4>1 DEF Pressing, At
        <4> QED
          BY <2>2, <2>3, <2>4, <3>1, <3>2, <3>4, <4>2, <4>3, CoverKept
      <3> QED
        BY <3>3, <3>4
    <2>7. CASE WriteLimit(o)
      <3> DEFINE ns == own[o].ns
                 r == IF own[o].budget = "cpu"
                      THEN WithCpuLimit(SlotOf(o), ns, ns \in CoarseLimits)
                      ELSE WithWallLimit(SlotOf(o), ns)
      <3>1. SameTicket(SlotOf(o), r)
        BY <2>2, LimitTicket DEF Fits
      <3>2. /\ slots' = [slots EXCEPT ![own[o].slot] = r] /\ module' = module
            /\ own' = [own EXCEPT ![o] =
                 IF r.hasLimits
                 THEN [own[o] EXCEPT !.step = "republish", !.budget = "cpu", !.ns = 0]
                 ELSE BackFrom(own[o])]
        BY <2>7 DEF WriteLimit
      <3> HIDE DEF r
      <3>3. /\ own'[o].slot = own[o].slot
            /\ r.hasLimits => own'[o].step = "republish"
        BY <1>1, <3>2 DEF BackFrom, Place
      <3>4. SlotOf(o)' = r
        BY <1>1, <2>2, <3>2, <3>3 DEF SlotOf
      <3>5. ~Pressing(o)'
        BY <3>3, <3>4 DEF Pressing, At
      <3>6. own[o].step = "write"
        BY <2>7 DEF WriteLimit, At
      <3>7. Outstanding(o) = heap /\ heap \subseteq Outstanding(o)'
        BY <2>3, <3>6 DEF Outstanding, At
      <3> QED
        BY <2>2, <3>1, <3>2, <3>3, <3>4, <3>5, <3>7, CoverKept
    <2>8. CASE Publish(o)
      <3>1. /\ own'[o].slot = own[o].slot /\ own[o].step = "publish"
            /\ slots' = slots /\ irq' = irq /\ module' = module
        BY <1>1, <2>8 DEF Publish, At, Place
      <3>2. SlotOf(o)' = SlotOf(o)
        BY <3>1 DEF SlotOf
      <3>3. DueOf(o)' = DueOf(o)
        BY <2>3, <3>2, DueStays
      <3>4. Outstanding(o) = heap \cup {own[o].entry}
        BY <3>1 DEF Outstanding, At
      <3>5. module'.running => Outstanding(o) \subseteq Outstanding(o)'
        BY <2>8, <3>1, <3>4 DEF Publish, Push, Outstanding
      <3>6. Pressing(o)' => Pressing(o) /\ DueOf(o) <= DueOf(o)'
        BY <2>4, <3>1, <3>2, <3>3 DEF Pressing, At
      <3> QED
        BY <2>2, <2>4, <3>1, <3>2, <3>5, <3>6, CoverKept
    <2>9. CASE Pause(o) \/ Disarm(o)
      <3>1. PICK q : /\ slots' = [slots EXCEPT ![own[o].slot] = q]
                     /\ SameTicket(SlotOf(o), q) /\ SameLimits(SlotOf(o), q)
                     /\ q.open \subseteq SlotOf(o).open
                     /\ "wall" \in q.open => WallRun(q, ClockOf(o)) <= WallRun(SlotOf(o), ClockOf(o)) + 0
                     /\ "cpu" \in q.open => CpuRun(q, ClockOf(o)) <= CpuRun(SlotOf(o), ClockOf(o)) + 0
        <4> DEFINE r == SlotOf(o)
                   c == ClockOf(o)
        <4>1. r \in Slot /\ c \in Clock /\ Sampling(r, c)
          BY <2>2 DEF Fits
        <4>2. CASE Pause(o)
          <5>1. PICK mask \in SUBSET Segments :
                  slots' = [slots EXCEPT ![own[o].slot] = PausedFor(r, mask, c)]
            BY <4>2 DEF Pause, SlotOf
          <5> DEFINE q == PausedFor(r, mask, c)
          <5>2. SameTicket(r, q) /\ SameLimits(r, q)
            BY <4>1, PausedForTicket, CallLimits
          <5>3. PausedRuns(r, mask, c)
            BY <4>1, PausedForRuns
          <5> HIDE DEF r, c
          <5>4. WallRun(r, c) \in Nat /\ CpuRun(r, c) \in Nat
            BY <4>1, SampledIsRun
          <5>5. /\ q.open \subseteq r.open
                /\ "wall" \in q.open => WallRun(q, c) <= WallRun(r, c) + 0
                /\ "cpu" \in q.open => CpuRun(q, c) <= CpuRun(r, c) + 0
            BY <5>3, <5>4 DEF PausedRuns
          <5> HIDE DEF q
          <5> QED
            BY <5>1, <5>2, <5>5 DEF q, r, c
        <4>3. CASE Disarm(o)
          <5> DEFINE q == Disarmed(r, c)
          <5>1. slots' = [slots EXCEPT ![own[o].slot] = q]
            BY <4>3 DEF Disarm, SlotOf
          <5>2. {} \in SUBSET Segments
            OBVIOUS
          <5>3. SameTicket(r, q) /\ SameLimits(r, q)
            BY <4>1, <5>2, DisarmedTicket, CallLimits
          <5>4. q.open = {}
            BY <4>1, DisarmedIsShut
          <5> HIDE DEF q
          <5> QED
            BY <5>1, <5>3, <5>4
        <4> QED
          BY <2>9, <4>2, <4>3
      <3>2. /\ own'[o].slot = own[o].slot /\ own[o].step \in {"in", "checked"}
            /\ own'[o].step \in {"in", "disarmed"} /\ irq' = irq /\ module' = module
        BY <1>1, <2>9 DEF Pause, Disarm, At, Place
      <3>3. SlotOf(o)' = q
        BY <1>1, <2>2, <3>1, <3>2 DEF SlotOf
      <3>4. Outstanding(o) = heap /\ heap \subseteq Outstanding(o)'
        BY <2>3, <3>2 DEF Outstanding, At
      <3>5. UNCHANGED clocks
        BY <2>9 DEF Pause, Disarm
      <3>6. ClockOf(o)' = ClockOf(o)
        BY <3>5 DEF ClockOf, clocks
      <3>7. DueOf(o) <= DueOf(o)'
        <4> DEFINE c == ClockOf(o)
                   r == SlotOf(o)
        <4>1. /\ r \in Slot /\ c \in Clock /\ Sampling(r, c) /\ q \in Slot /\ Sampling(q, c)
          BY <2>2, <3>3, <3>6 DEF Fits
        <4>2. c.wall = c.wall + 0
          BY <4>1 DEF Clock
        <4> HIDE DEF c, r
        <4>3. Due(r, c) <= Due(q, c)
          BY <3>1, <4>1, <4>2, DueNoSooner DEF r, c
        <4> QED
          BY <3>3, <3>6, <4>3 DEF DueOf, r, c
      <3>8. Pressing(o)' => Pressing(o) /\ DueOf(o) <= DueOf(o)'
        <4>1. DueOf(o)' \in Nat
          BY <2>2, LeftType DEF Fits, DueOf
        <4> QED
          BY <2>4, <3>1, <3>2, <3>3, <3>7, <4>1 DEF Pressing, At, SameLimits
      <3> QED
        BY <2>2, <3>1, <3>2, <3>3, <3>4, <3>8, CoverKept
    <2>10. CASE ClearFlag(o)
      <3>1. /\ own'[o].slot = own[o].slot /\ own[o].step = "disarmed"
            /\ slots' = slots /\ module' = module
        BY <1>1, <2>10 DEF ClearFlag, At, Place
      <3>2. SlotOf(o)' = SlotOf(o) /\ ~SlotOf(o).armed
        BY <2>2, <3>1 DEF SlotOf, Quiet
      <3>3. ~(DueOf(o)' < U64Max)
        BY <2>2, <3>2, DueIsDeadline DEF Fits, DueOf
      <3>4. Outstanding(o) = heap /\ heap \subseteq Outstanding(o)'
        BY <2>3, <3>1 DEF Outstanding, At
      <3> QED
        BY <2>2, <2>4, <3>1, <3>2, <3>3, <3>4, CoverKept DEF Pressing
    <2>11. CASE Republish(o) \/ Arm(o) \/ Resume(o)
      <3>1. PICK r : Settles(o, r)
        BY <1>1, <1>4, <2>2, <2>11, SettlesAt
      <3>2. own[o].step # "publish"
        BY <2>11 DEF Republish, Arm, Resume, At
      <3> QED
        BY <1>1, <1>4, <2>2, <3>1, <3>2, SettleCovered
    <2>12. ~Acquire(o)
      BY <1>4 DEF Acquire, At
    <2> QED
      BY <1>4, <2>5, <2>6, <2>7, <2>8, <2>9, <2>10, <2>11, <2>12 DEF Owner
  <1>5. CASE own[o].step = "none"
    <2>1. Acquire(o)
      BY <1>5 DEF Owner, Release, SetLimit, Prime, WriteLimit, Republish,
         Publish, Arm, Pause, Resume, SelfCheck, FinalCheck, Disarm, ClearFlag, At
    <2> QED
      BY <1>2, <2>1
  <1> QED
    BY <1>3, <1>4, <1>5

\* Another owner's step leaves this one covered.
LEMMA OtherCovered ==
  ASSUME WatchInv, WatchInv', CoverInv, HeapMayFail = FALSE,
         NEW o \in Owners, Owner(o), NEW p \in Owners, p # o, Holding(p)'
  PROVE  Cover(p)'
  <1>1. /\ Holding(p) /\ own'[p] = own[p]
        /\ SlotOf(p)' = SlotOf(p) /\ irq'[p] = irq[p]
    BY HolderApart DEF WatchInv
  <1>2. /\ heap \subseteq heap' /\ UNCHANGED <<now, cpu>>
        /\ module.once => module'.once /\ (module'.running => module.running)
    BY OwnerShares DEF WatchInv
  <1>3. Cover(p) /\ Enforced(p) /\ Fits(p) /\ Fits(p)'
    BY <1>1, Fit, FitNext DEF CoverInv, WatchInv, EnforcerInv
  <1>4. CASE ~module.once
    <2>1. ~SlotOf(p).queued /\ ~SlotOf(p).hasLimits
      BY <1>3, <1>4 DEF Cover, Enforced
    <2> QED
      BY <1>1, <2>1, NothingToCover
  <1>5. CASE module.once
    <2>1. DueOf(p)' = DueOf(p) /\ DueOf(p) \in Nat
      BY <1>1, <1>2, <1>3, DueStays, LeftType DEF Fits, DueOf
    <2>2. Outstanding(p) \subseteq Outstanding(p)'
      BY <1>1, <1>2 DEF Outstanding, At
    <2>3. Pressing(p)' => Pressing(p) /\ DueOf(p) <= DueOf(p)'
      BY <1>1, <2>1 DEF Pressing, At
    <2>4. SameTicket(SlotOf(p), SlotOf(p)')
      BY <1>1 DEF SameTicket
    <2> QED
      BY <1>1, <1>2, <1>3, <1>5, <2>2, <2>3, <2>4, CoverKept
  <1> QED
    BY <1>4, <1>5

\* The thread takes an entry off the heap only to trip its slot, to replace the
\* entry, or because the slot is due at no instant; the others it leaves alone.
LEMMA ServiceCovered ==
  ASSUME WatchInv, WatchInv', CoverInv, Service, NEW o \in Owners, Holding(o)
  PROVE  Cover(o)'
  <1>1. PICK e \in heap :
          LET r == [slots[e.slot] EXCEPT !.queued = FALSE]
              c == ClockOf(r.irq)
              left == Stamped(r, Deadline(r, c))
          IN  \/ /\ ~Live(e)
                 /\ heap' = heap \ {e}
                 /\ UNCHANGED <<slots, irq>>
              \/ /\ Live(e)
                 /\ irq' = Raise(r.irq, Verdict(r, c))
                 /\ IF Verdict(r, c) = "none" /\ HasDeadline(r, c)
                    THEN /\ slots' = [slots EXCEPT ![e.slot] = left]
                         /\ heap' = (heap \ {e}) \cup {EntryFor(e.slot, left)}
                    ELSE /\ slots' = [slots EXCEPT ![e.slot] = r]
                         /\ heap' = heap \ {e}
    BY DEF Service
  <1> DEFINE r == [slots[e.slot] EXCEPT !.queued = FALSE]
             c == ClockOf(r.irq)
             left == Stamped(r, Deadline(r, c))
  <1>2. /\ Typed /\ slots \in [Slots -> Slot] /\ irq \in [Owners -> Flag]
        /\ e.slot \in Slots /\ slots[e.slot] \in Slot /\ own[o].slot \in Slots
    BY DEF WatchInv, Typed, TypeOK, Entry, Holding, Place
  <1>3. UNCHANGED <<own, module>> /\ UNCHANGED clocks
    BY DEF Service
  <1>4. /\ Cover(o) /\ Fits(o) /\ Fits(o)' /\ Enforced(o) /\ Bill(o)
    BY <1>3, Fit, FitNext DEF CoverInv, WatchInv, EnforcerInv, BillInv, Holding
  <1>5. /\ r \in Slot /\ r.irq = slots[e.slot].irq /\ ~r.queued
        /\ SameClocks(slots[e.slot], r) /\ SameLimits(slots[e.slot], r)
    BY <1>2, UnqueuedClocks DEF Slot, SameLimits
  <1>6. ClockOf(o)' = ClockOf(o)
    BY <1>3 DEF ClockOf, clocks
  <1>7. CASE e.slot = own[o].slot /\ Live(e)
    <2>1. r.irq = o /\ c = ClockOf(o) /\ slots[e.slot] = SlotOf(o)
      BY <1>4, <1>5, <1>7 DEF Fits, SlotOf
    <2>2. /\ irq' = Raise(o, Verdict(r, c))
          /\ IF Verdict(r, c) = "none" /\ HasDeadline(r, c)
             THEN /\ slots' = [slots EXCEPT ![e.slot] = left]
                  /\ EntryFor(e.slot, left) \in heap'
             ELSE slots' = [slots EXCEPT ![e.slot] = r]
      BY <1>1, <1>7, <2>1
    <2>3. c \in Clock /\ Sampling(r, c)
      BY <1>4, <1>5, <2>1 DEF Fits, Sampling, SameClocks
    <2> HIDE DEF r, c, left
    <2>4. Verdict(r, c) = "none" => ~CpuLost(r, c)
      BY <1>5, <2>1, <2>3 DEF Verdict, CpuBreached, CpuLost, Sampling
    <2>5. CASE Verdict(r, c) = "none" /\ HasDeadline(r, c)
      <3>1. slots' = [slots EXCEPT ![e.slot] = left] /\ EntryFor(e.slot, left) \in heap'
        BY <2>2, <2>5
      <3>2. SlotOf(o)' = left
        BY <1>2, <1>3, <1>7, <3>1 DEF SlotOf
      <3>3. left.queuedDeadline = Deadline(r, c) /\ SameLimits(r, left) /\ SameClocks(r, left)
        BY <1>5, StampedTicket, StampedLimits, StampedClocks DEF left
      <3>4. Deadline(r, c) = Due(r, c) /\ Remaining(r, c) = Left(r, c) /\ Due(r, c) \in Nat
        BY <1>5, <2>3, <2>4, <2>5, DeadlineIsDue, LeftType
      <3>5. Due(left, c) = Due(r, c)
        BY <3>3 DEF SameLimits, SameClocks, Due, Left, CpuLeft, CoarseLeft, WallLeft,
                    CpuRun, WallRun
      <3>6. DueOf(o)' = Due(r, c)
        BY <1>6, <2>1, <3>2, <3>5 DEF DueOf
      <3>7. Ticket(o)' = EntryFor(e.slot, left) /\ Ticket(o)' \in Outstanding(o)'
        BY <1>3, <1>7, <3>1, <3>2 DEF Ticket, Outstanding
      <3>8. /\ Ticket(o)'.slot = own'[o].slot /\ Live(Ticket(o))'
            /\ Ticket(o)'.deadline = Due(r, c)
        BY <3>2, <3>3, <3>4 DEF Ticket, EntryFor, Live, SlotOf
      <3>9. module'.once
        <4>1. Left(r, c) # U64Max
          BY <2>4, <2>5, <3>4 DEF HasDeadline
        <4>2. r.cpuLimit # 0 \/ r.cpuWallLimit # 0 \/ r.wallLimit # 0
          BY <4>1 DEF Left, CpuLeft, CoarseLeft, WallLeft, BudgetLeft, Lesser
        <4>3. Companion(r)
          BY <1>4, <1>5, <2>1 DEF Bill, Companion, SameLimits
        <4>4. r.cpuLimit # 0 \/ r.wallLimit # 0
          BY <4>2, <4>3 DEF Companion
        <4>5. SlotOf(o).hasLimits
          BY <1>4, <1>5, <2>1, <4>4 DEF Enforced, Declared, SameLimits
        <4> QED
          BY <1>3, <1>4, <4>5 DEF Enforced
      <3> QED
        BY <3>4, <3>6, <3>7, <3>8, <3>9 DEF Cover, Timely
    <2>6. CASE ~(Verdict(r, c) = "none" /\ HasDeadline(r, c))
      <3>1. slots' = [slots EXCEPT ![e.slot] = r]
        BY <2>2, <2>6
      <3>2. SlotOf(o)' = r
        BY <1>2, <1>3, <1>7, <3>1 DEF SlotOf
      <3>3. ASSUME Pressing(o)' PROVE FALSE
        <4>1. irq'[o] = "none" /\ Due(r, c) < U64Max
          BY <1>6, <2>1, <3>2, <3>3 DEF Pressing, DueOf
        <4>2. Verdict(r, c) = "none"
          BY <1>2, <2>2, <4>1 DEF Raise
        <4>3. HasDeadline(r, c)
          BY <1>5, <2>1, <2>3, <2>4, <4>1, <4>2, DueIsDeadline
        <4> QED
          BY <2>6, <4>2, <4>3
      <3> QED
        BY <1>5, <3>2, <3>3 DEF Cover, Timely
    <2> QED
      BY <2>5, <2>6
  <1>8. CASE ~(e.slot = own[o].slot /\ Live(e))
    <2>1. SlotOf(o)' = SlotOf(o)
      BY <1>1, <1>2, <1>3, <1>8 DEF SlotOf
    <2>2. heap \ {e} \subseteq heap'
      BY <1>1
    <2>3. irq'[o] = "none" => irq[o] = "none"
      BY <1>1, <1>2 DEF Raise
    <2> HIDE DEF r, c, left
    <2>4. DueOf(o)' = DueOf(o) /\ DueOf(o) \in Nat
      BY <1>3, <1>4, <2>1, DueStays, LeftType DEF Fits, DueOf, clocks
    <2>5. \A f \in Outstanding(o) :
            f.slot = own[o].slot /\ Live(f) => f \in Outstanding(o)'
      BY <1>3, <1>8, <2>2 DEF Outstanding, At
    <2>6. Pressing(o)' => Pressing(o) /\ DueOf(o) <= DueOf(o)'
      BY <1>3, <2>1, <2>3, <2>4 DEF Pressing, At
    <2>7. SameTicket(SlotOf(o), SlotOf(o)')
      BY <2>1 DEF SameTicket
    <2> QED
      BY <1>3, <1>4, <2>5, <2>6, <2>7, CoverKept
  <1> QED
    BY <1>7, <1>8

\* Time brings the due instant no nearer: what runs out does so as foreseen.
LEMMA TimeCovered ==
  ASSUME WatchInv, WatchInv', CoverInv, Tick \/ \E p \in Owners : ClockTurns(p),
         NEW o \in Owners, Holding(o)
  PROVE  Cover(o)'
  <1>1. UNCHANGED <<slots, irq, own, heap, module>>
    BY DEF Tick, ClockTurns
  <1>2. SlotOf(o)' = SlotOf(o) /\ Outstanding(o)' = Outstanding(o)
    BY <1>1 DEF SlotOf, Outstanding, At
  <1>3. /\ Cover(o) /\ Fits(o) /\ Fits(o)'
    BY <1>1, Fit, FitNext DEF CoverInv, Holding
  <1> DEFINE r == SlotOf(o)
             c == ClockOf(o)
             e == ClockOf(o)'
  <1>4. PICK d \in {0, 1} : e.wall = c.wall + d /\ e.cpu <= c.cpu + d
    <2>1. cpu[o] \in Nat /\ now \in Nat
      BY DEF WatchInv, Typed, TypeOK
    <2>2. CASE Tick
      <3>1. now' = now + 1 /\ cpu'[o] \in {cpu[o], cpu[o] + 1}
        BY <2>2 DEF Tick
      <3> QED
        BY <2>1, <3>1 DEF ClockOf
    <2>3. CASE \E p \in Owners : ClockTurns(p)
      <3>1. UNCHANGED <<now, cpu>>
        BY <2>3 DEF ClockTurns
      <3> QED
        BY <2>1, <3>1 DEF ClockOf
    <2> QED
      BY <2>2, <2>3
  <1>5. /\ r \in Slot /\ c \in Clock /\ e \in Clock /\ Sampling(r, c) /\ Sampling(r, e)
    BY <1>2, <1>3 DEF Fits
  <1>6. DueOf(o) = Due(r, c) /\ DueOf(o)' = Due(r, e)
    BY <1>2 DEF DueOf
  <1> HIDE DEF r, c, e
  <1>7. /\ c.wall \in Nat /\ c.cpu \in Nat /\ e.wall \in Nat /\ e.cpu \in Nat
        /\ r.wallUsed \in Nat /\ r.cpuUsed \in Nat /\ r.wallBase \in Nat /\ r.cpuBase \in Nat
    BY <1>5 DEF Clock, Slot
  <1>8. /\ "wall" \in r.open => WallRun(r, e) <= WallRun(r, c) + d
        /\ "cpu" \in r.open => CpuRun(r, e) <= CpuRun(r, c) + d
    BY <1>4, <1>7 DEF WallRun, CpuRun
  <1>9. SameLimits(r, r) /\ r.open \subseteq r.open /\ d \in Nat
    BY <1>4 DEF SameLimits
  <1>10. Due(r, c) <= Due(r, e)
    BY <1>4, <1>5, <1>8, <1>9, DueNoSooner
  <1>11. Due(r, c) \in Nat /\ Due(r, e) \in Nat
    BY <1>5, LeftType
  <1>12. Pressing(o)' => Pressing(o) /\ DueOf(o) <= DueOf(o)'
    BY <1>1, <1>2, <1>6, <1>10, <1>11 DEF Pressing, At
  <1>13. SameTicket(SlotOf(o), SlotOf(o)')
    BY <1>2 DEF SameTicket
  <1> QED
    BY <1>1, <1>2, <1>3, <1>12, <1>13, CoverKept

\* CoverInv is inductive, given WatchInv and a heap that can grow.
LEMMA CoverStep ==
  ASSUME WatchInv, CoverInv, HeapMayFail = FALSE, [Next]_vars
  PROVE  CoverInv'
  <1>1. WatchInv'
    BY WatchInvStep
  <1>2. ASSUME NEW o \in Owners, Owner(o) PROVE CoverInv'
    <2>1. ASSUME NEW p \in Owners, Holding(p)' PROVE Cover(p)'
      BY <1>1, <1>2, <2>1, OwnerCovered, OtherCovered
    <2> QED
      BY <2>1 DEF CoverInv
  <1>3. CASE Service
    <2>1. UNCHANGED own
      BY <1>3 DEF Service
    <2>2. ASSUME NEW o \in Owners, Holding(o)' PROVE Cover(o)'
      BY <1>1, <1>3, <2>1, <2>2, ServiceCovered DEF Holding
    <2> QED
      BY <2>2 DEF CoverInv
  <1>4. CASE Module
    BY <1>4, ModuleEmpty DEF CoverInv, WatchInv
  <1>5. CASE Tick \/ \E o \in Owners : ClockTurns(o)
    <2>1. UNCHANGED own
      BY <1>5 DEF Tick, ClockTurns
    <2>2. ASSUME NEW o \in Owners, Holding(o)' PROVE Cover(o)'
      BY <1>1, <1>5, <2>1, <2>2, TimeCovered DEF Holding
    <2> QED
      BY <2>2 DEF CoverInv
  <1>6. CASE UNCHANGED <<slots, irq, own, heap, module>> /\ UNCHANGED clocks
    BY <1>6 DEF CoverInv, Holding, Cover, Timely, Pressing, Outstanding, Ticket, DueOf,
                EntryFor, Live, SlotOf, ClockOf, At, clocks
  <1>7. \/ \E o \in Owners : Owner(o)
        \/ Module \/ Service \/ Tick \/ \E o \in Owners : ClockTurns(o)
        \/ UNCHANGED <<slots, irq, own, heap, module>> /\ UNCHANGED clocks
    BY DEF Next, WatchdogThread, Exit, Sleep, Wake, vars, clocks
  <1> QED
    BY <1>2, <1>3, <1>4, <1>5, <1>6, <1>7

\* Nobody is covered, or needs to be, when the module starts.
LEMMA InitCover == Init => CoverInv
BY DEF Init, CoverInv, Holding, Idle

\* The watchdog never sleeps past a breach: while the thread runs, a call whose
\* flag is down and whose limit runs out at a known instant has a live entry, in
\* the heap or about to be published, that is looked at no later; at every point
\* of the owner's code but the one between a new limit and its republication,
\* and however many calls, pauses and tenants the slot has seen.  A publication
\* the heap has no memory for is dropped, so that it must be able to grow.
THEOREM DeadlinesAreCovered ==
  ASSUME HeapMayFail = FALSE
  PROVE  Spec => []DeadlineCovered
  <1>1. ASSUME WatchInv, CoverInv PROVE DeadlineCovered
    <2> SUFFICES ASSUME NEW o \in Owners, own[o].slot # NoSlot, ~At(o, "republish"),
                        module.running, irq[o] = "none"
                 PROVE  Covering(o)
      BY DEF DeadlineCovered
    <2> DEFINE r == SlotOf(o)
               c == ClockOf(o)
    <2> SUFFICES ASSUME r.hasLimits, HasDeadline(r, c), ~CpuLost(r, c),
                        Deadline(r, c) < U64Max
                 PROVE  \E e \in Outstanding(o) :
                          e.slot = own[o].slot /\ Live(e) /\ e.deadline <= Deadline(r, c)
      BY DEF Covering, Outstanding
    <2>1. Holding(o)
      BY DEF Holding
    <2>2. Cover(o) /\ Fits(o)
      BY <1>1, <2>1, Fit DEF CoverInv
    <2>3. Deadline(r, c) = DueOf(o)
      BY <2>2, DeadlineIsDue DEF Fits, DueOf
    <2>4. Pressing(o)
      BY <2>3 DEF Pressing
    <2> QED
      BY <2>2, <2>3, <2>4 DEF Cover, Timely
  <1>2. WatchInv /\ CoverInv /\ [Next]_vars => CoverInv'
    BY CoverStep
  <1> QED
    BY <1>1, <1>2, InitCover, WatchdogHolds, PTL DEF Spec
=============================================================================
