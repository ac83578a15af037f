------------------------------- MODULE IrqFlag -------------------------------
(***************************************************************************)
(* The interrupt flag of a sandbox, as three threads use it: struct        *)
(* luaext_irq is two atomic bytes, `reason` and `interrupted`, and all     *)
(* that orders them is C11: a writer stores the reason relaxed and then    *)
(* the flag with release, a reader loads the flag relaxed and fences       *)
(* before it loads the reason.  Watchdog and Timers take a raise as one    *)
(* step; this module takes it apart.                                       *)
(*                                                                         *)
(* Each byte is the sequence of the values stored in it.  A thread may     *)
(* load any value not older than the last one it has seen (coherence); it  *)
(* has seen what it stored, what the slot's mutex carried to it, and what  *)
(* a release store carried across an acquire fence.                        *)
(***************************************************************************)
EXTENDS Integers, Sequences

CONSTANTS
  Sites,       \* where the interpreter polls: "check", "backedge", or both
  MaxCalls,    \* bound: outermost calls
  MaxTrips,    \* bound: breaches the owner and the watchdog raise, each
  MaxAborts    \* bound: Sandbox::interrupt() calls

ASSUME IrqFlagAssumption ==
  /\ Sites \subseteq {"check", "backedge"}
  /\ MaxCalls \in Nat /\ MaxTrips \in Nat /\ MaxAborts \in Nat

VARIABLES
  flag,     \* irq.interrupted: every store, and the view a release carries
  reason,   \* irq.reason: every store
  seen,     \* each thread's view: the last store it knows of, in each byte
  lock,     \* the slot's mutex, and the view its last holder left
  writing,  \* the raise each thread is in the middle of, or "none"
  left,     \* how many raises each thread may still make
  owner,    \* where the owner thread is
  tripped   \* auxiliary: a breach was raised before the boundary's sample

irqVars == <<flag, reason, seen, lock, writing, left, owner, tripped>>

Threads == {"owner", "watchdog", "foreign"}
Budgets == {"cpu", "wall"}
IrqReasons == {"none", "abort"} \cup Budgets
Stale   == [flag |-> 1, reason |-> 1]

\* The owner is at "idle", "lua", "trip", "sample", "boundary", "raise",
\* "unfenced", "left" or "disarmed".  "trip" and "boundary": inside an
\* evaluation, the second at the end of the call.  "raise" and "unfenced": a
\* poll, with a fence or without one, has seen the flag and will ask for the
\* reason.

\* luaext_timers_attach: both bytes down.
IrqInit ==
  /\ flag = <<[up |-> FALSE, carries |-> 1]>>
  /\ reason = <<"none">>
  /\ seen = [t \in Threads |-> Stale]
  /\ lock = [holder |-> "nobody", carries |-> Stale]
  /\ writing = [t \in Threads |-> "none"]
  /\ left = [t \in Threads |-> IF t = "foreign" THEN MaxAborts ELSE MaxTrips]
  /\ owner = [at |-> "idle", call |-> 0, uncleared |-> {}, got |-> "ok"]
  /\ tripped = FALSE

-----------------------------------------------------------------------------
(* Memory                                                                  *)

Later(a, b) == IF a < b THEN b ELSE a
Joined(v, w) == [flag |-> Later(v.flag, w.flag), reason |-> Later(v.reason, w.reason)]

\* Thread t has taken the slot's lock.
Synced(t) == [seen EXCEPT ![t] = Joined(@, lock.carries)]

\* Mutant: no fence between the load of the flag and that of the reason.
Unfenced(v, i) == [v EXCEPT !.flag = i]

\* View v after an acquire fence that follows a load of flag[i].
Fenced(v, i) == [flag |-> i, reason |-> Later(v.reason, flag[i].carries)]

StoreReason(t, why, view) ==
  /\ reason' = Append(reason, why)
  /\ seen' = [view EXCEPT ![t].reason = Len(reason) + 1]

StoreFlag(t, up, carries) ==
  /\ flag' = Append(flag, [up |-> up, carries |-> carries])
  /\ seen' = [seen EXCEPT ![t].flag = Len(flag) + 1]

-----------------------------------------------------------------------------
(* Raising: luaext_watch_raise, under the slot's lock, by the watchdog or  *)
(* by the owner's own evaluation; luaext_timers_request, under no lock.    *)

LockFree == lock.holder = "nobody"

\* luaext_watch_evaluate trips: the first of the two stores.
Trip(t, why) ==
  /\ left[t] > 0 /\ LockFree
  /\ StoreReason(t, why, Synced(t))
  /\ lock' = [lock EXCEPT !.holder = t]
  /\ writing' = [writing EXCEPT ![t] = why]
  /\ left' = [left EXCEPT ![t] = @ - 1]
  /\ UNCHANGED flag

\* The second store, and the unlock.
TripDone(t) ==
  /\ writing[t] # "none"
  /\ StoreFlag(t, TRUE, seen[t].reason)
  /\ lock' = [holder |-> "nobody", carries |-> seen'[t]]
  /\ writing' = [writing EXCEPT ![t] = "none"]
  /\ tripped' = (tripped \/ owner.at # "boundary")
  /\ UNCHANGED <<reason, left>>

\* The watchdog evaluates a slot that is armed.
WatchdogBegins ==
  /\ owner.at \in {"lua", "sample", "boundary", "raise", "unfenced", "left"}
  /\ \E why \in Budgets : Trip("watchdog", why)
  /\ UNCHANGED <<owner, tripped>>

WatchdogDone == TripDone("watchdog") /\ UNCHANGED owner

\* Sandbox::interrupt(), from a thread that shares nothing but the two bytes.
InterruptBegins ==
  /\ left["foreign"] > 0 /\ writing["foreign"] = "none"
  /\ StoreReason("foreign", "abort", seen)
  /\ writing' = [writing EXCEPT !["foreign"] = "abort"]
  /\ left' = [left EXCEPT !["foreign"] = @ - 1]
  /\ UNCHANGED <<flag, lock, owner, tripped>>

InterruptDone ==
  /\ writing["foreign"] # "none"
  /\ StoreFlag("foreign", TRUE, seen["foreign"].reason)
  /\ writing' = [writing EXCEPT !["foreign"] = "none"]
  /\ UNCHANGED <<reason, lock, left, owner, tripped>>

-----------------------------------------------------------------------------
(* The owner: one outermost call                                           *)

\* luaext_timers_enter_lua; arming takes the lock.
Enter ==
  /\ owner.at = "idle" /\ owner.call < MaxCalls /\ LockFree
  /\ owner' = [owner EXCEPT !.at = "lua", !.call = @ + 1, !.got = "ok"]
  /\ seen' = Synced("owner")
  /\ lock' = [lock EXCEPT !.carries = seen'["owner"]]
  /\ tripped' = FALSE
  /\ UNCHANGED <<flag, reason, writing, left>>

\* The owner's own evaluation of its slot trips: in mid-call (a resume, the
\* hook, a long callback's return) or in the boundary's sample.
OwnerTrips ==
  /\ owner.at \in {"lua", "sample"}
  /\ \E why \in Budgets : Trip("owner", why)
  /\ owner' = [owner EXCEPT !.at = IF @ = "lua" THEN "trip" ELSE "boundary"]
  /\ UNCHANGED tripped

OwnerTripped ==
  /\ owner.at \in {"trip", "boundary"}
  /\ TripDone("owner")
  /\ owner' = [owner EXCEPT !.at = IF @ = "trip" THEN "raise" ELSE @]

\* Loads flag[i]; what happens if it is up, and if it is down.
Poll(i) == i \in seen["owner"].flag .. Len(flag)

\* LUAEXT_CHECK fences before it raises; the back edges' LUAEXT_VMCHECK, which
\* does the rest alike, does not.
PollFlag(site) ==
  /\ owner.at = "lua"
  /\ \E i \in 1..Len(flag) :
       /\ Poll(i) /\ flag[i].up
       /\ seen' = [seen EXCEPT !["owner"] =
                     IF site = "check" THEN Fenced(@, i) ELSE [@ EXCEPT !.flag = i]]
  /\ owner' = [owner EXCEPT !.at = IF site = "check" THEN "raise" ELSE "unfenced"]
  /\ UNCHANGED <<flag, reason, lock, writing, left, tripped>>

\* luaext_raise_interrupt: the load of the reason.  Lua may swallow the error
\* (a stock pcall, a finaliser) and run on, or the call ends in it.
Raise ==
  /\ owner.at \in {"raise", "unfenced"}
  /\ \E i \in seen["owner"].reason .. Len(reason) :
       /\ seen' = [seen EXCEPT !["owner"].reason = i]
       /\ owner' \in {[owner EXCEPT !.at = "left", !.got = reason[i]],
                      [owner EXCEPT !.at = "lua"]}
  /\ UNCHANGED <<flag, reason, lock, writing, left, tripped>>

\* lua_pcall returned LUA_OK: luaext_timers_throw_if_interrupted begins.
Return ==
  /\ owner.at = "lua"
  /\ owner' = [owner EXCEPT !.at = "sample"]
  /\ UNCHANGED <<flag, reason, seen, lock, writing, left, tripped>>

\* Mutant: the sample is skipped, and with it the lock.
SampleSkipped ==
  /\ owner.at = "sample"
  /\ owner' = [owner EXCEPT !.at = "boundary"]
  /\ UNCHANGED <<flag, reason, seen, lock, writing, left, tripped>>

\* luaext_watchdog_final_check finds the slot within its budgets.
Sample ==
  /\ owner.at = "sample" /\ LockFree
  /\ seen' = Synced("owner")
  /\ lock' = [lock EXCEPT !.carries = seen'["owner"]]
  /\ owner' = [owner EXCEPT !.at = "boundary"]
  /\ UNCHANGED <<flag, reason, writing, left, tripped>>

\* The rest of luaext_timers_throw_if_interrupted.
Boundary ==
  /\ owner.at = "boundary" /\ writing["owner"] = "none"
  /\ \E i \in 1..Len(flag) :
       /\ Poll(i)
       /\ IF flag[i].up
          THEN \E j \in Fenced(seen["owner"], i).reason .. Len(reason) :
                 /\ seen' = [seen EXCEPT !["owner"] = [flag |-> i, reason |-> j]]
                 /\ owner' = [owner EXCEPT !.at = "left", !.got = reason[j]]
          ELSE /\ seen' = [seen EXCEPT !["owner"].flag = i]
               /\ owner' = [owner EXCEPT !.at = "left", !.got = "ok"]
  /\ UNCHANGED <<flag, reason, lock, writing, left, tripped>>

\* Mutant: the slot is disarmed without its lock.
DisarmUnlocked ==
  /\ owner.at = "left"
  /\ owner' = [owner EXCEPT !.at = "disarmed", !.uncleared = {"flag", "reason"}]
  /\ UNCHANGED <<flag, reason, seen, lock, writing, left, tripped>>

\* luaext_watchdog_disarm
Disarm ==
  /\ owner.at = "left" /\ LockFree
  /\ seen' = Synced("owner")
  /\ lock' = [lock EXCEPT !.carries = seen'["owner"]]
  /\ owner' = [owner EXCEPT !.at = "disarmed", !.uncleared = {"flag", "reason"}]
  /\ UNCHANGED <<flag, reason, writing, left, tripped>>

\* luaext_timers_leave_lua lowers both bytes, relaxed, so in either order.
Cleared(byte) ==
  owner' = [owner EXCEPT !.uncleared = @ \ {byte},
                         !.at = IF owner.uncleared = {byte} THEN "idle" ELSE @]

ClearFlag ==
  /\ "flag" \in owner.uncleared
  /\ StoreFlag("owner", FALSE, 1)
  /\ Cleared("flag")
  /\ UNCHANGED <<reason, lock, writing, left, tripped>>

ClearReason ==
  /\ "reason" \in owner.uncleared
  /\ StoreReason("owner", "none", seen)
  /\ Cleared("reason")
  /\ UNCHANGED <<flag, lock, writing, left, tripped>>

-----------------------------------------------------------------------------

IrqNext ==
  \/ WatchdogBegins \/ WatchdogDone \/ InterruptBegins \/ InterruptDone
  \/ Enter \/ OwnerTrips \/ OwnerTripped
  \/ \E site \in Sites : PollFlag(site)
  \/ Raise \/ Return \/ Sample \/ Boundary
  \/ Disarm \/ ClearFlag \/ ClearReason

IrqSpec == IrqInit /\ [][IrqNext]_irqVars

-----------------------------------------------------------------------------
(* Properties                                                              *)

\* A breach dies with its call: between two calls, no flag the owner could still
\* load was raised for a budget, however the stores of the last call's raises and
\* of its clearing interleaved.  Only interrupt() may leave one up.
BreachDiesWithItsCall ==
  owner.at = "idle" =>
    \A i \in seen["owner"].flag .. Len(flag) :
      flag[i].up => reason[flag[i].carries] = "abort"

\* A call that reports success was never tripped before its boundary sampled
\* it: the relaxed load there cannot miss a raise, because the slot's lock has
\* carried it over.
NoSuccessPastATrip ==
  [][owner.at = "boundary" /\ owner'.at = "left" /\ owner'.got = "ok"
       => ~tripped]_irqVars

\* A reader that fences after it has observed the flag observes the reason too:
\* as long as the raises are made under the slot's lock (no interrupt() so far),
\* the error that a LUAEXT_CHECK or the boundary ends a call in names one.
FencedRaiseNamesItsReason ==
  [][owner.at \in {"raise", "boundary"} /\ owner'.at = "left"
       /\ left["foreign"] = MaxAborts
       => owner'.got # "none"]_irqVars

-----------------------------------------------------------------------------
(* What a document says and the code does not do, refuted by its own run.  *)

\* luaext_types.h says of every reader that it "executes an acquire fence before
\* acting, so a reader that observes the flag also observes the matching
\* reason".  The back edges of the VM do not fence.
RaiseNamesItsReason == owner.got # "none"
=============================================================================
