------------------------------- MODULE Ledger -------------------------------
(***************************************************************************)
(* The memory ledger of luaext_alloc.c as operators on one luaext_alloc    *)
(* record.  `usage` is what lua_Alloc has handed to the interpreter,       *)
(* `charged` what the sandbox holds outside the Lua heap on the script's   *)
(* account; Limits::$memoryBytes bounds their sum.  Counters are size_t;   *)
(* the operators do not wrap, and that no counter ever leaves 0..SizeMax   *)
(* is part of Memory's type invariant.                                     *)
(*                                                                         *)
(* The collector is "on", or "stopped" (a __gc finaliser is running, so    *)
(* lua_gc() refuses every parameter).                                      *)
(***************************************************************************)
EXTENDS Naturals

CONSTANTS
  SizeMax,       \* SIZE_MAX
  Headroom,      \* LUAEXT_ERROR_REPORT_HEADROOM
  MinCapacity    \* LUAEXT_OUTPUT_MIN_CAPACITY

ASSUME LedgerAssumption ==
  /\ SizeMax \in Nat /\ Headroom \in Nat
  /\ MinCapacity \in Nat \ {0}

Size == 0 .. SizeMax
Tiers == 0 .. 3
Collector == {"on", "stopped"}

\* `memo` is gc_last_tune, `tuning` the tier whose parameters lua_gc() holds.
\* The peak, which nothing reads but stats(), is left out.
Account ==
  [usage : Size, charged : Size, limit : Size, memo : Tiers, tuning : Tiers]

Opened(limit) ==
  [usage |-> 0, charged |-> 0, limit |-> limit, memo |-> 0, tuning |-> 0]

Live(a) == a.usage + a.charged

\* Shifts of the limit: seven eighths, three quarters, a half.
Tier(live, limit) ==
  IF limit = 0 \/ live < limit \div 2    THEN 0
  ELSE IF live < limit - limit \div 4    THEN 1
  ELSE IF live < limit - limit \div 8    THEN 2
  ELSE 3

\* Mutant: the memo does not wait for the collector's answer.
TunedAnyway(a, collector) ==
  LET tier == Tier(Live(a), a.limit) IN
  [a EXCEPT !.memo = tier,
            !.tuning = IF collector = "on" /\ tier # a.memo THEN tier
                                                            ELSE a.tuning]

\* The memo is written only once the collector accepted a parameter.
Tuned(a, collector) ==
  LET tier == Tier(Live(a), a.limit) IN
  IF collector = "on" /\ tier # a.memo
    THEN [a EXCEPT !.memo = tier, !.tuning = tier]
    ELSE a

\* Mutant: a limit lowered below what is held wraps the room that is left.
FitsWrapping(a, growth) ==
  IF a.limit = 0 THEN growth <= SizeMax - Live(a)
                 ELSE growth <= (SizeMax + 1 + a.limit - Live(a)) % (SizeMax + 1)

Fits(a, growth) ==
  IF a.limit = 0 THEN growth <= SizeMax - Live(a)
                 ELSE Live(a) < a.limit /\ growth <= a.limit - Live(a)

\* A block that grew, once Fits and the system allocator both agreed.
Grown(a, growth, collector) ==
  Tuned([a EXCEPT !.usage = a.usage + growth], collector)

\* A block that shrank or was freed.  Neither looks at the tier.
Shrunk(a, bytes) == [a EXCEPT !.usage = a.usage - bytes]

\* An accepted charge; nothing at all happens to a refused one.
Charged(a, bytes, collector) ==
  IF bytes = 0 THEN a
  ELSE Tuned([a EXCEPT !.charged = a.charged + bytes], collector)

Discharged(a, bytes, collector) ==
  LET held == IF bytes > a.charged THEN a.charged ELSE bytes
  IN  Tuned([a EXCEPT !.charged = a.charged - held], collector)

Limited(a, limit, collector) == Tuned([a EXCEPT !.limit = limit], collector)

\* Mutant: the headroom wraps past SIZE_MAX.
LiftedWrapping(a) ==
  IF a.limit = 0 THEN a ELSE [a EXCEPT !.limit = a.limit + Headroom]

\* Mutant: the headroom is taken off again, wherever the ceiling stands.
RestoredByHeadroom(a, saved) ==
  IF saved = 0 THEN a ELSE [a EXCEPT !.limit = a.limit - Headroom]

\* The message handler raises the ceiling while it describes an error, and
\* puts the one it found back, without a word to the collector either time.
Lifted(a) ==
  IF a.limit = 0 THEN a
  ELSE [a EXCEPT !.limit = IF a.limit > SizeMax - Headroom
                             THEN SizeMax ELSE a.limit + Headroom]

Restored(a, saved) == IF saved = 0 THEN a ELSE [a EXCEPT !.limit = saved]

\* What the output buffer grows to when `needed` does not fit: doubled from its
\* capacity, or from the least capacity, until it does; exactly `needed` when
\* doubling would wrap.  A set with one element.
Capacities(have, needed) ==
  LET base   == IF have >= MinCapacity THEN have ELSE MinCapacity
      enough == {c \in needed .. SizeMax : \E k \in 0 .. needed : c = base * 2 ^ k}
  IN  IF enough = {} THEN {needed}
                     ELSE {c \in enough : \A d \in enough : c <= d}
=============================================================================
