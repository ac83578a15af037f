---------------------------- MODULE LimitsProofs ----------------------------
(***************************************************************************)
(* Theorems about the two parts of a sandbox that share no state but are   *)
(* both books kept of what a limit is spent on: the allocator and the      *)
(* printed output (Memory: luaext_alloc.c, luaext_error.c), and the        *)
(* modules (Require: luaext_require.c).                                    *)
(*                                                                         *)
(* Memory, for every budget, however many blocks and files, and however    *)
(* deep calls, callbacks and error reports nest.                           *)
(*                                                                         *)
(* The first invariant is a ladder: every report on the stack saved the    *)
(* ceiling that the reports beneath it had earned, so that whichever of    *)
(* them ends first puts back the right one.  A host that may set the       *)
(* limits during a report (SetDuringReport) breaks the ladder, and only    *)
(* that: all else that is said here holds for it too.  Beside the ladder   *)
(* stand the books (Books: what is billed is what is held) and the sink    *)
(* (Sink: what was printed leaves once, in order), each inductive with it. *)
(***************************************************************************)
EXTENDS Memory, Require, SumTheorems, SequenceTheorems

-----------------------------------------------------------------------------
(***************************************************************************)
(* What the operators of luaext_alloc.c do to a ledger.  `usage` is taken  *)
(* to be any integer: that a block never gives back more than it took is   *)
(* a fact about sums over the interpreter's blocks, which these lemmas do  *)
(* without and BooksBalance proves further down.                           *)
(***************************************************************************)

Ledgers ==
  [usage : Int, charged : Nat, limit : Size, memo : Tiers, tuning : Tiers]

\* The collector works at the tier the memo says, and at the tier the ledger
\* calls for.
Synced(a) == a.memo = a.tuning
AtTier(a) == a.tuning = Tier(Live(a), a.limit)

\* The four tiers of luaext_alloc_tier cover every figure.
LEMMA TierInRange ==
  ASSUME NEW live, NEW limit PROVE Tier(live, limit) \in Tiers
BY DEF Tier, Tiers

\* luaext_alloc_tune_gc moves no byte; told of a ledger whose memo is true, it
\* leaves one whose memo is true, and a collector that listens at its tier.
LEMMA TunedFacts ==
  ASSUME NEW a \in Ledgers, NEW c \in Collector
  PROVE  /\ Tuned(a, c) \in Ledgers
         /\ Tuned(a, c).usage = a.usage
         /\ Tuned(a, c).charged = a.charged
         /\ Tuned(a, c).limit = a.limit
         /\ Live(Tuned(a, c)) = Live(a)
         /\ Synced(a) => Synced(Tuned(a, c))
         /\ Synced(a) /\ c = "on" => AtTier(Tuned(a, c))
<1> DEFINE tier == Tier(Live(a), a.limit)
<1>1. tier \in Tiers
  BY TierInRange
<1> HIDE DEF tier
<1>2. CASE c = "on" /\ tier # a.memo
  <2>1. Tuned(a, c) = [a EXCEPT !.memo = tier, !.tuning = tier]
    BY <1>2 DEF Tuned, tier
  <2>2. /\ Tuned(a, c) \in Ledgers
        /\ Tuned(a, c).usage = a.usage /\ Tuned(a, c).charged = a.charged
        /\ Tuned(a, c).limit = a.limit
        /\ Tuned(a, c).memo = tier /\ Tuned(a, c).tuning = tier
    BY <2>1, <1>1 DEF Ledgers
  <2> QED
    BY <2>2 DEF Synced, AtTier, Live, tier
<1>3. CASE ~(c = "on" /\ tier # a.memo)
  <2>1. Tuned(a, c) = a
    BY <1>3 DEF Tuned, tier
  <2> QED
    BY <2>1, <1>3 DEF Synced, AtTier, tier
<1> QED
  BY <1>2, <1>3

\* luaext_alloc_charge adds exactly what it is asked for.
LEMMA ChargedFacts ==
  ASSUME NEW a \in Ledgers, NEW b \in Nat, NEW c \in Collector
  PROVE  /\ Charged(a, b, c) \in Ledgers
         /\ Charged(a, b, c).usage = a.usage
         /\ Charged(a, b, c).charged = a.charged + b
         /\ Charged(a, b, c).limit = a.limit
         /\ Synced(a) => Synced(Charged(a, b, c))
         /\ Synced(a) /\ c = "on" /\ b # 0 => AtTier(Charged(a, b, c))
<1> DEFINE more == [a EXCEPT !.charged = a.charged + b]
<1>1. CASE b = 0
  BY <1>1 DEF Charged, Ledgers
<1>2. CASE b # 0
  <2>1. /\ more \in Ledgers /\ more.usage = a.usage
        /\ more.charged = a.charged + b /\ more.limit = a.limit
        /\ Synced(a) => Synced(more)
    BY DEF Ledgers, Synced
  <2>2. Charged(a, b, c) = Tuned(more, c)
    BY <1>2 DEF Charged
  <2> HIDE DEF more
  <2> QED
    BY <2>1, <2>2, TunedFacts
<1> QED
  BY <1>1, <1>2

\* luaext_alloc_discharge gives back what it is asked for, and never more than
\* there is.
LEMMA DischargedFacts ==
  ASSUME NEW a \in Ledgers, NEW b \in Nat, NEW c \in Collector
  PROVE  /\ Discharged(a, b, c) \in Ledgers
         /\ Discharged(a, b, c).usage = a.usage
         /\ Discharged(a, b, c).charged <= a.charged
         /\ b <= a.charged => Discharged(a, b, c).charged = a.charged - b
         /\ Discharged(a, b, c).limit = a.limit
         /\ Synced(a) => Synced(Discharged(a, b, c))
         /\ Synced(a) /\ c = "on" => AtTier(Discharged(a, b, c))
<1> DEFINE held == IF b > a.charged THEN a.charged ELSE b
           less == [a EXCEPT !.charged = a.charged - held]
<1>1. a.charged \in Nat
  BY DEF Ledgers
<1>2. /\ held \in Nat /\ a.charged - held \in Nat /\ a.charged - held <= a.charged
      /\ b <= a.charged => held = b
  BY <1>1
<1>3. Discharged(a, b, c) = Tuned(less, c)
  BY DEF Discharged
<1> HIDE DEF held
<1>4. /\ less \in Ledgers /\ less.usage = a.usage
      /\ less.charged = a.charged - held /\ less.limit = a.limit
      /\ Synced(a) => Synced(less)
  BY <1>2 DEF Ledgers, Synced
<1> HIDE DEF less
<1> QED
  BY <1>2, <1>3, <1>4, TunedFacts

\* The growing branch of luaext_lua_alloc.
LEMMA GrownFacts ==
  ASSUME NEW a \in Ledgers, NEW b \in Nat, NEW c \in Collector
  PROVE  /\ Grown(a, b, c) \in Ledgers
         /\ Grown(a, b, c).usage = a.usage + b
         /\ Grown(a, b, c).charged = a.charged
         /\ Grown(a, b, c).limit = a.limit
         /\ Synced(a) => Synced(Grown(a, b, c))
         /\ Synced(a) /\ c = "on" => AtTier(Grown(a, b, c))
<1> DEFINE more == [a EXCEPT !.usage = a.usage + b]
<1>1. /\ more \in Ledgers /\ more.usage = a.usage + b
      /\ more.charged = a.charged /\ more.limit = a.limit
      /\ Synced(a) => Synced(more)
  BY DEF Ledgers, Synced
<1>2. Grown(a, b, c) = Tuned(more, c)
  BY DEF Grown
<1> HIDE DEF more
<1> QED
  BY <1>1, <1>2, TunedFacts

\* The shrinking branch, and the freeing one.
LEMMA ShrunkFacts ==
  ASSUME NEW a \in Ledgers, NEW b \in Int
  PROVE  /\ Shrunk(a, b) \in Ledgers
         /\ Shrunk(a, b).usage = a.usage - b
         /\ Shrunk(a, b).charged = a.charged
         /\ Shrunk(a, b).limit = a.limit
         /\ Synced(a) => Synced(Shrunk(a, b))
BY DEF Shrunk, Ledgers, Synced

\* luaext_alloc_set_limit moves the ceiling and no byte.
LEMMA LimitedFacts ==
  ASSUME NEW a \in Ledgers, NEW m \in Size, NEW c \in Collector
  PROVE  /\ Limited(a, m, c) \in Ledgers
         /\ Limited(a, m, c).limit = m
         /\ Live(Limited(a, m, c)) = Live(a)
         /\ Synced(a) => Synced(Limited(a, m, c))
<1> DEFINE new == [a EXCEPT !.limit = m]
<1>1. /\ new \in Ledgers /\ new.limit = m /\ Live(new) = Live(a)
      /\ Synced(a) => Synced(new)
  BY DEF Ledgers, Synced, Live
<1>2. Limited(a, m, c) = Tuned(new, c)
  BY DEF Limited
<1> HIDE DEF new
<1> QED
  BY <1>1, <1>2, TunedFacts

\* The headroom luaext_error_traceback_handler grants saturates.
LEMMA LiftedFacts ==
  ASSUME NEW a \in Ledgers
  PROVE  /\ Lifted(a) \in Ledgers
         /\ Lifted(a).limit = IF a.limit = 0 THEN 0
                              ELSE IF a.limit + Headroom > SizeMax THEN SizeMax
                              ELSE a.limit + Headroom
         /\ Live(Lifted(a)) = Live(a)
         /\ Synced(a) => Synced(Lifted(a))
<1> DEFINE top == IF a.limit > SizeMax - Headroom THEN SizeMax ELSE a.limit + Headroom
<1>1. /\ a.limit \in Nat /\ a.limit <= SizeMax /\ SizeMax \in Nat /\ Headroom \in Nat
  BY LedgerAssumption DEF Ledgers, Size
<1>2. /\ top \in Size
      /\ top = IF a.limit + Headroom > SizeMax THEN SizeMax ELSE a.limit + Headroom
  BY <1>1 DEF Size
<1>3. CASE a.limit = 0
  BY <1>3 DEF Lifted, Ledgers
<1>4. CASE a.limit # 0
  <2>1. Lifted(a) = [a EXCEPT !.limit = top]
    BY <1>4 DEF Lifted
  <2> HIDE DEF top
  <2>2. /\ Lifted(a) \in Ledgers /\ Lifted(a).limit = top
        /\ Live(Lifted(a)) = Live(a)
        /\ Synced(a) => Synced(Lifted(a))
    BY <2>1, <1>2 DEF Ledgers, Live, Synced
  <2>3. Lifted(a).limit = IF a.limit + Headroom > SizeMax THEN SizeMax
                          ELSE a.limit + Headroom
    BY <2>2, <1>2
  <2> QED
    BY <2>2, <2>3, <1>4
<1> QED
  BY <1>3, <1>4

\* It puts the ceiling it saved back; an unlimited sandbox had none to save.
LEMMA RestoredFacts ==
  ASSUME NEW a \in Ledgers, NEW saved \in Size
  PROVE  /\ Restored(a, saved) \in Ledgers
         /\ Restored(a, saved).limit = IF saved = 0 THEN a.limit ELSE saved
         /\ Live(Restored(a, saved)) = Live(a)
         /\ Synced(a) => Synced(Restored(a, saved))
<1>1. CASE saved = 0
  BY <1>1 DEF Restored
<1>2. CASE saved # 0
  <2>1. Restored(a, saved) = [a EXCEPT !.limit = saved]
    BY <1>2 DEF Restored
  <2> QED
    BY <2>1, <1>2 DEF Ledgers, Live, Synced
<1> QED
  BY <1>1, <1>2

\* luaext_alloc_fits keeps the growth it lets through under the ceiling.
LEMMA FitsFacts ==
  ASSUME NEW a \in Ledgers, NEW b \in Nat, Fits(a, b)
  PROVE  Live(a) + b <= IF a.limit = 0 THEN SizeMax ELSE a.limit
<1>1. /\ Live(a) \in Int /\ a.limit \in Nat /\ SizeMax \in Nat
  BY LedgerAssumption DEF Ledgers, Live, Size
<1> QED
  BY <1>1 DEF Fits

-----------------------------------------------------------------------------

LuaKinds == {"script", "finaliser", "report"}

\* What frame `f` can stand on: `below`, or the host that made the sandbox.
OnHost(f) ==
  /\ f.kind \notin {"call", "write", "report", "emit"}
  /\ f.kind = "flush" => f.purpose \notin {"channel", "tail"}

OnFrame(below, f) ==
  /\ f.kind \in {"call", "write"} => below.kind \in LuaKinds
  /\ f.kind = "report" => below.kind = "script"
  /\ f.kind = "flush" /\ f.purpose \in {"channel", "tail"} => below.kind = "write"
  /\ f.kind = "flush" => f.purpose # "close"
  /\ f.kind = "emit" => below.kind = "flush" /\ below.purpose = f.purpose

\* The reports among the first k frames, and what so many earn.
RungsTo(s, k) == Cardinality({i \in 1 .. k : s[i].kind = "report"})
Rungs(s) == RungsTo(s, Len(s))

Ceiling(m, k) ==
  IF m = 0 THEN 0 ELSE IF m + k * Headroom > SizeMax THEN SizeMax
                       ELSE m + k * Headroom

Rung(s, i, m) ==
  /\ IF i = 1 THEN OnHost(s[i]) ELSE OnFrame(s[i - 1], s[i])
  /\ ~SetDuringReport /\ s[i].kind = "report" =>
       s[i].saved = Ceiling(m, RungsTo(s, i - 1))

Ladder(s, m) == \A i \in 1 .. Len(s) : Rung(s, i, m)

\* A stack and a ledger that agree under the host's limit `m`.
Good(s, led, m) ==
  /\ s \in Seq(Frame) /\ Ladder(s, m)
  /\ led \in Ledgers /\ Synced(led)
  /\ ~SetDuringReport => led.limit = Ceiling(m, Rungs(s))

Typed ==
  /\ blocks \in [Blocks -> Nat]
  /\ charges \in [Handles -> Nat]
  /\ buffered \in Nat
  /\ out \in OutputSink
  /\ policy \in [memory : Size, overflow : AllOverflows]
  /\ pending \in BOOLEAN /\ closed \in BOOLEAN

IInv == Typed /\ Good(stack, alloc, policy.memory)

-----------------------------------------------------------------------------
(* The ladder *)

\* Counting reports depends on nothing but the frames counted.
LEMMA RungsType ==
  ASSUME NEW s, NEW k \in Nat
  PROVE  RungsTo(s, k) \in Nat
<1>1. IsFiniteSet(1 .. k)
  BY FS_Interval
<1>2. IsFiniteSet({i \in 1 .. k : s[i].kind = "report"})
  BY <1>1, FS_Subset
<1> QED
  BY <1>2, FS_CardinalityType DEF RungsTo

LEMMA RungsSame ==
  ASSUME NEW s, NEW t, NEW k \in Nat, \A i \in 1 .. k : s[i] = t[i]
  PROVE  RungsTo(s, k) = RungsTo(t, k)
<1>1. {i \in 1 .. k : s[i].kind = "report"} = {i \in 1 .. k : t[i].kind = "report"}
  OBVIOUS
<1> QED
  BY <1>1 DEF RungsTo

\* One more frame is one more report, or none.
LEMMA RungsNext ==
  ASSUME NEW s, NEW k \in Nat
  PROVE  RungsTo(s, k + 1) = RungsTo(s, k) + IF s[k + 1].kind = "report" THEN 1 ELSE 0
<1> DEFINE A == {i \in 1 .. k : s[i].kind = "report"}
           B == {i \in 1 .. k + 1 : s[i].kind = "report"}
<1>1. IsFiniteSet(A)
  <2>1. IsFiniteSet(1 .. k)
    BY FS_Interval
  <2> QED
    BY <2>1, FS_Subset
<1>2. Cardinality(A) \in Nat
  BY <1>1, FS_CardinalityType
<1>3. RungsTo(s, k) = Cardinality(A) /\ RungsTo(s, k + 1) = Cardinality(B)
  BY DEF RungsTo
<1>4. CASE s[k + 1].kind = "report"
  <2>1. B = A \cup {k + 1} /\ k + 1 \notin A
    BY <1>4
  <2> HIDE DEF A, B
  <2>2. Cardinality(B) = Cardinality(A) + 1
    BY <2>1, <1>1, FS_AddElement
  <2> QED
    BY <2>2, <1>3, <1>4
<1>5. CASE s[k + 1].kind # "report"
  <2>1. B = A
    BY <1>5
  <2> HIDE DEF A, B
  <2>2. Cardinality(B) = Cardinality(A) + 0
    BY <2>1, <1>2
  <2> QED
    BY <2>2, <1>3, <1>5
<1> QED
  BY <1>4, <1>5

\* A ceiling is a size, unlimited exactly when the host's is.
LEMMA CeilingFacts ==
  ASSUME NEW m \in Size, NEW k \in Nat
  PROVE  /\ Ceiling(m, k) \in Size
         /\ Ceiling(m, 0) = m
         /\ Ceiling(m, k) = 0 <=> m = 0
         /\ Ceiling(m, k + 1) =
              IF Ceiling(m, k) = 0 THEN 0
              ELSE IF Ceiling(m, k) + Headroom > SizeMax THEN SizeMax
              ELSE Ceiling(m, k) + Headroom
<1>1. m \in Nat /\ m <= SizeMax /\ SizeMax \in Nat /\ Headroom \in Nat
  BY LedgerAssumption DEF Size
<1> DEFINE h == k * Headroom
<1>2. h \in Nat /\ (k + 1) * Headroom = h + Headroom /\ 0 * Headroom = 0
  BY <1>1
<1>3. Ceiling(m, k) = IF m = 0 THEN 0 ELSE IF m + h > SizeMax THEN SizeMax ELSE m + h
  BY DEF Ceiling
<1>4. Ceiling(m, k + 1) = IF m = 0 THEN 0 ELSE IF m + (h + Headroom) > SizeMax
                            THEN SizeMax ELSE m + (h + Headroom)
  BY <1>2 DEF Ceiling
<1>5. Ceiling(m, 0) = m
  BY <1>1, <1>2 DEF Ceiling
<1> HIDE DEF h
<1> QED
  BY <1>1, <1>2, <1>3, <1>4, <1>5 DEF Size

\* Popping a frame keeps the ladder, and counts one report less if it was one.
LEMMA PopFacts ==
  ASSUME NEW s \in Seq(Frame), NEW m, Ladder(s, m), Len(s) > 0
  PROVE  /\ Popped(s) \in Seq(Frame)
         /\ Len(Popped(s)) = Len(s) - 1
         /\ \A i \in 1 .. Len(s) - 1 : Popped(s)[i] = s[i]
         /\ Ladder(Popped(s), m)
         /\ Rungs(s) = Rungs(Popped(s)) + IF s[Len(s)].kind = "report" THEN 1 ELSE 0
         /\ Rungs(Popped(s)) = RungsTo(s, Len(s) - 1)
         /\ Rungs(Popped(s)) \in Nat
<1> DEFINE p == Popped(s)
           k == Len(s) - 1
<1>1. k \in Nat /\ k + 1 = Len(s)
  OBVIOUS
<1>2. /\ p \in Seq(Frame) /\ Len(p) = k
      /\ \A i \in 1 .. k : p[i] = s[i]
  BY <1>1 DEF Popped
<1>3. \A j \in 0 .. k : RungsTo(p, j) = RungsTo(s, j)
  BY <1>1, <1>2, RungsSame
<1>4. Ladder(p, m)
  <2> SUFFICES ASSUME NEW i \in 1 .. k PROVE Rung(p, i, m)
    BY <1>2 DEF Ladder
  <2>1. Rung(s, i, m)
    BY <1>1 DEF Ladder
  <2>2. p[i] = s[i] /\ (i # 1 => p[i - 1] = s[i - 1]) /\ i - 1 \in 0 .. k
    BY <1>1, <1>2
  <2>3. RungsTo(p, i - 1) = RungsTo(s, i - 1)
    BY <2>2, <1>3
  <2> QED
    BY <2>1, <2>2, <2>3 DEF Rung
<1>5. RungsTo(s, k + 1) = RungsTo(s, k) + IF s[k + 1].kind = "report" THEN 1 ELSE 0
  BY <1>1, RungsNext
<1>6. Rungs(p) = RungsTo(s, k)
  BY <1>1, <1>2, <1>3 DEF Rungs
<1>7. RungsTo(s, k) \in Nat
  BY <1>1, RungsType
<1> QED
  BY <1>1, <1>2, <1>4, <1>5, <1>6, <1>7 DEF Rungs

\* Pushing a frame that may stand where it is put keeps the ladder.
LEMMA PushFacts ==
  ASSUME NEW s \in Seq(Frame), NEW f \in Frame, NEW m, Ladder(s, m),
         IF Len(s) = 0 THEN OnHost(f) ELSE OnFrame(s[Len(s)], f),
         ~SetDuringReport /\ f.kind = "report" => f.saved = Ceiling(m, Rungs(s))
  PROVE  /\ Append(s, f) \in Seq(Frame)
         /\ Len(Append(s, f)) = Len(s) + 1
         /\ Append(s, f)[Len(s) + 1] = f
         /\ \A i \in 1 .. Len(s) : Append(s, f)[i] = s[i]
         /\ Ladder(Append(s, f), m)
         /\ Rungs(Append(s, f)) = Rungs(s) + IF f.kind = "report" THEN 1 ELSE 0
<1> DEFINE p == Append(s, f)
           k == Len(s)
<1>1. k \in Nat
  OBVIOUS
<1>2. /\ p \in Seq(Frame) /\ Len(p) = k + 1 /\ p[k + 1] = f
      /\ \A i \in 1 .. k : p[i] = s[i]
  OBVIOUS
<1> HIDE DEF p
<1>3. \A j \in 0 .. k : RungsTo(p, j) = RungsTo(s, j)
  BY <1>1, <1>2, RungsSame
<1>4. Ladder(p, m)
  <2> SUFFICES ASSUME NEW i \in 1 .. k + 1 PROVE Rung(p, i, m)
    BY <1>2 DEF Ladder
  <2>1. CASE i \in 1 .. k
    <3>1. Rung(s, i, m)
      BY <2>1 DEF Ladder
    <3>2. p[i] = s[i] /\ (i # 1 => p[i - 1] = s[i - 1]) /\ i - 1 \in 0 .. k
      BY <1>1, <1>2, <2>1
    <3>3. RungsTo(p, i - 1) = RungsTo(s, i - 1)
      BY <3>2, <1>3
    <3> QED
      BY <3>1, <3>2, <3>3 DEF Rung
  <2>2. CASE i = k + 1
    <3>1. p[i] = f /\ (i # 1 => p[i - 1] = s[k]) /\ (i = 1 <=> k = 0) /\ i - 1 = k
      BY <1>1, <1>2, <2>2
    <3>2. RungsTo(p, i - 1) = Rungs(s)
      BY <1>1, <1>3, <3>1 DEF Rungs
    <3> QED
      BY <3>1, <3>2 DEF Rung
  <2> QED
    BY <1>1, <2>1, <2>2
<1>5. RungsTo(p, k + 1) = RungsTo(p, k) + IF p[k + 1].kind = "report" THEN 1 ELSE 0
  BY <1>1, RungsNext
<1>6. RungsTo(p, k) = Rungs(s)
  BY <1>1, <1>3 DEF Rungs
<1>7. Rungs(p) = Rungs(s) + IF f.kind = "report" THEN 1 ELSE 0
  BY <1>2, <1>5, <1>6 DEF Rungs
<1> QED
  BY <1>2, <1>4, <1>7 DEF p

-----------------------------------------------------------------------------
(* Leaving the interpreter *)

\* The frame every other is made from.
LEMMA BlankFacts ==
  /\ Blank \in Frame
  /\ \A k \in Kinds : [Blank EXCEPT !.kind = k] \in Frame
  /\ \A p \in Purposes : FlushFor(p) \in Frame
<1>1. 0 \in Size /\ "script" \in Kinds /\ "flush" \in Kinds /\ "tail" \in Purposes
  BY LedgerAssumption DEF Size, Kinds, Purposes
<1>2. Blank \in Frame
  BY <1>1 DEF Blank, Frame
<1>3. ASSUME NEW k \in Kinds PROVE [Blank EXCEPT !.kind = k] \in Frame
  BY <1>2 DEF Frame
<1>4. ASSUME NEW p \in Purposes PROVE FlushFor(p) \in Frame
  BY <1>1, <1>2 DEF Frame, FlushFor
<1> QED
  BY <1>2, <1>3, <1>4

\* A return to the host leaves the ledger alone and the ladder standing.
LEMMA ToHostGood ==
  ASSUME NEW stk, NEW led, NEW m \in Size, Good(stk, led, m), Len(stk) > 0,
         stk[Len(stk)].kind # "report", ToHost(stk, led)
  PROVE  /\ Good(stack', alloc', m) /\ alloc' = led /\ pending' = FALSE
         /\ charges' = charges /\ buffered' = buffered
<1> DEFINE rest == Popped(stk)
           sweep == [Blank EXCEPT !.kind = "sweep"]
<1>1. stk \in Seq(Frame) /\ Ladder(stk, m)
  BY DEF Good
<1>2. /\ rest \in Seq(Frame) /\ Ladder(rest, m)
      /\ Rungs(rest) \in Nat /\ Rungs(stk) = Rungs(rest)
  BY <1>1, PopFacts
<1>3. sweep \in Frame /\ sweep.kind = "sweep"
  BY BlankFacts DEF Kinds, Blank
<1>4. /\ stack' = Append(rest, sweep) \/ stack' = rest
      /\ alloc' = led /\ pending' = FALSE
      /\ charges' = charges /\ buffered' = buffered
  BY DEF ToHost
<1> HIDE DEF rest, sweep
<1>5. OnHost(sweep) /\ OnFrame(rest[Len(rest)], sweep)
  BY <1>3 DEF OnHost, OnFrame
<1>6. /\ Append(rest, sweep) \in Seq(Frame) /\ Ladder(Append(rest, sweep), m)
      /\ Rungs(Append(rest, sweep)) = Rungs(rest)
  BY <1>2, <1>3, <1>5, PushFacts
<1>7. /\ stack' \in Seq(Frame) /\ Ladder(stack', m) /\ Rungs(stack') = Rungs(stk)
  BY <1>2, <1>4, <1>6
<1> QED
  BY <1>4, <1>7 DEF Good

\* A report that ends puts back the ceiling the reports beneath it earned.
LEMMA ReportEndsGood ==
  ASSUME NEW stk, NEW led, NEW m \in Size, Good(stk, led, m), Len(stk) > 0,
         stk[Len(stk)].kind = "report",
         ToHost(Popped(stk), Restored(led, stk[Len(stk)].saved))
  PROVE  /\ Good(stack', alloc', m) /\ Live(alloc') = Live(led)
         /\ pending' \in BOOLEAN
         /\ charges' = charges /\ buffered' = buffered
<1> DEFINE n == Len(stk)
           rest == Popped(stk)
           saved == stk[n].saved
           back == Restored(led, saved)
<1>1. /\ stk \in Seq(Frame) /\ Ladder(stk, m) /\ n \in Nat /\ n > 0
      /\ led \in Ledgers /\ Synced(led)
      /\ ~SetDuringReport => led.limit = Ceiling(m, Rungs(stk))
  BY DEF Good
<1>2. /\ rest \in Seq(Frame) /\ Len(rest) = n - 1 /\ Ladder(rest, m)
      /\ \A i \in 1 .. n - 1 : rest[i] = stk[i]
      /\ Rungs(rest) = RungsTo(stk, n - 1)
      /\ Rungs(rest) \in Nat
      /\ Rungs(stk) = Rungs(rest) + 1
  BY <1>1, PopFacts
<1>3. Rung(stk, n, m)
  BY <1>1 DEF Ladder
<1>4. n # 1 /\ stk[n - 1].kind = "script"
  BY <1>3 DEF Rung, OnHost, OnFrame
<1>5. saved \in Size
  <2>1. stk[n] \in Frame
    BY <1>1
  <2> QED
    BY <2>1 DEF Frame
<1>6. ~SetDuringReport => saved = Ceiling(m, Rungs(rest))
  BY <1>2, <1>3 DEF Rung
<1>7. /\ back \in Ledgers /\ Synced(back) /\ Live(back) = Live(led)
      /\ back.limit = IF saved = 0 THEN led.limit ELSE saved
  BY <1>1, <1>5, RestoredFacts
<1>8. ASSUME ~SetDuringReport PROVE back.limit = Ceiling(m, Rungs(rest))
  <2>1. CASE saved = 0
    <3>1. m = 0
      BY <2>1, <1>8, <1>6, <1>2, CeilingFacts
    <3> QED
      BY <3>1, <2>1, <1>8, <1>1, <1>6, <1>7 DEF Ceiling
  <2>2. CASE saved # 0
    BY <2>2, <1>8, <1>6, <1>7
  <2> QED
    BY <2>1, <2>2
<1> HIDE DEF back, rest, n, saved
<1>9. Good(rest, back, m)
  BY <1>2, <1>7, <1>8 DEF Good
<1>10. Len(rest) > 0 /\ rest[Len(rest)].kind # "report"
  BY <1>1, <1>2, <1>4
<1>11. ToHost(rest, back)
  BY DEF back, rest, n, saved
<1> QED
  BY <1>7, <1>9, <1>10, <1>11, ToHostGood

\* So does an error, wherever it is raised and whoever takes it.
LEMMA RaiseGood ==
  ASSUME NEW stk, NEW led, NEW m \in Size, NEW pend \in BOOLEAN, NEW fatal,
         Good(stk, led, m), Len(stk) > 0, Raise(stk, led, pend, fatal)
  PROVE  /\ Good(stack', alloc', m) /\ Live(alloc') = Live(led)
         /\ pending' \in BOOLEAN
         /\ charges' = charges /\ buffered' = buffered
<1> DEFINE n == Len(stk)
           rest == Popped(stk)
           report == [Blank EXCEPT !.kind = "report", !.saved = led.limit]
<1>1. /\ stk \in Seq(Frame) /\ Ladder(stk, m) /\ n \in Nat /\ n > 0
      /\ led \in Ledgers /\ Synced(led) /\ led.limit \in Size
      /\ ~SetDuringReport => led.limit = Ceiling(m, Rungs(stk))
  BY DEF Good, Ledgers
<1>2. /\ rest \in Seq(Frame) /\ Len(rest) = n - 1 /\ Ladder(rest, m)
      /\ \A i \in 1 .. n - 1 : rest[i] = stk[i]
      /\ Rungs(stk) = Rungs(rest) + IF stk[n].kind = "report" THEN 1 ELSE 0
      /\ Rungs(rest) = RungsTo(stk, n - 1)
      /\ Rungs(rest) \in Nat
  BY <1>1, PopFacts
<1>3. CASE stack' = stk /\ alloc' = led /\ pending' = pend
           /\ UNCHANGED <<charges, buffered>>
  BY <1>3
<1>4. CASE /\ stk[n].kind = "finaliser"
           /\ stack' = rest /\ alloc' = led /\ pending' = pend
           /\ UNCHANGED <<charges, buffered>>
  <2>1. Rungs(stk) = Rungs(rest)
    BY <1>2, <1>4
  <2> HIDE DEF rest
  <2> QED
    BY <1>1, <1>2, <1>4, <2>1 DEF Good
<1>5. CASE stk[n].kind = "report" /\ ToHost(rest, Restored(led, stk[n].saved))
  BY <1>5, ReportEndsGood
<1>6. CASE /\ stk[n].kind = "script"
           /\ stack' = Append(stk, report) /\ alloc' = Lifted(led)
           /\ pending' = pend /\ UNCHANGED <<charges, buffered>>
  <2>1. report \in Frame /\ report.kind = "report" /\ report.saved = led.limit
    <3>1. Blank \in Frame /\ "report" \in Kinds /\ led.limit \in Size
      BY <1>1, BlankFacts DEF Kinds
    <3> QED
      BY <3>1 DEF Frame
  <2> HIDE DEF report
  <2>2. OnFrame(stk[Len(stk)], report)
    BY <2>1, <1>6 DEF OnFrame
  <2>3. /\ Append(stk, report) \in Seq(Frame) /\ Ladder(Append(stk, report), m)
        /\ Rungs(Append(stk, report)) = Rungs(stk) + 1
    BY <1>1, <2>1, <2>2, PushFacts
  <2>4. Rungs(stk) \in Nat
    BY <1>1, RungsType DEF Rungs
  <2>5. /\ Lifted(led) \in Ledgers /\ Live(Lifted(led)) = Live(led)
        /\ Synced(Lifted(led))
        /\ Lifted(led).limit = IF led.limit = 0 THEN 0
                               ELSE IF led.limit + Headroom > SizeMax THEN SizeMax
                               ELSE led.limit + Headroom
    BY <1>1, LiftedFacts
  <2>6. ASSUME ~SetDuringReport PROVE Lifted(led).limit = Ceiling(m, Rungs(stk) + 1)
    <3> DEFINE k == Rungs(stk)
    <3>1. k \in Nat
      BY <2>4
    <3> HIDE DEF k
    <3>2. Ceiling(m, k + 1) =
            IF Ceiling(m, k) = 0 THEN 0
            ELSE IF Ceiling(m, k) + Headroom > SizeMax THEN SizeMax
            ELSE Ceiling(m, k) + Headroom
      BY <3>1, CeilingFacts
    <3>3. led.limit = Ceiling(m, k)
      BY <2>6, <1>1 DEF k
    <3>4. Lifted(led).limit = Ceiling(m, k + 1)
      BY <2>5, <3>2, <3>3
    <3> QED
      BY <3>4 DEF k
  <2> QED
    BY <1>6, <2>3, <2>5, <2>6 DEF Good
<1> QED
  BY <1>3, <1>4, <1>5, <1>6 DEF Raise

\* Running out of memory is an error too, or skips the report.
LEMMA OutOfMemoryGood ==
  ASSUME NEW stk, NEW led, NEW m \in Size, Good(stk, led, m), Len(stk) > 0,
         pending \in BOOLEAN, OutOfMemory(stk, led)
  PROVE  /\ Good(stack', alloc', m) /\ Live(alloc') = Live(led)
         /\ pending' \in BOOLEAN
         /\ charges' = charges /\ buffered' = buffered
<1>1. CASE Raise(stk, led, pending, TRUE)
  BY <1>1, RaiseGood
<1>2. CASE stk[Len(stk)].kind = "script" /\ ToHost(stk, led)
  BY <1>2, ToHostGood
<1> QED
  BY <1>1, <1>2 DEF OutOfMemory

-----------------------------------------------------------------------------
(* One lemma for each action, or for a few that differ in a name *)

\* What every step preserves, and what it may spend.
Sound ==
  /\ IInv'
  /\ Grows => Live(alloc') <= IF alloc.limit = 0 THEN SizeMax ELSE alloc.limit
  /\ Grows /\ Gc = "on" => AtTier(alloc')

LEMMA GcIs == Gc \in Collector
BY DEF Gc, Collector

\* A step that spends nothing has only the ladder to answer for.
LEMMA QuietSound ==
  ASSUME IInv, Typed', Good(stack', alloc', policy'.memory),
         Live(alloc') <= Live(alloc)
  PROVE  Sound
<1>1. Live(alloc) \in Int /\ Live(alloc') \in Int
  BY DEF IInv, Good, Ledgers, Live
<1>2. ~Grows
  BY <1>1 DEF Grows
<1> QED
  BY <1>2 DEF Sound, IInv

\* A frame that is not a report, pushed where it may stand or popped.
LEMMA PushGood ==
  ASSUME NEW s, NEW led, NEW m, Good(s, led, m), NEW f \in Frame, f.kind # "report",
         IF Len(s) = 0 THEN OnHost(f) ELSE OnFrame(s[Len(s)], f)
  PROVE  Good(Append(s, f), led, m)
<1>1. s \in Seq(Frame) /\ Ladder(s, m)
  BY DEF Good
<1>2. /\ Append(s, f) \in Seq(Frame) /\ Ladder(Append(s, f), m)
      /\ Rungs(Append(s, f)) = Rungs(s) + 0
  BY <1>1, PushFacts
<1>3. Rungs(s) \in Nat
  BY <1>1, RungsType DEF Rungs
<1> QED
  BY <1>2, <1>3 DEF Good

LEMMA PopGood ==
  ASSUME NEW s, NEW led, NEW m, Good(s, led, m), Len(s) > 0, s[Len(s)].kind # "report"
  PROVE  /\ Good(Popped(s), led, m) /\ Len(Popped(s)) = Len(s) - 1
         /\ \A i \in 1 .. Len(s) - 1 : Popped(s)[i] = s[i]
<1>1. s \in Seq(Frame) /\ Ladder(s, m)
  BY DEF Good
<1>2. /\ Popped(s) \in Seq(Frame) /\ Ladder(Popped(s), m)
      /\ Rungs(s) = Rungs(Popped(s)) + 0 /\ Rungs(Popped(s)) \in Nat
  BY <1>1, PopFacts
<1>3. /\ Len(Popped(s)) = Len(s) - 1
      /\ \A i \in 1 .. Len(s) - 1 : Popped(s)[i] = s[i]
  BY <1>1, PopFacts
<1> QED
  BY <1>2, <1>3 DEF Good

\* What a frame on the stack stands on.
LEMMA StandsOn ==
  ASSUME NEW s, NEW led, NEW m, Good(s, led, m), NEW i \in 1 .. Len(s)
  PROVE  /\ s[i] \in Frame
         /\ IF i = 1 THEN OnHost(s[i]) ELSE OnFrame(s[i - 1], s[i])
BY DEF Good, Ladder, Rung

\* A frame the host or the interpreter pushes may stand on anything.
Free(f) ==
  \/ f.kind \in {"script", "finaliser", "sweep"}
  \/ f.kind = "flush" /\ f.purpose = "get"

LEMMA FreePush ==
  ASSUME NEW s, NEW led, NEW m, Good(s, led, m), NEW f \in Frame, Free(f)
  PROVE  Good(Append(s, f), led, m)
<1>1. OnHost(f) /\ (\A below : OnFrame(below, f)) /\ f.kind # "report"
  BY DEF Free, OnHost, OnFrame
<1> QED
  BY <1>1, PushGood

LEMMA FramesSound ==
  ASSUME IInv,
         Enter \/ GetOutput \/ Finalise \/ FinaliserReturn \/ SweepDone \/ EmitReturn
  PROVE  Sound
<1>1. Good(stack, alloc, policy.memory) /\ stack \in Seq(Frame)
  BY DEF IInv, Good
<1>2. UNCHANGED <<alloc, blocks, charges, buffered, out, policy, pending, closed, heard>>
  BY DEF Enter, GetOutput, Finalise, FinaliserReturn, SweepDone, EmitReturn
<1>3. Typed'
  BY <1>2 DEF IInv, Typed
<1>4. Live(alloc') <= Live(alloc)
  BY <1>1, <1>2 DEF Good, Ledgers, Live
<1>6. CASE Enter
  <2>1. Blank \in Frame /\ stack' = Append(stack, Blank) /\ Free(Blank)
    BY <1>6, BlankFacts DEF Enter, Push, Free, Blank
  <2>2. Good(stack', alloc', policy'.memory)
    BY <1>1, <1>2, <2>1, FreePush
  <2> QED
    BY <2>2, <1>3, <1>4, QuietSound
<1>7. CASE GetOutput
  <2> DEFINE f == [Blank EXCEPT !.kind = "flush", !.purpose = "get"]
  <2>1. f \in Frame
    BY BlankFacts DEF FlushFor, Purposes
  <2>2. stack' = Append(stack, f) /\ Free(f)
    BY <1>7 DEF GetOutput, Push, Free, Blank
  <2> HIDE DEF f
  <2>3. Good(stack', alloc', policy'.memory)
    BY <1>1, <1>2, <2>1, <2>2, FreePush
  <2> QED
    BY <2>3, <1>3, <1>4, QuietSound
<1>8. CASE Finalise
  <2> DEFINE f == [Blank EXCEPT !.kind = "finaliser"]
  <2>1. f \in Frame
    BY BlankFacts DEF Kinds
  <2>2. stack' = Append(stack, f) /\ Free(f)
    BY <1>8 DEF Finalise, Push, Free, Blank
  <2> HIDE DEF f
  <2>3. Good(stack', alloc', policy'.memory)
    BY <1>1, <1>2, <2>1, <2>2, FreePush
  <2> QED
    BY <2>3, <1>3, <1>4, QuietSound
<1>9. CASE FinaliserReturn \/ SweepDone \/ EmitReturn
  <2>1. /\ stack' = Popped(stack) /\ Len(stack) > 0
        /\ stack[Len(stack)].kind # "report"
    BY <1>9 DEF FinaliserReturn, SweepDone, EmitReturn, TopIs, Top, Depth
  <2>2. Good(Popped(stack), alloc, policy.memory)
    BY <1>1, <2>1, PopGood
  <2>3. Good(stack', alloc', policy'.memory)
    BY <2>1, <2>2, <1>2
  <2> QED
    BY <2>3, <1>3, <1>4, QuietSound
<1> QED
  BY <1>6, <1>7, <1>8, <1>9

LEMMA CloseSound ==
  ASSUME IInv, Close
  PROVE  Sound
<1> DEFINE f == [Blank EXCEPT !.kind = "flush", !.purpose = "close"]
<1>1. Good(stack, alloc, policy.memory)
  BY DEF IInv
<1>2. f \in Frame
  BY BlankFacts DEF FlushFor, Purposes
<1>3. OnHost(f) /\ f.kind # "report"
  BY DEF OnHost, Blank
<1>4. /\ stack = <<>> /\ stack' = <<f>> /\ closed' = TRUE
      /\ UNCHANGED <<alloc, blocks, charges, buffered, out, policy, pending, heard>>
  BY DEF Close
<1> HIDE DEF f
<1>5. stack' = Append(stack, f) /\ Len(stack) = 0
  BY <1>4
<1>6. Good(Append(stack, f), alloc, policy.memory)
  BY <1>1, <1>2, <1>3, <1>5, PushGood
<1>7. Good(stack', alloc', policy'.memory)
  BY <1>4, <1>5, <1>6
<1>8. Typed'
  BY <1>4 DEF IInv, Typed
<1>9. Live(alloc') <= Live(alloc)
  BY <1>1, <1>4 DEF Good, Ledgers, Live
<1> QED
  BY <1>7, <1>8, <1>9, QuietSound

\* The only step that moves the host's limit; outside a report nothing on the
\* stack remembers the old one.
LEMMA SetLimitsSound ==
  ASSUME IInv, SetLimits
  PROVE  Sound
<1>1. PICK m \in MemoryLimits, o \in OutputLimits, f \in Overflows :
        /\ policy' = [memory |-> m, overflow |-> f]
        /\ alloc' = Limited(alloc, m, Gc)
        /\ out' = [out EXCEPT !.limit = o]
  BY DEF SetLimits
<1>2. /\ UNCHANGED <<blocks, charges, buffered, stack, pending, closed, heard>>
      /\ ~SetDuringReport => ~Reporting
  BY DEF SetLimits
<1>3. m \in Size /\ o \in Nat /\ f \in AllOverflows /\ policy'.memory = m
  BY <1>1, MemoryAssumption
<1>4. Typed'
  <2>1. out' \in OutputSink
    BY <1>1, <1>3 DEF IInv, Typed, OutputSink
  <2>2. policy' \in [memory : Size, overflow : AllOverflows]
    BY <1>1, <1>3
  <2> QED
    BY <2>1, <2>2, <1>2 DEF IInv, Typed
<1>5. /\ stack \in Seq(Frame) /\ Ladder(stack, policy.memory)
      /\ alloc \in Ledgers /\ Synced(alloc)
  BY DEF IInv, Good
<1>6. /\ alloc' \in Ledgers /\ Synced(alloc') /\ alloc'.limit = m
      /\ Live(alloc') = Live(alloc)
  BY <1>1, <1>3, <1>5, GcIs, LimitedFacts
<1>7. Ladder(stack, m)
  <2> SUFFICES ASSUME NEW i \in 1 .. Len(stack) PROVE Rung(stack, i, m)
    BY DEF Ladder
  <2>1. Rung(stack, i, policy.memory)
    BY <1>5 DEF Ladder
  <2>2. ~SetDuringReport => stack[i].kind # "report"
    BY <1>2 DEF Reporting, Depth
  <2> QED
    BY <2>1, <2>2 DEF Rung
<1>8. ASSUME ~SetDuringReport PROVE m = Ceiling(m, Rungs(stack))
  <2>1. {i \in 1 .. Len(stack) : stack[i].kind = "report"} = {}
    BY <1>2, <1>8 DEF Reporting, Depth
  <2>2. Rungs(stack) = 0
    BY <2>1, FS_EmptySet DEF Rungs, RungsTo
  <2> QED
    BY <2>2, <1>3, CeilingFacts
<1>9. Good(stack', alloc', policy'.memory)
  BY <1>2, <1>3, <1>5, <1>6, <1>7, <1>8 DEF Good
<1>10. Live(alloc') <= Live(alloc)
  BY <1>5, <1>6 DEF Ledgers, Live
<1> QED
  BY <1>4, <1>9, <1>10, QuietSound

\* A ledger that differs in its bytes stands on the same ladder.
LEMMA LedgerGood ==
  ASSUME NEW s, NEW led, NEW m, Good(s, led, m),
         NEW new \in Ledgers, Synced(new), new.limit = led.limit
  PROVE  Good(s, new, m)
BY DEF Good

\* A step that spends within the ceiling, and tells the collector.
LEMMA SpendSound ==
  ASSUME IInv, Typed', Good(stack', alloc', policy'.memory),
         Live(alloc') <= IF alloc.limit = 0 THEN SizeMax ELSE alloc.limit,
         Gc = "on" => AtTier(alloc')
  PROVE  Sound
BY DEF Sound, IInv

\* A step that ends in an error, having given back what it took.
LEMMA RaiseSound ==
  ASSUME IInv, NEW stk, NEW led, NEW pend \in BOOLEAN, NEW fatal,
         Good(stk, led, policy.memory), Len(stk) > 0, Live(led) <= Live(alloc),
         Raise(stk, led, pend, fatal),
         blocks' \in [Blocks -> Nat], out' \in OutputSink, UNCHANGED <<policy, closed>>
  PROVE  Sound
<1>1. policy.memory \in Size
  BY DEF IInv, Typed
<1>2. /\ Good(stack', alloc', policy.memory) /\ Live(alloc') = Live(led)
      /\ pending' \in BOOLEAN /\ charges' = charges /\ buffered' = buffered
  BY <1>1, RaiseGood
<1>3. Typed'
  BY <1>2 DEF IInv, Typed
<1> QED
  BY <1>2, <1>3, QuietSound

LEMMA OutOfMemorySound ==
  ASSUME IInv, NEW stk, NEW led,
         Good(stk, led, policy.memory), Len(stk) > 0, Live(led) <= Live(alloc),
         OutOfMemory(stk, led),
         blocks' \in [Blocks -> Nat], out' \in OutputSink, UNCHANGED <<policy, closed>>
  PROVE  Sound
<1>1. policy.memory \in Size /\ pending \in BOOLEAN
  BY DEF IInv, Typed
<1>2. /\ Good(stack', alloc', policy.memory) /\ Live(alloc') = Live(led)
      /\ pending' \in BOOLEAN /\ charges' = charges /\ buffered' = buffered
  BY <1>1, OutOfMemoryGood
<1>3. Typed'
  BY <1>2 DEF IInv, Typed
<1> QED
  BY <1>2, <1>3, QuietSound

\* A host call, or a write, always has the script beneath it.
LEMMA ScriptBeneath ==
  ASSUME NEW s, NEW led, NEW m, Good(s, led, m), Len(s) > 0,
         s[Len(s)].kind \in {"call", "write"}
  PROVE  /\ Good(Popped(s), led, m) /\ Len(Popped(s)) > 0
         /\ Popped(s)[Len(Popped(s))].kind \in LuaKinds
<1>1. s \in Seq(Frame) /\ Len(s) \in 1 .. Len(s)
  BY DEF Good
<1>2. Len(s) # 1
  BY <1>1, StandsOn DEF OnHost
<1>3. s[Len(s) - 1].kind \in LuaKinds
  BY <1>1, <1>2, StandsOn DEF OnFrame
<1>4. /\ Good(Popped(s), led, m) /\ Len(Popped(s)) = Len(s) - 1
      /\ \A i \in 1 .. Len(s) - 1 : Popped(s)[i] = s[i]
  BY PopGood
<1> QED
  BY <1>1, <1>2, <1>3, <1>4

\* luaext_phpcall_release gives back the content, then the array.
LEMMA SettledFacts ==
  ASSUME NEW led \in Ledgers, NEW call \in Frame, Synced(led)
  PROVE  /\ Settled(led, call) \in Ledgers /\ Synced(Settled(led, call))
         /\ Settled(led, call).limit = led.limit
         /\ Live(Settled(led, call)) <= Live(led)
         /\ call.params + call.content <= led.charged =>
              Live(Settled(led, call)) = Live(led) - call.params - call.content
         /\ Gc = "on" => AtTier(Settled(led, call))
<1> DEFINE p == call.params
           c == call.content
           mid == IF c > 0 THEN Discharged(led, c, Gc) ELSE led
<1>1. p \in Nat /\ c \in Nat /\ led.usage \in Int /\ led.charged \in Nat
  BY DEF Frame, Ledgers
<1>2. Settled(led, call) = Discharged(mid, p, Gc)
  BY DEF Settled
<1> HIDE DEF p, c
<1>3. /\ mid \in Ledgers /\ mid.usage = led.usage /\ mid.charged <= led.charged
      /\ c <= led.charged => mid.charged = led.charged - c
      /\ mid.limit = led.limit /\ Synced(mid)
  <2>1. CASE c > 0
    BY <2>1, <1>1, GcIs, DischargedFacts
  <2>2. CASE ~(c > 0)
    BY <2>2, <1>1
  <2> QED
    BY <2>1, <2>2
<1> HIDE DEF mid
<1>4. /\ Discharged(mid, p, Gc) \in Ledgers
      /\ Discharged(mid, p, Gc).usage = mid.usage
      /\ Discharged(mid, p, Gc).charged <= mid.charged
      /\ p <= mid.charged => Discharged(mid, p, Gc).charged = mid.charged - p
      /\ Discharged(mid, p, Gc).limit = mid.limit
      /\ Synced(Discharged(mid, p, Gc))
      /\ Gc = "on" => AtTier(Discharged(mid, p, Gc))
  BY <1>1, <1>3, GcIs, DischargedFacts
<1>5. mid.charged \in Nat /\ Discharged(mid, p, Gc).charged \in Nat
  BY <1>3, <1>4 DEF Ledgers
<1>6. Live(Discharged(mid, p, Gc)) <= Live(led)
  BY <1>1, <1>3, <1>4, <1>5 DEF Live
<1>7. ASSUME p + c <= led.charged
      PROVE  Live(Discharged(mid, p, Gc)) = Live(led) - p - c
  BY <1>1, <1>3, <1>4, <1>5, <1>7 DEF Live
<1> QED
  BY <1>2, <1>3, <1>4, <1>6, <1>7 DEF p, c

LEMMA TakeOutputSound ==
  ASSUME IInv, TakeOutput
  PROVE  Sound
<1>1. /\ alloc' = Discharged(alloc, out.cap, Gc)
      /\ out' = [out EXCEPT !.buf = <<>>, !.cap = 0, !.written = 0]
      /\ UNCHANGED <<blocks, charges, buffered, policy, stack, pending, closed>>
  BY DEF TakeOutput
<1>2. out \in OutputSink /\ out.cap \in Nat
  BY DEF IInv, Typed, OutputSink
<1>3. out' \in OutputSink
  <2>1. out' = [out EXCEPT !.buf = <<>>, !.cap = 0, !.written = 0]
    BY <1>1
  <2>2. <<>> \in Seq(Byte)
    OBVIOUS
  <2> QED
    BY <2>1, <2>2, <1>2 DEF OutputSink
<1>4. Good(stack, alloc, policy.memory) /\ alloc \in Ledgers /\ Synced(alloc)
  BY DEF IInv, Good
<1>5. /\ alloc' \in Ledgers /\ Synced(alloc') /\ alloc'.limit = alloc.limit
      /\ alloc'.usage = alloc.usage /\ alloc'.charged <= alloc.charged
  BY <1>1, <1>2, <1>4, GcIs, DischargedFacts
<1>6. Good(stack', alloc', policy'.memory)
  BY <1>1, <1>4, <1>5, LedgerGood
<1>7. Live(alloc') <= Live(alloc)
  BY <1>4, <1>5 DEF Ledgers, Live
<1>8. Typed'
  BY <1>1, <1>3 DEF IInv, Typed
<1> QED
  BY <1>6, <1>7, <1>8, QuietSound

LEMMA FailSound ==
  ASSUME IInv, Fail \/ Return \/ ReportReturn
  PROVE  Sound
<1>1. /\ Good(stack, alloc, policy.memory) /\ Len(stack) \in Nat
      /\ policy.memory \in Size /\ pending \in BOOLEAN
      /\ blocks \in [Blocks -> Nat] /\ out \in OutputSink
  BY DEF IInv, Good, Typed
<1>2. UNCHANGED <<blocks, out, policy, closed>>
  BY DEF Fail, Return, ReportReturn
<1>3. Live(alloc) \in Int
  BY <1>1 DEF Good, Ledgers, Live
<1>4. CASE Fail
  <2>1. Len(stack) > 0 /\ Raise(stack, alloc, pending, FALSE)
    BY <1>4 DEF Fail, InLua, TopIs, Depth
  <2>2. /\ Live(alloc) <= Live(alloc) /\ UNCHANGED <<policy, closed>>
        /\ blocks' \in [Blocks -> Nat] /\ out' \in OutputSink
    BY <1>1, <1>2, <1>3
  <2> QED
    BY <2>1, <2>2, <1>1, RaiseSound, Zenon
<1>5. CASE Return
  <2>1. Len(stack) > 0 /\ stack[Len(stack)].kind # "report" /\ ToHost(stack, alloc)
    BY <1>5 DEF Return, TopIs, Top, Depth
  <2>2. /\ Good(stack', alloc', policy.memory) /\ alloc' = alloc /\ pending' = FALSE
        /\ charges' = charges /\ buffered' = buffered
    BY <2>1, <1>1, ToHostGood
  <2>3. Typed'
    BY <2>2, <1>2 DEF IInv, Typed
  <2> QED
    BY <2>2, <2>3, <1>2, <1>3, QuietSound
<1>6. CASE ReportReturn
  <2>1. /\ Len(stack) > 0 /\ stack[Len(stack)].kind = "report"
        /\ ToHost(Popped(stack), Restored(alloc, stack[Len(stack)].saved))
    BY <1>6 DEF ReportReturn, TopIs, Top, Depth
  <2>2. /\ Good(stack', alloc', policy.memory) /\ Live(alloc') = Live(alloc)
        /\ pending' \in BOOLEAN /\ charges' = charges /\ buffered' = buffered
    BY <2>1, <1>1, ReportEndsGood
  <2>3. Typed'
    BY <2>2, <1>2 DEF IInv, Typed
  <2> QED
    BY <2>2, <2>3, <1>2, <1>3, QuietSound
<1> QED
  BY <1>4, <1>5, <1>6

LEMMA GrowSound ==
  ASSUME IInv, Grow
  PROVE  Sound
<1>1. PICK b \in Blocks, bytes \in 1 .. MaxBlock :
        \/ /\ Fits(alloc, bytes)
           /\ blocks' = [blocks EXCEPT ![b] = @ + bytes]
           /\ alloc' = Grown(alloc, bytes, Gc)
           /\ UNCHANGED <<charges, buffered, stack, pending>>
        \/ OutOfMemory(stack, alloc) /\ UNCHANGED blocks
  BY DEF Grow
<1>2. /\ UNCHANGED <<out, policy, closed, heard>>
      /\ Len(stack) > 0
  BY DEF Grow, InLua, TopIs, Depth
<1>3. /\ Good(stack, alloc, policy.memory) /\ alloc \in Ledgers /\ Synced(alloc)
      /\ blocks \in [Blocks -> Nat] /\ out \in OutputSink
      /\ bytes \in Nat
  BY MemoryAssumption DEF IInv, Good, Typed
<1>4. CASE /\ Fits(alloc, bytes)
           /\ blocks' = [blocks EXCEPT ![b] = @ + bytes]
           /\ alloc' = Grown(alloc, bytes, Gc)
           /\ UNCHANGED <<charges, buffered, stack, pending>>
  <2>1. /\ alloc' \in Ledgers /\ Synced(alloc') /\ alloc'.limit = alloc.limit
        /\ alloc'.usage = alloc.usage + bytes /\ alloc'.charged = alloc.charged
        /\ Gc = "on" => AtTier(alloc')
    BY <1>3, <1>4, GcIs, GrownFacts
  <2>2. Good(stack', alloc', policy'.memory)
    BY <2>1, <1>2, <1>3, <1>4, LedgerGood
  <2>3. Live(alloc') = Live(alloc) + bytes
    BY <2>1, <1>3 DEF Live, Ledgers
  <2>4. Live(alloc') <= IF alloc.limit = 0 THEN SizeMax ELSE alloc.limit
    BY <2>3, <1>3, <1>4, FitsFacts
  <2>5. blocks' \in [Blocks -> Nat]
    <3>1. blocks' = [blocks EXCEPT ![b] = blocks[b] + bytes]
      BY <1>4
    <3> QED
      BY <3>1, <1>3
  <2>6. Typed'
    BY <2>5, <1>2, <1>4 DEF IInv, Typed
  <2> QED
    BY <2>1, <2>2, <2>4, <2>6, SpendSound
<1>5. CASE OutOfMemory(stack, alloc) /\ UNCHANGED blocks
  <2>1. /\ Live(alloc) <= Live(alloc) /\ UNCHANGED <<policy, closed>>
        /\ blocks' \in [Blocks -> Nat] /\ out' \in OutputSink
    BY <1>2, <1>3, <1>5 DEF Live, Ledgers
  <2> QED
    BY <2>1, <1>2, <1>3, <1>5, OutOfMemorySound
<1> QED
  BY <1>1, <1>4, <1>5

LEMMA ShrinkSound ==
  ASSUME IInv, Shrink
  PROVE  Sound
<1>1. PICK b \in Blocks : \E left \in 0 .. blocks[b] - 1 :
        /\ blocks' = [blocks EXCEPT ![b] = left]
        /\ alloc' = Shrunk(alloc, blocks[b] - left)
  BY DEF Shrink
<1>2. PICK left \in 0 .. blocks[b] - 1 :
        /\ blocks' = [blocks EXCEPT ![b] = left]
        /\ alloc' = Shrunk(alloc, blocks[b] - left)
  BY <1>1
<1>3. UNCHANGED <<charges, buffered, out, policy, stack, pending, closed, heard>>
  BY DEF Shrink
<1>4. /\ Good(stack, alloc, policy.memory) /\ alloc \in Ledgers /\ Synced(alloc)
      /\ blocks \in [Blocks -> Nat]
  BY DEF IInv, Good, Typed
<1> DEFINE freed == blocks[b] - left
<1>5. left \in Nat /\ freed \in Nat
  BY <1>4
<1>10. alloc' = Shrunk(alloc, freed)
  BY <1>2
<1> HIDE DEF freed
<1>6. /\ alloc' \in Ledgers /\ Synced(alloc') /\ alloc'.limit = alloc.limit
      /\ alloc'.usage = alloc.usage - freed /\ alloc'.charged = alloc.charged
  <2>1. /\ Shrunk(alloc, freed) \in Ledgers
        /\ Synced(alloc) => Synced(Shrunk(alloc, freed))
        /\ Shrunk(alloc, freed).usage = alloc.usage - freed
        /\ Shrunk(alloc, freed).charged = alloc.charged
        /\ Shrunk(alloc, freed).limit = alloc.limit
    <3>1. freed \in Int
      BY <1>5
    <3> QED
      BY <3>1, <1>4, ShrunkFacts
  <2> QED
    BY <2>1, <1>10, <1>4
<1>7. Good(stack', alloc', policy'.memory)
  BY <1>3, <1>4, <1>6, LedgerGood
<1>8. Live(alloc') <= Live(alloc)
  BY <1>4, <1>5, <1>6 DEF Live, Ledgers
<1>9. Typed'
  <2>1. blocks' \in [Blocks -> Nat]
    BY <1>2, <1>4, <1>5
  <2> QED
    BY <2>1, <1>3 DEF IInv, Typed
<1> QED
  BY <1>7, <1>8, <1>9, QuietSound

LEMMA BufferFileSound ==
  ASSUME IInv, BufferFile
  PROVE  Sound
<1>1. PICK h \in Handles, bytes \in 1 .. MaxBlock :
       IF (QuotaBytes # 0 /\ bytes > QuotaBytes - buffered) \/ ~Fits(alloc, bytes)
         THEN Raise(stack, alloc, pending, TRUE)
         ELSE /\ charges[h] + bytes <= MaxBlock
              /\ alloc' = Charged(alloc, bytes, Gc)
              /\ charges' = [charges EXCEPT ![h] = @ + bytes]
              /\ buffered' = buffered + bytes
              /\ UNCHANGED <<stack, pending>>
  BY DEF BufferFile
<1>2. /\ UNCHANGED <<blocks, out, policy, closed, heard>>
      /\ Len(stack) > 0
  BY DEF BufferFile, InLua, TopIs, Depth
<1>3. /\ Good(stack, alloc, policy.memory) /\ alloc \in Ledgers /\ Synced(alloc)
      /\ blocks \in [Blocks -> Nat] /\ out \in OutputSink
      /\ charges \in [Handles -> Nat] /\ buffered \in Nat /\ pending \in BOOLEAN
      /\ bytes \in Nat /\ bytes # 0
  BY MemoryAssumption DEF IInv, Good, Typed
<1>4. CASE Raise(stack, alloc, pending, TRUE)
  <2>1. /\ Live(alloc) <= Live(alloc) /\ UNCHANGED <<policy, closed>>
        /\ blocks' \in [Blocks -> Nat] /\ out' \in OutputSink
    BY <1>2, <1>3 DEF Live, Ledgers
  <2> QED
    BY <2>1, <1>2, <1>3, <1>4, RaiseSound, Zenon
<1>5. CASE /\ Fits(alloc, bytes)
           /\ alloc' = Charged(alloc, bytes, Gc)
           /\ charges' = [charges EXCEPT ![h] = @ + bytes]
           /\ buffered' = buffered + bytes
           /\ UNCHANGED <<stack, pending>>
  <2>1. /\ alloc' \in Ledgers /\ Synced(alloc') /\ alloc'.limit = alloc.limit
        /\ alloc'.usage = alloc.usage /\ alloc'.charged = alloc.charged + bytes
        /\ Gc = "on" => AtTier(alloc')
    BY <1>3, <1>5, GcIs, ChargedFacts
  <2>2. Good(stack', alloc', policy'.memory)
    BY <2>1, <1>2, <1>3, <1>5, LedgerGood
  <2>3. Live(alloc') = Live(alloc) + bytes
    BY <2>1, <1>3 DEF Live, Ledgers
  <2>4. Live(alloc') <= IF alloc.limit = 0 THEN SizeMax ELSE alloc.limit
    BY <2>3, <1>3, <1>5, FitsFacts
  <2>5. charges' \in [Handles -> Nat] /\ buffered' \in Nat
    <3>1. charges' = [charges EXCEPT ![h] = charges[h] + bytes]
      BY <1>5
    <3> QED
      BY <3>1, <1>3, <1>5
  <2>6. Typed'
    BY <2>5, <1>2, <1>5 DEF IInv, Typed
  <2> QED
    BY <2>1, <2>2, <2>4, <2>6, SpendSound
<1> QED
  BY <1>1, <1>4, <1>5

LEMMA CloseFileSound ==
  ASSUME IInv, CloseFile
  PROVE  Sound
<1>1. PICK h \in Handles :
        /\ buffered' = buffered - IF charges[h] > buffered THEN buffered ELSE charges[h]
        /\ alloc' = Discharged(alloc, IF charges[h] > buffered THEN buffered
                                                              ELSE charges[h], Gc)
        /\ charges' = [charges EXCEPT ![h] = 0]
  BY DEF CloseFile
<1>2. UNCHANGED <<blocks, out, policy, stack, pending, closed, heard>>
  BY DEF CloseFile
<1>3. /\ Good(stack, alloc, policy.memory) /\ alloc \in Ledgers /\ Synced(alloc)
      /\ charges \in [Handles -> Nat] /\ buffered \in Nat
  BY DEF IInv, Good, Typed
<1> DEFINE held == IF charges[h] > buffered THEN buffered ELSE charges[h]
<1>4. held \in Nat /\ held <= buffered
  BY <1>3
<1>5. alloc' = Discharged(alloc, held, Gc) /\ buffered' = buffered - held
  BY <1>1
<1> HIDE DEF held
<1>6. /\ alloc' \in Ledgers /\ Synced(alloc') /\ alloc'.limit = alloc.limit
      /\ alloc'.usage = alloc.usage /\ alloc'.charged <= alloc.charged
  BY <1>3, <1>4, <1>5, GcIs, DischargedFacts
<1>7. Good(stack', alloc', policy'.memory)
  BY <1>2, <1>3, <1>6, LedgerGood
<1>8. Live(alloc') <= Live(alloc)
  BY <1>3, <1>6 DEF Ledgers, Live
<1>9. Typed'
  <2>1. charges' \in [Handles -> Nat]
    BY <1>1, <1>3
  <2>2. buffered' \in Nat
    BY <1>3, <1>4, <1>5
  <2> QED
    BY <2>1, <2>2, <1>2 DEF IInv, Typed
<1> QED
  BY <1>7, <1>8, <1>9, QuietSound

\* A call that enters host code has billed its arguments within the ceiling;
\* one that is refused on the way has given back every byte it billed.
LEMMA CrossSound ==
  ASSUME IInv, Cross
  PROVE  Sound
<1>1. PICK params \in {0, ArgsBytes}, content \in 0 .. MaxBlock :
       LET billed == Charged(alloc, params, Gc)
           call == [Blank EXCEPT !.kind = "call", !.params = params,
                                 !.content = content]
       IN  \/ /\ pending
              /\ \E fatal \in BOOLEAN : Raise(stack, alloc, FALSE, fatal)
           \/ /\ ~pending /\ params > 0 /\ ~Fits(alloc, params)
              /\ Raise(stack, alloc, FALSE, TRUE)
           \/ /\ ~pending /\ (params > 0 => Fits(alloc, params))
              /\ (content > 0 => Fits(billed, content))
              /\ \E fatal \in BOOLEAN :
                   Raise(stack, Settled(Charged(billed, content, Gc), call),
                         FALSE, fatal)
           \/ /\ ~pending /\ (params > 0 => Fits(alloc, params))
              /\ (content > 0 => Fits(billed, content))
              /\ Depth < MaxFrames
              /\ stack' = Push(call)
              /\ alloc' = Charged(billed, content, Gc)
              /\ UNCHANGED <<charges, buffered, pending>>
  BY DEF Cross
<1> DEFINE billed == Charged(alloc, params, Gc)
           whole == Charged(billed, content, Gc)
           call == [Blank EXCEPT !.kind = "call", !.params = params, !.content = content]
           refund == Settled(whole, call)
<1>2. UNCHANGED <<blocks, out, policy, closed, heard>>
  BY DEF Cross
<1>3. Len(stack) > 0 /\ stack[Len(stack)].kind \in LuaKinds
  BY DEF Cross, InLua, TopIs, Top, Depth, LuaKinds
<1>4. /\ Good(stack, alloc, policy.memory) /\ alloc \in Ledgers /\ Synced(alloc)
      /\ stack \in Seq(Frame)
      /\ blocks \in [Blocks -> Nat] /\ out \in OutputSink
      /\ params \in Nat /\ content \in Nat
  BY MemoryAssumption DEF IInv, Good, Typed
<1>5. call \in Frame /\ call.kind = "call" /\ call.params = params /\ call.content = content
  <2>1. Blank \in Frame /\ "call" \in Kinds
    BY BlankFacts DEF Kinds
  <2> QED
    BY <2>1, <1>4 DEF Frame
<1>6. /\ billed \in Ledgers /\ Synced(billed) /\ billed.limit = alloc.limit
      /\ billed.usage = alloc.usage /\ billed.charged = alloc.charged + params
      /\ Gc = "on" /\ params # 0 => AtTier(billed)
  BY <1>4, GcIs, ChargedFacts
<1>7. billed = alloc \/ params # 0
  BY DEF Charged
<1> HIDE DEF billed
<1>8. /\ whole \in Ledgers /\ Synced(whole) /\ whole.limit = billed.limit
      /\ whole.usage = billed.usage /\ whole.charged = billed.charged + content
      /\ Gc = "on" /\ content # 0 => AtTier(whole)
  BY <1>4, <1>6, GcIs, ChargedFacts
<1>9. whole = billed \/ content # 0
  BY DEF Charged
<1> HIDE DEF whole, call
<1>10. /\ alloc.usage \in Int /\ alloc.charged \in Nat
       /\ Live(alloc) \in Int /\ Live(billed) = Live(alloc) + params
       /\ Live(whole) = Live(billed) + content
  BY <1>4, <1>6, <1>8 DEF Ledgers, Live
<1>11. /\ refund \in Ledgers /\ Synced(refund) /\ refund.limit = whole.limit
       /\ call.params + call.content <= whole.charged =>
            Live(refund) = Live(whole) - call.params - call.content
  BY <1>5, <1>8, SettledFacts
<1>12. Live(refund) = Live(alloc)
  <2>1. params + content <= whole.charged
    BY <1>4, <1>6, <1>8, <1>10
  <2>2. Live(refund) = Live(whole) - params - content
    BY <2>1, <1>5, <1>11
  <2> QED
    BY <2>2, <1>4, <1>10
<1> HIDE DEF refund
<1>13. Good(stack, refund, policy.memory)
  BY <1>4, <1>6, <1>8, <1>11, LedgerGood
<1>14. /\ Live(alloc) <= Live(alloc) /\ Live(refund) <= Live(alloc)
       /\ UNCHANGED <<policy, closed>>
       /\ blocks' \in [Blocks -> Nat] /\ out' \in OutputSink
       /\ FALSE \in BOOLEAN
  BY <1>2, <1>4, <1>10, <1>12
<1>15. CASE \E fatal \in BOOLEAN : Raise(stack, alloc, FALSE, fatal)
  <2>1. PICK fatal \in BOOLEAN : Raise(stack, alloc, FALSE, fatal)
    BY <1>15
  <2> QED
    BY <2>1, <1>3, <1>4, <1>14, RaiseSound, Zenon
<1>16. CASE Raise(stack, alloc, FALSE, TRUE)
  BY <1>16, <1>3, <1>4, <1>14, RaiseSound, Zenon
<1>17. CASE \E fatal \in BOOLEAN : Raise(stack, refund, FALSE, fatal)
  <2>1. PICK fatal \in BOOLEAN : Raise(stack, refund, FALSE, fatal)
    BY <1>17
  <2> QED
    BY <2>1, <1>3, <1>13, <1>14, RaiseSound, Zenon
<1>18. CASE /\ params > 0 => Fits(alloc, params)
            /\ content > 0 => Fits(billed, content)
            /\ stack' = Append(stack, call) /\ alloc' = whole
            /\ UNCHANGED <<charges, buffered, pending>>
  <2>1. OnFrame(stack[Len(stack)], call) /\ call.kind # "report"
    BY <1>3, <1>5 DEF OnFrame
  <2>2. Good(stack, whole, policy.memory)
    BY <1>4, <1>6, <1>8, LedgerGood
  <2>3. Good(Append(stack, call), whole, policy.memory)
    BY <2>1, <2>2, <1>3, <1>5, PushGood
  <2>4. Good(stack', alloc', policy'.memory)
    BY <2>3, <1>2, <1>18
  <2>5. Typed'
    BY <1>2, <1>18 DEF IInv, Typed
  <2>6. CASE content # 0
    <3>1. Live(billed) + content <= IF billed.limit = 0 THEN SizeMax ELSE billed.limit
      BY <2>6, <1>4, <1>6, <1>18, FitsFacts
    <3>2. Live(alloc') <= IF alloc.limit = 0 THEN SizeMax ELSE alloc.limit
      BY <3>1, <1>6, <1>10, <1>18
    <3> QED
      BY <3>2, <2>4, <2>5, <2>6, <1>8, <1>18, SpendSound
  <2>7. CASE content = 0 /\ params # 0
    <3>1. Live(alloc) + params <= IF alloc.limit = 0 THEN SizeMax ELSE alloc.limit
      BY <2>7, <1>4, <1>18, FitsFacts
    <3>2. alloc' = billed
      BY <2>7, <1>9, <1>18
    <3>3. Live(alloc') <= IF alloc.limit = 0 THEN SizeMax ELSE alloc.limit
      BY <3>1, <3>2, <1>10
    <3> QED
      BY <3>2, <3>3, <2>4, <2>5, <2>7, <1>6, SpendSound
  <2>8. CASE content = 0 /\ params = 0
    <3>1. Live(alloc') <= Live(alloc)
      BY <2>8, <1>7, <1>9, <1>14, <1>18
    <3> QED
      BY <3>1, <2>4, <2>5, QuietSound
  <2> QED
    BY <2>6, <2>7, <2>8
<1> QED
  BY <1>1, <1>15, <1>16, <1>17, <1>18 DEF billed, whole, call, refund, Push

LEMMA CallReturnSound ==
  ASSUME IInv, CallReturn
  PROVE  Sound
<1>1. PICK b \in Blocks, bytes \in 0 .. MaxBlock :
       \/ /\ bytes > 0 => Fits(alloc, bytes)
          /\ blocks' = [blocks EXCEPT ![b] = @ + bytes]
          /\ alloc' = Settled(IF bytes = 0 THEN alloc
                                           ELSE Grown(alloc, bytes, Gc), Top)
          /\ stack' = Popped(stack)
          /\ UNCHANGED <<charges, buffered, pending>>
       \/ /\ bytes > 0 /\ ~Fits(alloc, bytes)
          /\ OutOfMemory(Popped(stack), Settled(alloc, Top))
          /\ UNCHANGED blocks
  BY DEF CallReturn
<1>2. /\ UNCHANGED <<out, policy, closed, heard>>
      /\ Len(stack) > 0 /\ stack[Len(stack)].kind = "call" /\ Top = stack[Len(stack)]
  BY DEF CallReturn, TopIs, Top, Depth
<1>3. /\ Good(stack, alloc, policy.memory) /\ alloc \in Ledgers /\ Synced(alloc)
      /\ blocks \in [Blocks -> Nat] /\ out \in OutputSink
      /\ bytes \in Nat /\ stack \in Seq(Frame)
  BY MemoryAssumption DEF IInv, Good, Typed
<1>4. Top \in Frame
  BY <1>2, <1>3
<1>5. Good(Popped(stack), alloc, policy.memory) /\ Len(Popped(stack)) > 0
  BY <1>2, <1>3, ScriptBeneath
<1>6. CASE /\ bytes > 0 => Fits(alloc, bytes)
           /\ blocks' = [blocks EXCEPT ![b] = @ + bytes]
           /\ alloc' = Settled(IF bytes = 0 THEN alloc
                                            ELSE Grown(alloc, bytes, Gc), Top)
           /\ stack' = Popped(stack)
           /\ UNCHANGED <<charges, buffered, pending>>
  <2> DEFINE more == IF bytes = 0 THEN alloc ELSE Grown(alloc, bytes, Gc)
  <2>1. /\ more \in Ledgers /\ Synced(more) /\ more.limit = alloc.limit
        /\ more.usage = alloc.usage + bytes /\ more.charged = alloc.charged
    <3>1. CASE bytes = 0
      BY <3>1, <1>3 DEF Ledgers
    <3>2. CASE bytes # 0
      BY <3>2, <1>3, GcIs, GrownFacts
    <3> QED
      BY <3>1, <3>2
  <2>2. alloc' = Settled(more, Top)
    BY <1>6
  <2> HIDE DEF more
  <2>3. /\ alloc' \in Ledgers /\ Synced(alloc') /\ alloc'.limit = more.limit
        /\ Live(alloc') <= Live(more)
        /\ Gc = "on" => AtTier(alloc')
    BY <2>1, <2>2, <1>4, SettledFacts
  <2>4. Live(more) = Live(alloc) + bytes /\ Live(more) \in Int /\ Live(alloc') \in Int
    BY <2>1, <2>3, <1>3 DEF Live, Ledgers
  <2>5. Good(stack', alloc', policy'.memory)
    BY <2>1, <2>3, <1>2, <1>5, <1>6, LedgerGood
  <2>6. Typed'
    <3>1. blocks' = [blocks EXCEPT ![b] = blocks[b] + bytes]
      BY <1>6
    <3>2. blocks' \in [Blocks -> Nat]
      BY <3>1, <1>3
    <3> QED
      BY <3>2, <1>2, <1>6 DEF IInv, Typed
  <2>7. CASE bytes = 0
    <3>1. Live(alloc') <= Live(alloc)
      BY <2>3, <2>4, <2>7, <1>3 DEF Live, Ledgers
    <3> QED
      BY <3>1, <2>5, <2>6, QuietSound
  <2>8. CASE bytes # 0
    <3>1. Live(alloc) + bytes <= IF alloc.limit = 0 THEN SizeMax ELSE alloc.limit
      BY <2>8, <1>3, <1>6, FitsFacts
    <3>2. Live(alloc') <= IF alloc.limit = 0 THEN SizeMax ELSE alloc.limit
      <4>1. alloc.limit \in Int /\ SizeMax \in Int
        BY <1>3, LedgerAssumption DEF Ledgers, Size
      <4> QED
        BY <4>1, <3>1, <2>3, <2>4
    <3> QED
      BY <3>2, <2>3, <2>5, <2>6, SpendSound
  <2> QED
    BY <2>7, <2>8
<1>7. CASE /\ OutOfMemory(Popped(stack), Settled(alloc, Top))
           /\ UNCHANGED blocks
  <2> DEFINE led == Settled(alloc, Top)
  <2>1. /\ led \in Ledgers /\ Synced(led) /\ led.limit = alloc.limit
        /\ Live(led) <= Live(alloc)
    BY <1>3, <1>4, SettledFacts
  <2>2. OutOfMemory(Popped(stack), led)
    BY <1>7
  <2> HIDE DEF led
  <2>3. Good(Popped(stack), led, policy.memory)
    BY <2>1, <1>5, LedgerGood
  <2>4. /\ UNCHANGED <<policy, closed>>
        /\ blocks' \in [Blocks -> Nat] /\ out' \in OutputSink
    BY <1>2, <1>3, <1>7
  <2> QED
    BY <2>1, <2>2, <2>3, <2>4, <1>5, OutOfMemorySound
<1> QED
  BY <1>1, <1>6, <1>7

LEMMA CallThrowSound ==
  ASSUME IInv, CallThrow
  PROVE  Sound
<1>1. PICK fatal \in BOOLEAN : Raise(Popped(stack), Settled(alloc, Top), pending, fatal)
  BY DEF CallThrow
<1>2. /\ UNCHANGED <<blocks, out, policy, closed, heard>>
      /\ Len(stack) > 0 /\ stack[Len(stack)].kind = "call" /\ Top = stack[Len(stack)]
  BY DEF CallThrow, TopIs, Top, Depth
<1>3. /\ Good(stack, alloc, policy.memory) /\ alloc \in Ledgers /\ Synced(alloc)
      /\ blocks \in [Blocks -> Nat] /\ out \in OutputSink
      /\ pending \in BOOLEAN /\ stack \in Seq(Frame)
  BY DEF IInv, Good, Typed
<1>4. Top \in Frame
  BY <1>2, <1>3
<1>5. Good(Popped(stack), alloc, policy.memory) /\ Len(Popped(stack)) > 0
  BY <1>2, <1>3, ScriptBeneath
<1> DEFINE led == Settled(alloc, Top)
<1>6. /\ led \in Ledgers /\ Synced(led) /\ led.limit = alloc.limit
      /\ Live(led) <= Live(alloc)
  BY <1>3, <1>4, SettledFacts
<1>7. Raise(Popped(stack), led, pending, fatal)
  BY <1>1
<1> HIDE DEF led
<1>8. Good(Popped(stack), led, policy.memory)
  BY <1>5, <1>6, LedgerGood
<1>9. /\ UNCHANGED <<policy, closed>>
      /\ blocks' \in [Blocks -> Nat] /\ out' \in OutputSink
  BY <1>2, <1>3
<1> QED
  BY <1>3, <1>5, <1>6, <1>7, <1>8, <1>9, RaiseSound, Zenon

-----------------------------------------------------------------------------
(* The output sink *)

\* A write, and the flush that precedes it when it changes the stream.
LEMMA WriteSound ==
  ASSUME IInv, Write
  PROVE  Sound
<1>1. PICK n \in 1 .. MaxWrite, err \in BOOLEAN, nl \in BOOLEAN :
       LET write == [Blank EXCEPT !.kind = "write", !.purpose = "channel",
                                  !.n = n, !.err = err, !.nl = nl]
       IN  stack' = IF err # out.isErr /\ out.buf # <<>>
                      THEN Append(Push(write), FlushFor("channel"))
                      ELSE Push(write)
  BY DEF Write
<1> DEFINE write == [Blank EXCEPT !.kind = "write", !.purpose = "channel",
                                  !.n = n, !.err = err, !.nl = nl]
           flush == FlushFor("channel")
<1>2. /\ UNCHANGED <<alloc, blocks, charges, buffered, out, policy, pending, closed, heard>>
      /\ Len(stack) > 0 /\ stack[Len(stack)].kind \in LuaKinds
  BY DEF Write, InLua, TopIs, Top, Depth, LuaKinds
<1>3. Good(stack, alloc, policy.memory) /\ stack \in Seq(Frame)
  BY DEF IInv, Good
<1>4. write \in Frame /\ write.kind = "write"
  <2>1. Blank \in Frame /\ "write" \in Kinds /\ "channel" \in Purposes /\ n \in Nat
    BY BlankFacts, MemoryAssumption DEF Kinds, Purposes
  <2> QED
    BY <2>1 DEF Frame
<1>5. flush \in Frame /\ flush.kind = "flush" /\ flush.purpose = "channel"
  BY BlankFacts DEF Purposes, FlushFor, Blank
<1>6. stack' = Append(Append(stack, write), flush) \/ stack' = Append(stack, write)
  BY <1>1 DEF Push
<1> HIDE DEF write, flush
<1>7. Good(Append(stack, write), alloc, policy.memory)
  <2>1. OnFrame(stack[Len(stack)], write) /\ write.kind # "report"
    BY <1>2, <1>4 DEF OnFrame
  <2> QED
    BY <2>1, <1>2, <1>3, <1>4, PushGood
<1>8. Good(Append(Append(stack, write), flush), alloc, policy.memory)
  <2> DEFINE s == Append(stack, write)
  <2>1. Len(s) > 0 /\ s[Len(s)] = write
    BY <1>3, <1>4
  <2> HIDE DEF s
  <2>2. OnFrame(s[Len(s)], flush) /\ flush.kind # "report"
    BY <2>1, <1>4, <1>5 DEF OnFrame
  <2>3. Good(s, alloc, policy.memory)
    BY <1>7 DEF s
  <2>4. Good(Append(s, flush), alloc, policy.memory)
    BY <2>1, <2>2, <2>3, <1>5, PushGood
  <2> QED
    BY <2>4 DEF s
<1>9. Good(stack', alloc', policy'.memory)
  BY <1>2, <1>6, <1>7, <1>8
<1>10. Typed'
  BY <1>2 DEF IInv, Typed
<1>11. Live(alloc') <= Live(alloc)
  BY <1>2, <1>3 DEF Good, Ledgers, Live
<1> QED
  BY <1>9, <1>10, <1>11, QuietSound

\* The output buffer never shrinks to make room.
LEMMA ReservedFacts ==
  ASSUME out \in OutputSink, NEW take \in Nat, NEW cap \in Reserved(take)
  PROVE  cap \in Nat /\ cap >= out.cap
<1>1. out.cap \in Nat /\ Len(out.buf) \in Nat
  BY DEF OutputSink
<1>2. CASE out.cap - Len(out.buf) >= take
  BY <1>1, <1>2 DEF Reserved
<1>3. CASE ~(out.cap - Len(out.buf) >= take)
  <2> DEFINE needed == Len(out.buf) + take
  <2>1. needed \in Nat /\ needed > out.cap
    BY <1>1, <1>3
  <2>2. cap \in Capacities(out.cap, needed)
    BY <1>3 DEF Reserved
  <2>3. cap = needed \/ cap \in needed .. SizeMax
    BY <2>2 DEF Capacities
  <2> HIDE DEF needed
  <2> QED
    BY <2>1, <2>3, <1>1, LedgerAssumption
<1> QED
  BY <1>2, <1>3

LEMMA CountedFacts ==
  ASSUME out \in OutputSink, NEW w \in Frame, NEW over \in BOOLEAN
  PROVE  Counted(w, over) \in OutputSink
<1>1. /\ out.written \in Nat /\ out.emitted \in Nat /\ out.truncated \in BOOLEAN
      /\ w.n \in Nat /\ w.err \in BOOLEAN
  BY DEF OutputSink, Frame
<1>2. /\ out.written + w.n \in Nat /\ out.emitted + w.n \in Nat
      /\ (out.truncated \/ over) \in BOOLEAN
  BY <1>1
<1>3. Counted(w, over) =
        [out EXCEPT !.isErr = w.err, !.written = out.written + w.n,
                    !.emitted = out.emitted + w.n,
                    !.truncated = out.truncated \/ over]
  BY DEF Counted
<1> QED
  BY <1>1, <1>2, <1>3 DEF OutputSink

\* The rest of a write charges what the buffer grows by, or raises having
\* charged nothing.
LEMMA AcceptSound ==
  ASSUME IInv, Accept
  PROVE  Sound
<1> DEFINE w     == Top
           room  == IF out.written < out.limit THEN out.limit - out.written ELSE 0
           over  == out.limit # 0 /\ w.n > room
           take  == IF over THEN room ELSE w.n
           bytes == [i \in 1 .. take |->
                       [id |-> out.accepted + i, err |-> w.err,
                        nl |-> w.nl /\ i = w.n]]
           rest  == Popped(stack)
           tail  == [w EXCEPT !.purpose = "tail", !.over = over]
           flush == FlushFor("tail")
           flushing == Append(Append(rest, tail), flush)
<1>1. \/ /\ out' = Counted(w, over)
         /\ stack' = flushing
         /\ UNCHANGED <<alloc, charges, buffered, pending>>
      \/ \E cap \in Reserved(take) :
           IF cap - out.cap > 0 /\ ~Fits(alloc, cap - out.cap)
             THEN /\ out' = Counted(w, TRUE)
                  /\ Raise(rest, alloc, pending, TRUE)
             ELSE /\ out' = [Counted(w, over) EXCEPT
                               !.buf = @ \o bytes, !.cap = cap,
                               !.accepted = @ + take]
                  /\ alloc' = Charged(alloc, cap - out.cap, Gc)
                  /\ stack' = flushing
                  /\ UNCHANGED <<charges, buffered, pending>>
  BY DEF Accept
<1>2. /\ UNCHANGED <<blocks, policy, closed, heard>>
      /\ Len(stack) > 0 /\ stack[Len(stack)].kind = "write" /\ w = stack[Len(stack)]
  BY DEF Accept, TopIs, Top, Depth
<1>3. /\ Good(stack, alloc, policy.memory) /\ stack \in Seq(Frame)
      /\ alloc \in Ledgers /\ Synced(alloc)
      /\ blocks \in [Blocks -> Nat] /\ out \in OutputSink /\ pending \in BOOLEAN
  BY DEF IInv, Good, Typed
<1>4. w \in Frame /\ w.kind = "write" /\ w.n \in Nat
  <2>1. w \in Frame
    BY <1>2, <1>3
  <2> QED
    BY <2>1, <1>2 DEF Frame
<1>5. out.limit \in Nat /\ out.written \in Nat /\ out.accepted \in Nat
  BY <1>3 DEF OutputSink
<1>6. over \in BOOLEAN /\ take \in Nat
  BY <1>4, <1>5
<1>7. tail \in Frame /\ tail.kind = "write" /\ flush \in Frame
      /\ flush.kind = "flush" /\ flush.purpose = "tail"
  <2>1. "tail" \in Purposes
    BY DEF Purposes
  <2>2. tail \in Frame /\ tail.kind = "write"
    BY <2>1, <1>4, <1>6 DEF Frame
  <2>3. flush \in Frame /\ flush.kind = "flush" /\ flush.purpose = "tail"
    BY <2>1, BlankFacts DEF FlushFor, Blank
  <2> QED
    BY <2>2, <2>3
<1>8. bytes \in Seq(Byte)
  <2>1. \A i \in 1 .. take : bytes[i] \in Byte
    <3> SUFFICES ASSUME NEW i \in 1 .. take PROVE bytes[i] \in Byte
      OBVIOUS
    <3>1. out.accepted + i \in Nat /\ w.err \in BOOLEAN /\ (w.nl /\ i = w.n) \in BOOLEAN
      BY <1>4, <1>5, <1>6 DEF Frame
    <3> QED
      BY <3>1 DEF Byte
  <2>2. bytes \in [1 .. take -> Byte]
    BY <2>1
  <2> HIDE DEF bytes
  <2> QED
    BY <2>2, <1>6
<1> HIDE DEF w, over, take, bytes, rest, tail, flush
<1>9. Good(rest, alloc, policy.memory) /\ Len(rest) > 0 /\ rest[Len(rest)].kind \in LuaKinds
  BY <1>2, <1>3, ScriptBeneath DEF rest
<1>10. Good(flushing, alloc, policy.memory)
  <2> DEFINE s == Append(rest, tail)
  <2>1. OnFrame(rest[Len(rest)], tail) /\ tail.kind # "report"
    BY <1>7, <1>9 DEF OnFrame
  <2>2. Good(s, alloc, policy.memory)
    BY <2>1, <1>7, <1>9, PushGood
  <2>3. Len(s) > 0 /\ s[Len(s)] = tail
    BY <1>7, <1>9 DEF Good
  <2> HIDE DEF s
  <2>4. OnFrame(s[Len(s)], flush) /\ flush.kind # "report"
    BY <2>3, <1>7 DEF OnFrame
  <2>5. Good(Append(s, flush), alloc, policy.memory)
    BY <2>2, <2>3, <2>4, <1>7, PushGood
  <2> QED
    BY <2>5 DEF s
<1> HIDE DEF flushing
<1>11. CASE /\ out' = Counted(w, over)
            /\ stack' = flushing
            /\ UNCHANGED <<alloc, charges, buffered, pending>>
  <2>1. out' \in OutputSink
    BY <1>3, <1>4, <1>6, <1>11, CountedFacts
  <2>2. Typed'
    BY <2>1, <1>2, <1>11 DEF IInv, Typed
  <2>3. Good(stack', alloc', policy'.memory)
    BY <1>2, <1>10, <1>11
  <2>4. Live(alloc') <= Live(alloc)
    BY <1>3, <1>11 DEF Ledgers, Live
  <2> QED
    BY <2>2, <2>3, <2>4, QuietSound
<1>12. ASSUME NEW cap \in Reserved(take),
              out' = Counted(w, TRUE), Raise(rest, alloc, pending, TRUE)
       PROVE  Sound
  <2>1. out' \in OutputSink
    <3>1. TRUE \in BOOLEAN
      OBVIOUS
    <3> QED
      BY <3>1, <1>3, <1>4, <1>12, CountedFacts
  <2>2. /\ Live(alloc) <= Live(alloc) /\ UNCHANGED <<policy, closed>>
        /\ blocks' \in [Blocks -> Nat]
    BY <1>2, <1>3 DEF Ledgers, Live
  <2> QED
    BY <2>1, <2>2, <1>3, <1>9, <1>12, RaiseSound, Zenon
<1>13. ASSUME NEW cap \in Reserved(take),
              ~(cap - out.cap > 0 /\ ~Fits(alloc, cap - out.cap)),
              out' = [Counted(w, over) EXCEPT
                        !.buf = @ \o bytes, !.cap = cap, !.accepted = @ + take],
              alloc' = Charged(alloc, cap - out.cap, Gc),
              stack' = flushing, UNCHANGED <<charges, buffered, pending>>
       PROVE  Sound
  <2> DEFINE grow == cap - out.cap
             counted == Counted(w, over)
  <2>1. cap \in Nat /\ out.cap \in Nat /\ grow \in Nat
    <3>1. cap \in Nat /\ cap >= out.cap /\ out.cap \in Nat
      BY <1>3, <1>6, ReservedFacts DEF OutputSink
    <3> QED
      BY <3>1
  <2>2. counted \in OutputSink
    BY <1>3, <1>4, <1>6, CountedFacts
  <2>3. /\ alloc' = Charged(alloc, grow, Gc) /\ ~(grow > 0 /\ ~Fits(alloc, grow))
        /\ out' = [counted EXCEPT !.buf = counted.buf \o bytes, !.cap = cap,
                                  !.accepted = counted.accepted + take]
    BY <1>13
  <2> HIDE DEF grow, counted
  <2>4. out' \in OutputSink
    <3>1. counted.buf \o bytes \in Seq(Byte) /\ counted.accepted + take \in Nat
      BY <2>2, <1>6, <1>8 DEF OutputSink
    <3>2. out' = [counted EXCEPT !.buf = counted.buf \o bytes, !.cap = cap,
                                 !.accepted = counted.accepted + take]
      BY <2>3
    <3> QED
      BY <3>1, <3>2, <2>1, <2>2 DEF OutputSink
  <2>5. Typed'
    BY <2>4, <1>2, <1>13 DEF IInv, Typed
  <2>6. /\ alloc' \in Ledgers /\ Synced(alloc') /\ alloc'.limit = alloc.limit
        /\ alloc'.usage = alloc.usage /\ alloc'.charged = alloc.charged + grow
        /\ Gc = "on" /\ grow # 0 => AtTier(alloc')
    BY <2>1, <2>3, <1>3, GcIs, ChargedFacts
  <2>7. Live(alloc') = Live(alloc) + grow /\ Live(alloc) \in Int
    BY <2>1, <2>6, <1>3 DEF Live, Ledgers
  <2>8. Good(stack', alloc', policy'.memory)
    BY <2>6, <1>2, <1>10, <1>13, LedgerGood
  <2>9. CASE grow = 0
    <3>1. Live(alloc') <= Live(alloc)
      BY <2>7, <2>9
    <3> QED
      BY <3>1, <2>5, <2>8, QuietSound
  <2>10. CASE grow # 0
    <3>1. Fits(alloc, grow)
      BY <2>1, <2>3, <2>10
    <3>2. Live(alloc) + grow <= IF alloc.limit = 0 THEN SizeMax ELSE alloc.limit
      BY <3>1, <2>1, <1>3, FitsFacts
    <3>3. Live(alloc') <= IF alloc.limit = 0 THEN SizeMax ELSE alloc.limit
      BY <3>2, <2>7
    <3> QED
      BY <3>3, <2>5, <2>6, <2>8, <2>10, SpendSound
  <2> QED
    BY <2>9, <2>10
<1> QED
  BY <1>1, <1>11, <1>12, <1>13

LEMMA WrittenSound ==
  ASSUME IInv, Written
  PROVE  Sound
<1>1. \/ Raise(Popped(stack), alloc, pending, TRUE)
      \/ stack' = Popped(stack) /\ UNCHANGED <<alloc, charges, buffered, pending>>
  BY DEF Written
<1>2. /\ UNCHANGED <<blocks, out, policy, closed, heard>>
      /\ Len(stack) > 0 /\ stack[Len(stack)].kind = "write"
  BY DEF Written, TopIs, Top, Depth
<1>3. /\ Good(stack, alloc, policy.memory) /\ pending \in BOOLEAN
      /\ Live(alloc) <= Live(alloc) /\ UNCHANGED <<policy, closed>>
      /\ blocks' \in [Blocks -> Nat] /\ out' \in OutputSink
  BY <1>2 DEF IInv, Good, Typed, Ledgers, Live
<1>4. Good(Popped(stack), alloc, policy.memory) /\ Len(Popped(stack)) > 0
  BY <1>2, <1>3, ScriptBeneath
<1>5. CASE Raise(Popped(stack), alloc, pending, TRUE)
  BY <1>3, <1>4, <1>5, RaiseSound, Zenon
<1>6. CASE stack' = Popped(stack) /\ UNCHANGED <<alloc, charges, buffered, pending>>
  <2>1. Typed'
    BY <1>2, <1>6 DEF IInv, Typed
  <2>2. Good(stack', alloc', policy'.memory) /\ Live(alloc') <= Live(alloc)
    BY <1>2, <1>3, <1>4, <1>6
  <2> QED
    BY <2>1, <2>2, QuietSound
<1> QED
  BY <1>1, <1>5, <1>6

\* Bytes that leave the sink leave the rest in order, and in type.
LEMMA SentFacts ==
  ASSUME out \in OutputSink, NEW take \in Due,
         out' = [out EXCEPT !.buf = SubSeq(@, take + 1, Len(@))]
  PROVE  out' \in OutputSink
<1>1. out.buf \in Seq(Byte) /\ take \in 1 .. Len(out.buf)
  BY DEF OutputSink, Due
<1>2. SubSeq(out.buf, take + 1, Len(out.buf)) \in Seq(Byte)
  BY <1>1
<1>3. out' = [out EXCEPT !.buf = SubSeq(out.buf, take + 1, Len(out.buf))]
  OBVIOUS
<1> QED
  BY <1>2, <1>3 DEF OutputSink

LEMMA FlushEmitSound ==
  ASSUME IInv, FlushEmit
  PROVE  Sound
<1>1. PICK take \in Due : out' = [out EXCEPT !.buf = SubSeq(@, take + 1, Len(@))]
  BY DEF FlushEmit
<1> DEFINE f == [Blank EXCEPT !.kind = "emit", !.purpose = Top.purpose]
<1>2. /\ UNCHANGED <<alloc, blocks, charges, buffered, policy, pending, closed>>
      /\ Len(stack) > 0 /\ stack[Len(stack)].kind = "flush"
      /\ Top = stack[Len(stack)] /\ stack' = Append(stack, f)
  BY DEF FlushEmit, TopIs, Top, Depth, Push
<1>3. /\ Good(stack, alloc, policy.memory) /\ stack \in Seq(Frame)
      /\ out \in OutputSink /\ Live(alloc) <= Live(alloc)
  BY DEF IInv, Good, Typed, Ledgers, Live
<1>4. f \in Frame /\ f.kind = "emit" /\ f.purpose = Top.purpose
  <2>1. Top \in Frame
    BY <1>2, <1>3
  <2>2. Top.purpose \in Purposes /\ "emit" \in Kinds /\ Blank \in Frame
    BY <2>1, BlankFacts DEF Frame, Kinds
  <2> QED
    BY <2>2 DEF Frame
<1> HIDE DEF f
<1>5. OnFrame(stack[Len(stack)], f) /\ f.kind # "report"
  BY <1>2, <1>4 DEF OnFrame
<1>6. Good(Append(stack, f), alloc, policy.memory)
  BY <1>2, <1>3, <1>4, <1>5, PushGood
<1>7. out' \in OutputSink
  BY <1>1, <1>3, SentFacts
<1>8. Typed'
  BY <1>2, <1>7 DEF IInv, Typed
<1>9. Good(stack', alloc', policy'.memory) /\ Live(alloc') <= Live(alloc)
  BY <1>2, <1>3, <1>6
<1> QED
  BY <1>8, <1>9, QuietSound

\* close() empties a stack that holds nothing but its flush, and the callback
\* that flush may have called.
LEMMA TornDownSound ==
  ASSUME IInv, TornDown, NEW s, Good(s, alloc, policy.memory), Len(s) = 0
  PROVE  Sound
<1>1. /\ alloc' = Discharged(alloc, out.cap, Gc)
      /\ out' = [out EXCEPT !.buf = <<>>, !.cap = 0]
      /\ stack' = <<>>
      /\ UNCHANGED <<blocks, charges, buffered, policy, pending, closed, heard>>
  BY DEF TornDown
<1>2. /\ out \in OutputSink /\ out.cap \in Nat /\ s \in Seq(Frame)
      /\ alloc \in Ledgers /\ Synced(alloc)
  BY DEF IInv, Good, Typed, OutputSink
<1>3. /\ alloc' \in Ledgers /\ Synced(alloc') /\ alloc'.limit = alloc.limit
      /\ alloc'.usage = alloc.usage /\ alloc'.charged <= alloc.charged
  BY <1>1, <1>2, GcIs, DischargedFacts
<1>4. Live(alloc') <= Live(alloc)
  BY <1>2, <1>3 DEF Live, Ledgers
<1>5. stack' = s
  BY <1>1, <1>2
<1>6. Good(stack', alloc', policy'.memory)
  BY <1>1, <1>3, <1>5, LedgerGood
<1>7. out' \in OutputSink
  <2>1. out' = [out EXCEPT !.buf = <<>>, !.cap = 0]
    BY <1>1
  <2>2. <<>> \in Seq(Byte)
    OBVIOUS
  <2> QED
    BY <2>1, <2>2, <1>2 DEF OutputSink
<1>8. Typed'
  BY <1>1, <1>7 DEF IInv, Typed
<1> QED
  BY <1>4, <1>6, <1>8, QuietSound

\* The flush of close() is alone on the stack; a flush a write waits for is
\* on it.
LEMMA FlushStandsOn ==
  ASSUME NEW s, NEW led, NEW m, Good(s, led, m), Len(s) > 0, s[Len(s)].kind = "flush"
  PROVE  /\ Good(Popped(s), led, m)
         /\ s[Len(s)].purpose = "close" => Len(Popped(s)) = 0
         /\ s[Len(s)].purpose \in {"tail", "channel"} =>
              Len(Popped(s)) > 0 /\ Popped(s)[Len(Popped(s))].kind = "write"
<1>1. s \in Seq(Frame) /\ Len(s) \in 1 .. Len(s)
  BY DEF Good
<1>2. /\ Good(Popped(s), led, m) /\ Len(Popped(s)) = Len(s) - 1
      /\ \A i \in 1 .. Len(s) - 1 : Popped(s)[i] = s[i]
  BY PopGood
<1>3. IF Len(s) = 1 THEN OnHost(s[Len(s)]) ELSE OnFrame(s[Len(s) - 1], s[Len(s)])
  BY <1>1, StandsOn
<1>4. CASE Len(s) = 1
  BY <1>2, <1>3, <1>4 DEF OnHost
<1>5. CASE Len(s) # 1
  <2>1. Len(s) - 1 \in 1 .. Len(s) - 1
    <3>1. Len(s) \in Nat /\ Len(s) > 0
      BY <1>1
    <3> QED
      BY <3>1, <1>5
  <2>2. Popped(s)[Len(Popped(s))] = s[Len(s) - 1] /\ Len(Popped(s)) > 0
    BY <2>1, <1>2
  <2>3. OnFrame(s[Len(s) - 1], s[Len(s)])
    BY <1>3, <1>5
  <2> QED
    BY <2>2, <2>3, <1>2 DEF OnFrame
<1> QED
  BY <1>4, <1>5

LEMMA FlushFailedSound ==
  ASSUME IInv, NEW purpose \in Purposes, purpose # "close",
         NEW below, Good(below, alloc, policy.memory),
         purpose \in {"tail", "channel"} =>
           Len(below) > 0 /\ below[Len(below)].kind = "write",
         FlushFailed(purpose, below), out' \in OutputSink
  PROVE  Sound
<1>1. /\ blocks \in [Blocks -> Nat] /\ Live(alloc) <= Live(alloc)
      /\ FALSE \in BOOLEAN
  BY DEF IInv, Good, Typed, Ledgers, Live
<1>2. CASE purpose = "tail"
  <2>1. /\ \E fatal \in BOOLEAN : Raise(Popped(below), alloc, FALSE, fatal)
        /\ UNCHANGED <<blocks, policy, closed>>
    BY <1>2 DEF FlushFailed
  <2>2. PICK fatal \in BOOLEAN : Raise(Popped(below), alloc, FALSE, fatal)
    BY <2>1
  <2>3. Good(Popped(below), alloc, policy.memory) /\ Len(Popped(below)) > 0
    BY <1>2, ScriptBeneath
  <2>4. blocks' \in [Blocks -> Nat] /\ UNCHANGED <<policy, closed>>
    BY <2>1, <1>1
  <2> QED
    BY <2>2, <2>3, <2>4, <1>1, RaiseSound, Zenon
<1>3. CASE purpose = "channel"
  <2>1. /\ stack' = Popped(below) /\ pending' = TRUE
        /\ UNCHANGED <<alloc, blocks, charges, buffered, policy, closed>>
    BY <1>3 DEF FlushFailed
  <2>2. Good(Popped(below), alloc, policy.memory)
    BY <1>3, ScriptBeneath
  <2>3. Good(stack', alloc', policy'.memory) /\ Live(alloc') <= Live(alloc)
    BY <2>1, <2>2, <1>1
  <2>4. Typed'
    BY <2>1 DEF IInv, Typed
  <2> QED
    BY <2>3, <2>4, QuietSound
<1>4. CASE purpose = "get"
  <2>1. /\ stack' = below
        /\ UNCHANGED <<alloc, blocks, charges, buffered, policy, pending, closed>>
    BY <1>4 DEF FlushFailed
  <2>2. Good(stack', alloc', policy'.memory) /\ Live(alloc') <= Live(alloc)
    BY <2>1, <1>1
  <2>3. Typed'
    BY <2>1 DEF IInv, Typed
  <2> QED
    BY <2>2, <2>3, QuietSound
<1> QED
  BY <1>2, <1>3, <1>4 DEF Purposes

LEMMA FlushDoneSound ==
  ASSUME IInv, FlushDone
  PROVE  Sound
<1>1. /\ Len(stack) > 0 /\ stack[Len(stack)].kind = "flush"
      /\ Top = stack[Len(stack)]
  BY DEF FlushDone, TopIs, Top, Depth
<1>2. /\ Good(stack, alloc, policy.memory) /\ stack \in Seq(Frame)
      /\ alloc \in Ledgers /\ Synced(alloc)
      /\ out \in OutputSink /\ out.cap \in Nat /\ Live(alloc) <= Live(alloc)
  BY DEF IInv, Good, Typed, OutputSink, Ledgers, Live
<1>3. /\ Good(Popped(stack), alloc, policy.memory)
      /\ Top.purpose = "close" => Len(Popped(stack)) = 0
  BY <1>1, <1>2, FlushStandsOn
<1>4. CASE Top.purpose = "close"
  BY <1>3, <1>4, TornDownSound DEF FlushDone
<1>5. CASE Top.purpose # "close"
  <2>1. /\ stack' = Popped(stack)
        /\ \/ UNCHANGED <<alloc, out>>
           \/ /\ alloc' = Discharged(alloc, out.cap, Gc)
              /\ out' = [out EXCEPT !.buf = <<>>, !.cap = 0]
        /\ UNCHANGED <<blocks, charges, buffered, policy, pending, closed, heard>>
    BY <1>5 DEF FlushDone
  <2>2. CASE UNCHANGED <<alloc, out>>
    <3>1. Typed'
      BY <2>1, <2>2 DEF IInv, Typed
    <3>2. Good(stack', alloc', policy'.memory) /\ Live(alloc') <= Live(alloc)
      BY <2>1, <2>2, <1>2, <1>3
    <3> QED
      BY <3>1, <3>2, QuietSound
  <2>3. CASE /\ alloc' = Discharged(alloc, out.cap, Gc)
             /\ out' = [out EXCEPT !.buf = <<>>, !.cap = 0]
    <3>1. /\ alloc' \in Ledgers /\ Synced(alloc') /\ alloc'.limit = alloc.limit
          /\ alloc'.usage = alloc.usage /\ alloc'.charged <= alloc.charged
      BY <2>3, <1>2, GcIs, DischargedFacts
    <3>2. Live(alloc') <= Live(alloc)
      BY <3>1, <1>2 DEF Live, Ledgers
    <3>3. Good(stack', alloc', policy'.memory)
      BY <3>1, <2>1, <1>3, LedgerGood
    <3>4. out' \in OutputSink
      <4>1. out' = [out EXCEPT !.buf = <<>>, !.cap = 0]
        BY <2>3
      <4>2. <<>> \in Seq(Byte)
        OBVIOUS
      <4> QED
        BY <4>1, <4>2, <1>2 DEF OutputSink
    <3>5. Typed'
      BY <3>4, <2>1 DEF IInv, Typed
    <3> QED
      BY <3>2, <3>3, <3>5, QuietSound
  <2> QED
    BY <2>1, <2>2, <2>3
<1> QED
  BY <1>4, <1>5

LEMMA FlushRefusedSound ==
  ASSUME IInv, FlushRefused
  PROVE  Sound
<1>1. PICK take \in Due : out' = [out EXCEPT !.buf = SubSeq(@, take + 1, Len(@))]
  BY DEF FlushRefused
<1>2. /\ Len(stack) > 0 /\ stack[Len(stack)].kind = "flush"
      /\ Top = stack[Len(stack)] /\ Top.purpose # "close"
      /\ FlushFailed(Top.purpose, Popped(stack))
  BY DEF FlushRefused, TopIs, Top, Depth
<1>3. /\ Good(stack, alloc, policy.memory) /\ stack \in Seq(Frame)
      /\ out \in OutputSink
  BY DEF IInv, Good, Typed
<1>4. /\ Good(Popped(stack), alloc, policy.memory)
      /\ Top.purpose \in {"tail", "channel"} =>
           Len(Popped(stack)) > 0 /\ Popped(stack)[Len(Popped(stack))].kind = "write"
  BY <1>2, <1>3, FlushStandsOn
<1>5. Top.purpose \in Purposes
  <2>1. Top \in Frame
    BY <1>2, <1>3
  <2> QED
    BY <2>1 DEF Frame
<1>6. out' \in OutputSink
  BY <1>1, <1>3, SentFacts
<1> QED
  BY <1>2, <1>4, <1>5, <1>6, FlushFailedSound, Zenon

LEMMA EmitThrowSound ==
  ASSUME IInv, EmitThrow
  PROVE  Sound
<1>1. /\ Len(stack) > 0 /\ stack[Len(stack)].kind = "emit"
      /\ Top = stack[Len(stack)]
  BY DEF EmitThrow, TopIs, Top, Depth
<1>2. /\ Good(stack, alloc, policy.memory) /\ stack \in Seq(Frame)
      /\ Len(stack) \in 1 .. Len(stack) /\ out \in OutputSink
  BY <1>1 DEF IInv, Good, Typed
<1> DEFINE s == Popped(stack)
<1>3. /\ Good(s, alloc, policy.memory) /\ Len(s) = Len(stack) - 1
      /\ \A i \in 1 .. Len(stack) - 1 : s[i] = stack[i]
  BY <1>1, <1>2, PopGood
<1>4. /\ Len(stack) # 1 /\ stack[Len(stack) - 1].kind = "flush"
      /\ stack[Len(stack) - 1].purpose = Top.purpose
  <2>1. IF Len(stack) = 1 THEN OnHost(Top) ELSE OnFrame(stack[Len(stack) - 1], Top)
    BY <1>1, <1>2, StandsOn
  <2> QED
    BY <2>1, <1>1 DEF OnHost, OnFrame
<1>5. Len(s) > 0 /\ s[Len(s)].kind = "flush" /\ s[Len(s)].purpose = Top.purpose
  BY <1>2, <1>3, <1>4
<1> HIDE DEF s
<1>6. /\ Good(Popped(s), alloc, policy.memory)
      /\ Top.purpose = "close" => Len(Popped(s)) = 0
      /\ Top.purpose \in {"tail", "channel"} =>
           Len(Popped(s)) > 0 /\ Popped(s)[Len(Popped(s))].kind = "write"
  BY <1>3, <1>5, FlushStandsOn
<1>7. CASE Top.purpose = "close"
  BY <1>6, <1>7, TornDownSound DEF EmitThrow
<1>8. CASE Top.purpose # "close"
  <2>1. FlushFailed(Top.purpose, Popped(s)) /\ out' = out
    BY <1>8 DEF EmitThrow, s
  <2>2. Top.purpose \in Purposes
    <3>1. Top \in Frame
      BY <1>1, <1>2
    <3> QED
      BY <3>1 DEF Frame
  <2>3. out' \in OutputSink
    BY <2>1, <1>2
  <2> QED
    BY <2>1, <2>2, <2>3, <1>6, <1>8, FlushFailedSound, Zenon
<1> QED
  BY <1>7, <1>8

-----------------------------------------------------------------------------
(* The theorems *)

\* A new sandbox is on the first rung.
LEMMA InitLadder == Init => IInv
<1> SUFFICES ASSUME Init PROVE IInv
  OBVIOUS
<1>1. PICK m \in MemoryLimits, f \in Overflows :
        policy = [memory |-> m, overflow |-> f] /\ alloc = Opened(m)
  BY DEF Init
<1>2. PICK mode \in Modes, o \in OutputLimits :
       out = [mode |-> mode, buf |-> <<>>, cap |-> 0, isErr |-> FALSE,
              limit |-> o, written |-> 0, emitted |-> 0, accepted |-> 0,
              truncated |-> FALSE]
  BY DEF Init
<1>3. /\ blocks = [b \in Blocks |-> 0] /\ charges = [h \in Handles |-> 0]
      /\ buffered = 0 /\ stack = <<>> /\ pending = FALSE /\ closed = FALSE
  BY DEF Init
<1>4. m \in Size /\ f \in AllOverflows /\ mode \in AllModes /\ o \in Nat
  BY MemoryAssumption
<1>5. Typed
  <2>1. <<>> \in Seq(Byte)
    OBVIOUS
  <2>2. out \in OutputSink
    BY <2>1, <1>2, <1>4 DEF OutputSink
  <2>3. policy \in [memory : Size, overflow : AllOverflows]
    BY <1>1, <1>4
  <2> QED
    BY <2>2, <2>3, <1>3 DEF Typed
<1>6. alloc \in Ledgers /\ Synced(alloc) /\ alloc.limit = m /\ policy.memory = m
  BY <1>1, <1>4 DEF Opened, Ledgers, Synced, Tiers
<1>7. Rungs(stack) = 0
  <2>1. {i \in 1 .. Len(stack) : stack[i].kind = "report"} = {}
    BY <1>3
  <2> QED
    BY <2>1, FS_EmptySet DEF Rungs, RungsTo
<1>8. alloc.limit = Ceiling(policy.memory, Rungs(stack))
  BY <1>4, <1>6, <1>7, CeilingFacts
<1>9. stack \in Seq(Frame) /\ Ladder(stack, policy.memory)
  BY <1>3 DEF Ladder
<1> QED
  BY <1>5, <1>6, <1>8, <1>9 DEF IInv, Good

LEMMA StepSound == IInv /\ [Next]_vars => Sound
<1> SUFFICES ASSUME IInv, [Next]_vars PROVE Sound
  OBVIOUS
<1>1. CASE Enter \/ GetOutput \/ Finalise \/ FinaliserReturn \/ SweepDone \/ EmitReturn
  BY <1>1, FramesSound
<1>2. CASE SetLimits
  BY <1>2, SetLimitsSound
<1>3. CASE TakeOutput
  BY <1>3, TakeOutputSound
<1>4. CASE Close
  BY <1>4, CloseSound
<1>5. CASE Cross
  BY <1>5, CrossSound
<1>6. CASE CallReturn
  BY <1>6, CallReturnSound
<1>7. CASE CallThrow
  BY <1>7, CallThrowSound
<1>8. CASE Grow
  BY <1>8, GrowSound
<1>9. CASE Shrink
  BY <1>9, ShrinkSound
<1>10. CASE BufferFile
  BY <1>10, BufferFileSound
<1>11. CASE CloseFile
  BY <1>11, CloseFileSound
<1>12. CASE Fail \/ Return \/ ReportReturn
  BY <1>12, FailSound
<1>13. CASE Write
  BY <1>13, WriteSound
<1>14. CASE Accept
  BY <1>14, AcceptSound
<1>15. CASE Written
  BY <1>15, WrittenSound
<1>16. CASE FlushEmit
  BY <1>16, FlushEmitSound
<1>17. CASE FlushDone
  BY <1>17, FlushDoneSound
<1>18. CASE FlushRefused
  BY <1>18, FlushRefusedSound
<1>19. CASE EmitThrow
  BY <1>19, EmitThrowSound
<1>20. CASE UNCHANGED vars
  <2>1. Typed'
    BY <1>20 DEF IInv, Typed, vars
  <2>2. Good(stack', alloc', policy'.memory) /\ Live(alloc') <= Live(alloc)
    BY <1>20 DEF IInv, Good, Ledgers, Live, vars
  <2> QED
    BY <2>1, <2>2, QuietSound
<1> QED
  BY <1>1, <1>2, <1>3, <1>4, <1>5, <1>6, <1>7, <1>8, <1>9, <1>10, <1>11, <1>12,
     <1>13, <1>14, <1>15, <1>16, <1>17, <1>18, <1>19, <1>20 DEF Next

\* The stack of frames and the ledger agree in every reachable state: each
\* frame stands on one that can have called it, and (unless the host may set
\* limits in a report) each report saved the ceiling beneath it.
THEOREM LadderHolds == Spec => []IInv
<1>1. Init => IInv
  BY InitLadder
<1>2. IInv /\ [Next]_vars => IInv'
  BY StepSound DEF Sound
<1> QED
  BY <1>1, <1>2, PTL DEF Spec

\* luaext_error_traceback_handler lifts the ceiling by exactly one headroom per
\* report in progress, and every way a report ends takes it off again.
THEOREM CeilingEarned ==
  ASSUME ~SetDuringReport PROVE Spec => []CeilingIsEarned
<1>1. IInv => CeilingIsEarned
  <2> SUFFICES ASSUME IInv PROVE CeilingIsEarned
    OBVIOUS
  <2>1. alloc.limit = Ceiling(policy.memory, Rungs(stack))
    BY DEF IInv, Good
  <2> QED
    BY <2>1 DEF CeilingIsEarned, Ceiling, Rungs, RungsTo, Depth
<1> QED
  BY <1>1, LadderHolds, PTL

\* With no report in progress the ceiling is the one the host set last.
THEOREM LimitBackInForce ==
  ASSUME ~SetDuringReport PROVE Spec => []LimitInForce
<1>1. IInv => LimitInForce
  <2> SUFFICES ASSUME IInv, ~Reporting PROVE alloc.limit = policy.memory
    BY DEF LimitInForce
  <2>1. alloc.limit = Ceiling(policy.memory, Rungs(stack)) /\ policy.memory \in Size
    BY DEF IInv, Good, Typed
  <2>2. {i \in 1 .. Len(stack) : stack[i].kind = "report"} = {}
    BY DEF Reporting, Depth
  <2>3. Rungs(stack) = 0
    BY <2>2, FS_EmptySet DEF Rungs, RungsTo
  <2> QED
    BY <2>1, <2>3, CeilingFacts
<1> QED
  BY <1>1, LadderHolds, PTL

\* luaext_alloc_fits is asked before every byte is spent: no step leaves the
\* sandbox holding more than the ceiling in force allowed.
THEOREM SpendingFits == Spec => GrowthFits
<1>1. IInv /\ [Next]_vars =>
        [Grows => Live(alloc') <= IF alloc.limit = 0 THEN SizeMax ELSE alloc.limit]_vars
  BY StepSound DEF Sound
<1> QED
  BY <1>1, LadderHolds, PTL DEF Spec, GrowthFits

\* luaext_alloc_tune_gc retries what a finaliser made the collector refuse: any
\* growth it can hear of leaves it at the tier the ledger calls for.
THEOREM CollectorFollows == Spec => CollectorCatchesUp
<1>1. IInv /\ [Next]_vars =>
        [Grows /\ Gc = "on" => alloc'.tuning = Tier(Live(alloc'), alloc'.limit)]_vars
  BY StepSound DEF Sound, AtTier
<1> QED
  BY <1>1, LadderHolds, PTL DEF Spec, CollectorCatchesUp

-----------------------------------------------------------------------------
(* The books: what is billed is what is held                               *)

Bills(s) == SumFunction([i \in 1 .. Len(s) |-> Bill(s[i])])

Books ==
  /\ alloc.usage = SumFunction(blocks)
  /\ buffered = SumFunction(charges)
  /\ alloc.charged = out.cap + buffered + Bills(stack)

LEMMA BillType == \A f \in Frame : Bill(f) \in Nat /\ (f.kind # "call" => Bill(f) = 0)
BY DEF Bill, Frame

\* The sum of the first k terms of a sequence's figures.
LEMMA SumToNext ==
  ASSUME NEW k \in Nat, NEW f, NEW g,
         \A i \in 1 .. k + 1 : f[i] \in Nat,
         \A i \in 1 .. k : g[i] = f[i]
  PROVE  /\ SumFunctionOnSet(f, 1 .. k + 1) = SumFunctionOnSet(g, 1 .. k) + f[k + 1]
         /\ SumFunctionOnSet(g, 1 .. k) \in Nat
<1>1. \A n \in Nat : IsFiniteSet(1 .. n)
  BY FS_Interval
<1>2. IsFiniteSet(1 .. k + 1) /\ IsFiniteSet(1 .. k)
  BY <1>1
<1>3. k + 1 \in 1 .. k + 1 /\ (1 .. k + 1) \ {k + 1} = 1 .. k
  OBVIOUS
<1>4. \A i \in 1 .. k : i \in 1 .. k + 1
  OBVIOUS
<1> DEFINE A == 1 .. k + 1
           B == 1 .. k
           e == k + 1
<1>5. /\ IsFiniteSet(A) /\ IsFiniteSet(B) /\ e \in A /\ A \ {e} = B
      /\ \A i \in A : f[i] \in Nat
      /\ \A i \in B : g[i] = f[i] /\ g[i] \in Nat
  BY <1>2, <1>3, <1>4
<1> HIDE DEF A, B, e
<1>6. SumFunctionOnSet(f, A) = f[e] + SumFunctionOnSet(f, A \ {e})
  <2>1. \A i \in A : f[i] \in Int
    BY <1>5
  <2> QED
    BY <2>1, <1>5, SumWithout
<1>7. SumFunctionOnSet(g, B) = SumFunctionOnSet(f, B)
  BY <1>5, SumSame
<1>8. SumFunctionOnSet(g, B) \in Nat
  BY <1>5, SumNatural
<1>9. f[e] \in Nat
  BY <1>5
<1>10. SumFunctionOnSet(f, A) = SumFunctionOnSet(g, B) + f[e]
  BY <1>5, <1>6, <1>7, <1>8, <1>9
<1> QED
  BY <1>8, <1>10 DEF A, B, e

LEMMA BillsAre ==
  ASSUME NEW s \in Seq(Frame)
  PROVE  /\ Bills(s) = SumFunctionOnSet([i \in 1 .. Len(s) |-> Bill(s[i])], 1 .. Len(s))
         /\ \A i \in 1 .. Len(s) : Bill(s[i]) \in Nat
<1>1. \A i \in 1 .. Len(s) : Bill(s[i]) \in Nat
  BY BillType
<1> DEFINE f == [i \in 1 .. Len(s) |-> Bill(s[i])]
<1>2. DOMAIN f = 1 .. Len(s)
  OBVIOUS
<1>3. Bills(s) = SumFunction(f)
  BY DEF Bills
<1> HIDE DEF f
<1>4. Bills(s) = SumFunctionOnSet(f, 1 .. Len(s))
  BY <1>2, <1>3, SumOfAll
<1> QED
  BY <1>1, <1>4 DEF f

\* One stack is another with one frame more.
LEMMA BillsNext ==
  ASSUME NEW s \in Seq(Frame), NEW t \in Seq(Frame), Len(t) = Len(s) + 1,
         \A i \in 1 .. Len(s) : t[i] = s[i]
  PROVE  Bills(t) = Bills(s) + Bill(t[Len(t)]) /\ Bills(s) \in Nat
<1> DEFINE k == Len(s)
           f == [i \in 1 .. Len(t) |-> Bill(t[i])]
           g == [i \in 1 .. Len(s) |-> Bill(s[i])]
<1>1. k \in Nat /\ Len(t) = k + 1
  OBVIOUS
<1>2. \A i \in 1 .. k + 1 : f[i] = Bill(t[i]) /\ f[i] \in Nat
  BY <1>1, BillsAre
<1>3. \A i \in 1 .. k : i \in 1 .. k + 1
  BY <1>1
<1>4. \A i \in 1 .. k : g[i] = f[i]
  BY <1>2, <1>3
<1>5. /\ Bills(t) = SumFunctionOnSet(f, 1 .. k + 1)
      /\ Bills(s) = SumFunctionOnSet(g, 1 .. k)
  BY <1>1, BillsAre
<1>6. f[k + 1] = Bill(t[Len(t)])
  BY <1>1, <1>2
<1> HIDE DEF f, g, k
<1>7. /\ SumFunctionOnSet(f, 1 .. k + 1) = SumFunctionOnSet(g, 1 .. k) + f[k + 1]
      /\ SumFunctionOnSet(g, 1 .. k) \in Nat
  BY <1>1, <1>2, <1>4, SumToNext
<1> QED
  BY <1>5, <1>6, <1>7

LEMMA BillsOfNone == Bills(<<>>) = 0
<1> DEFINE s == <<>>
<1>1. s \in Seq(Frame) /\ 1 .. Len(s) = {}
  OBVIOUS
<1>2. Bills(s) = SumFunctionOnSet([i \in 1 .. Len(s) |-> Bill(s[i])], 1 .. Len(s))
  BY <1>1, BillsAre
<1> QED
  BY <1>1, <1>2, SumOfNothing

LEMMA BillsPushed ==
  ASSUME NEW s \in Seq(Frame), NEW f \in Frame
  PROVE  Bills(Append(s, f)) = Bills(s) + Bill(f) /\ Bills(s) \in Nat
<1> DEFINE t == Append(s, f)
<1>1. /\ t \in Seq(Frame) /\ Len(t) = Len(s) + 1 /\ t[Len(t)] = f
      /\ \A i \in 1 .. Len(s) : t[i] = s[i]
  OBVIOUS
<1> HIDE DEF t
<1>2. Bills(t) = Bills(s) + Bill(t[Len(t)]) /\ Bills(s) \in Nat
  BY <1>1, BillsNext
<1> QED
  BY <1>1, <1>2 DEF t

LEMMA BillsPopped ==
  ASSUME NEW s \in Seq(Frame), Len(s) > 0
  PROVE  /\ Bills(s) = Bills(Popped(s)) + Bill(s[Len(s)])
         /\ Bills(Popped(s)) \in Nat /\ Bill(s[Len(s)]) \in Nat
<1> DEFINE t == Popped(s)
           l == Len(s) - 1
<1>0. l \in Nat /\ Len(s) = l + 1
  OBVIOUS
<1>1. /\ t \in Seq(Frame) /\ Len(s) = Len(t) + 1
      /\ \A i \in 1 .. Len(t) : s[i] = t[i]
  BY <1>0 DEF Popped
<1> HIDE DEF t, l
<1>2. Bills(s) = Bills(t) + Bill(s[Len(s)]) /\ Bills(t) \in Nat
  BY <1>1, BillsNext
<1>3. s[Len(s)] \in Frame
  OBVIOUS
<1> QED
  BY <1>2, <1>3, BillType DEF t

\* The ceiling moves no byte, whoever moves it.
LEMMA CeilingOnly ==
  ASSUME NEW a \in Ledgers, NEW m \in Size, NEW c \in Collector
  PROVE  /\ Lifted(a).usage = a.usage /\ Lifted(a).charged = a.charged
         /\ Restored(a, m).usage = a.usage /\ Restored(a, m).charged = a.charged
         /\ Limited(a, m, c).usage = a.usage /\ Limited(a, m, c).charged = a.charged
<1>1. Lifted(a).usage = a.usage /\ Lifted(a).charged = a.charged
  BY DEF Lifted, Ledgers
<1>2. Restored(a, m).usage = a.usage /\ Restored(a, m).charged = a.charged
  BY DEF Restored, Ledgers
<1> DEFINE new == [a EXCEPT !.limit = m]
<1>3. new \in Ledgers /\ new.usage = a.usage /\ new.charged = a.charged
  BY DEF Ledgers
<1>4. Limited(a, m, c) = Tuned(new, c)
  BY DEF Limited
<1> HIDE DEF new
<1> QED
  BY <1>1, <1>2, <1>3, <1>4, TunedFacts

\* What a step leaves is what `led` and `s` had.
Pays(led, s) ==
  alloc'.usage = led.usage /\ alloc'.charged = led.charged /\ Bills(stack') = Bills(s)

LEMMA BooksKept ==
  ASSUME Books, UNCHANGED <<blocks, charges, buffered>>, out'.cap = out.cap,
         Pays(alloc, stack)
  PROVE  Books'
BY DEF Books, Pays

LEMMA BlankBill ==
  /\ \A k \in Kinds \ {"call"} : Bill([Blank EXCEPT !.kind = k]) = 0
  /\ Bill(Blank) = 0 /\ \A p \in Purposes : Bill(FlushFor(p)) = 0
BY DEF Bill, Blank, FlushFor

LEMMA ToHostPays ==
  ASSUME NEW stk, NEW led, NEW m, Good(stk, led, m), Len(stk) > 0,
         stk[Len(stk)].kind # "call", ToHost(stk, led)
  PROVE  Pays(led, stk)
<1> DEFINE rest == Popped(stk)
           sweep == [Blank EXCEPT !.kind = "sweep"]
<1>1. stk \in Seq(Frame) /\ stk[Len(stk)] \in Frame
  BY DEF Good
<1>2. Bills(stk) = Bills(rest) + Bill(stk[Len(stk)]) /\ Bills(rest) \in Nat
  BY <1>1, BillsPopped
<1>3. Bill(stk[Len(stk)]) = 0
  BY <1>1, BillType
<1>4. sweep \in Frame /\ Bill(sweep) = 0
  BY BlankFacts, BlankBill DEF Kinds
<1>5. stack' = Append(rest, sweep) \/ stack' = rest
  BY DEF ToHost
<1>6. rest \in Seq(Frame)
  <2>1. Ladder(stk, m)
    BY DEF Good
  <2> QED
    BY <1>1, <2>1, PopFacts
<1>7. alloc' = led
  BY DEF ToHost
<1> HIDE DEF rest, sweep
<1>8. Bills(Append(rest, sweep)) = Bills(rest)
  BY <1>2, <1>4, <1>6, BillsPushed
<1>9. Bills(stk) = Bills(rest)
  BY <1>2, <1>3
<1>10. CASE stack' = rest
  BY <1>7, <1>9, <1>10 DEF Pays
<1>11. CASE stack' = Append(rest, sweep)
  BY <1>7, <1>8, <1>9, <1>11 DEF Pays
<1> QED
  BY <1>5, <1>10, <1>11

LEMMA ReportPays ==
  ASSUME NEW stk, NEW led, NEW m, Good(stk, led, m), Len(stk) > 0,
         stk[Len(stk)].kind = "report",
         ToHost(Popped(stk), Restored(led, stk[Len(stk)].saved))
  PROVE  Pays(led, stk)
<1> DEFINE n == Len(stk)
           rest == Popped(stk)
           saved == stk[n].saved
           back == Restored(led, saved)
<1>1. /\ stk \in Seq(Frame) /\ Ladder(stk, m) /\ n \in Nat /\ n > 0
      /\ led \in Ledgers /\ Synced(led) /\ stk[n] \in Frame
  BY DEF Good
<1>2. /\ rest \in Seq(Frame) /\ Len(rest) = n - 1 /\ Ladder(rest, m)
      /\ \A i \in 1 .. n - 1 : rest[i] = stk[i]
  BY <1>1, PopFacts
<1>3. n # 1 /\ stk[n - 1].kind = "script"
  BY <1>1 DEF Ladder, Rung, OnHost, OnFrame
<1>4. saved \in Size
  BY <1>1 DEF Frame
<1>5. back.usage = led.usage /\ back.charged = led.charged
  BY <1>1, <1>4, CeilingOnly, GcIs
<1>6. Bills(stk) = Bills(rest)
  <2>1. Bills(stk) = Bills(rest) + Bill(stk[n]) /\ Bills(rest) \in Nat
    BY <1>1, BillsPopped
  <2>2. Bill(stk[n]) = 0
    BY <1>1, BillType
  <2> QED
    BY <2>1, <2>2
<1>7. ToHost(rest, back)
  OBVIOUS
<1> DEFINE top == rest[Len(rest)]
           sweep == [Blank EXCEPT !.kind = "sweep"]
           low == Popped(rest)
<1>8. Len(rest) > 0 /\ top.kind = "script" /\ top \in Frame
  BY <1>1, <1>2, <1>3
<1>9. Bills(rest) = Bills(low) + Bill(top) /\ Bills(low) \in Nat
  BY <1>2, <1>8, BillsPopped
<1>10. Bill(top) = 0
  BY <1>8, BillType
<1>11. sweep \in Frame /\ Bill(sweep) = 0
  BY BlankFacts, BlankBill DEF Kinds
<1>12. (stack' = Append(low, sweep) \/ stack' = low) /\ alloc' = back
  BY <1>7 DEF ToHost
<1>13. low \in Seq(Frame)
  BY <1>2, <1>8, PopFacts
<1> HIDE DEF low, top, rest, back, n, sweep
<1>14. Bills(Append(low, sweep)) = Bills(low)
  BY <1>9, <1>11, <1>13, BillsPushed
<1>15. Bills(stack') = Bills(stk)
  <2>1. Bills(stk) = Bills(low)
    BY <1>6, <1>9, <1>10
  <2>2. CASE stack' = low
    BY <2>1, <2>2
  <2>3. CASE stack' = Append(low, sweep)
    BY <2>1, <2>3, <1>14
  <2> QED
    BY <1>12, <2>2, <2>3
<1> QED
  BY <1>5, <1>12, <1>15 DEF Pays

LEMMA RaisePays ==
  ASSUME NEW stk, NEW led, NEW m, NEW pend, NEW fatal,
         Good(stk, led, m), Len(stk) > 0, Raise(stk, led, pend, fatal)
  PROVE  Pays(led, stk)
<1> DEFINE n == Len(stk)
           report == [Blank EXCEPT !.kind = "report", !.saved = led.limit]
<1>1. /\ stk \in Seq(Frame) /\ n \in Nat /\ n > 0 /\ stk[n] \in Frame
      /\ led \in Ledgers /\ led.limit \in Size
  BY DEF Good, Ledgers
<1>2. CASE stack' = stk /\ alloc' = led
  BY <1>2 DEF Pays
<1>3. CASE stk[n].kind = "finaliser" /\ stack' = Popped(stk) /\ alloc' = led
  <2>1. Bills(stk) = Bills(Popped(stk)) + Bill(stk[n]) /\ Bills(Popped(stk)) \in Nat
    BY <1>1, BillsPopped
  <2>2. Bill(stk[n]) = 0
    BY <1>1, <1>3, BillType
  <2> QED
    BY <1>3, <2>1, <2>2 DEF Pays
<1>4. CASE stk[n].kind = "report" /\ ToHost(Popped(stk), Restored(led, stk[n].saved))
  BY <1>4, ReportPays
<1>5. CASE stack' = Append(stk, report) /\ alloc' = Lifted(led)
  <2>1. report \in Frame /\ report.kind = "report"
    <3>1. Blank \in Frame /\ "report" \in Kinds
      BY BlankFacts DEF Kinds
    <3> QED
      BY <1>1, <3>1 DEF Frame
  <2> HIDE DEF report
  <2>2. Bill(report) = 0
    BY <2>1, BillType
  <2>3. Bills(Append(stk, report)) = Bills(stk)
    BY <1>1, <2>1, <2>2, BillsPushed
  <2> QED
    BY <1>1, <1>5, <2>3, CeilingOnly, GcIs DEF Pays
<1> QED
  BY <1>2, <1>3, <1>4, <1>5 DEF Raise

LEMMA OutOfMemoryPays ==
  ASSUME NEW stk, NEW led, NEW m, Good(stk, led, m), Len(stk) > 0,
         OutOfMemory(stk, led)
  PROVE  Pays(led, stk)
<1>1. CASE Raise(stk, led, pending, TRUE)
  BY <1>1, RaisePays
<1>2. CASE stk[Len(stk)].kind = "script" /\ ToHost(stk, led)
  BY <1>2, ToHostPays
<1> QED
  BY <1>1, <1>2 DEF OutOfMemory

\* What is held is there to be given back.
LEMMA BooksCover ==
  ASSUME IInv, Books
  PROVE  /\ out.cap \in Nat /\ buffered \in Nat /\ Bills(stack) \in Nat
         /\ alloc \in Ledgers /\ alloc.usage \in Nat /\ alloc.charged \in Nat
         /\ out.cap <= alloc.charged /\ buffered <= alloc.charged
         /\ Bills(stack) <= alloc.charged
<1>1. /\ out.cap \in Nat /\ buffered \in Nat /\ alloc \in Ledgers
      /\ alloc.charged \in Nat /\ stack \in Seq(Frame) /\ blocks \in [Blocks -> Nat]
  BY DEF IInv, Typed, Good, OutputSink, Ledgers
<1>2. Bills(stack) \in Nat
  <2>1. IsFiniteSet(1 .. Len(stack))
    <3>1. \A n \in Nat : IsFiniteSet(1 .. n)
      BY FS_Interval
    <3> QED
      BY <1>1, <3>1
  <2> DEFINE S == 1 .. Len(stack)
             f == [i \in S |-> Bill(stack[i])]
  <2>2. Bills(stack) = SumFunctionOnSet(f, S)
    BY <1>1, BillsAre
  <2>3. \A i \in S : f[i] \in Nat
    BY <1>1, BillsAre
  <2> HIDE DEF f, S
  <2> QED
    BY <2>1, <2>2, <2>3, SumNatural DEF S
<1>3. alloc.usage \in Nat
  <2>1. SumFunction(blocks) = SumFunctionOnSet(blocks, Blocks)
    BY <1>1, SumOfAll
  <2>2. SumFunctionOnSet(blocks, Blocks) \in Nat
    BY <1>1, MemoryAssumption, SumNatural
  <2> QED
    BY <2>1, <2>2 DEF Books
<1>4. alloc.charged = out.cap + buffered + Bills(stack)
  BY DEF Books
<1> QED
  BY <1>1, <1>2, <1>3, <1>4

\* One block or one file changes, and the sum with it.
LEMMA SumMoved ==
  ASSUME NEW S, IsFiniteSet(S), NEW f \in [S -> Nat], NEW a \in S, NEW n \in Nat
  PROVE  /\ SumFunction([f EXCEPT ![a] = n]) = SumFunction(f) - f[a] + n
         /\ SumFunction(f) \in Nat /\ f[a] <= SumFunction(f)
<1> DEFINE g == [f EXCEPT ![a] = n]
<1>1. g \in [S -> Nat] /\ g[a] = n /\ \A x \in S : x # a => g[x] = f[x]
  OBVIOUS
<1>2. \A x \in S : f[x] \in Int /\ g[x] \in Int
  BY <1>1
<1>3. DOMAIN f = S /\ DOMAIN g = S
  OBVIOUS
<1> HIDE DEF g
<1>4. SumFunctionOnSet(g, S) = SumFunctionOnSet(f, S) - f[a] + g[a]
  BY <1>1, <1>2, SumUpdated
<1>5. SumFunctionOnSet(f, S) \in Nat /\ f[a] <= SumFunctionOnSet(f, S)
  BY SumNatural, TermWithinSum
<1>6. SumFunction(f) = SumFunctionOnSet(f, S) /\ SumFunction(g) = SumFunctionOnSet(g, S)
  BY <1>3, SumOfAll
<1> QED
  BY <1>1, <1>4, <1>5, <1>6 DEF g

\* Only a host call has a bill.
LEMMA FreeOfBills ==
  ASSUME NEW s \in Seq(Frame)
  PROVE  /\ \A f \in Frame : f.kind # "call" => Bills(Append(s, f)) = Bills(s)
         /\ Len(s) > 0 /\ s[Len(s)].kind # "call" => Bills(Popped(s)) = Bills(s)
<1>1. ASSUME NEW f \in Frame, f.kind # "call" PROVE Bills(Append(s, f)) = Bills(s)
  <2>1. Bills(Append(s, f)) = Bills(s) + Bill(f) /\ Bills(s) \in Nat /\ Bill(f) = 0
    BY <1>1, BillsPushed, BillType
  <2> QED
    BY <2>1
<1>2. ASSUME Len(s) > 0, s[Len(s)].kind # "call" PROVE Bills(Popped(s)) = Bills(s)
  <2>1. s[Len(s)] \in Frame
    BY <1>2
  <2>2. /\ Bills(s) = Bills(Popped(s)) + Bill(s[Len(s)]) /\ Bills(Popped(s)) \in Nat
        /\ Bill(s[Len(s)]) = 0
    BY <2>1, <1>2, BillsPopped, BillType
  <2> QED
    BY <2>2
<1> QED
  BY <1>1, <1>2

LEMMA FramesBooks ==
  ASSUME IInv, Books, Enter \/ GetOutput \/ Finalise \/ FinaliserReturn \/ SweepDone
                      \/ EmitReturn \/ Close \/ Write
  PROVE  Books'
<1>1. stack \in Seq(Frame)
  BY DEF IInv, Good
<1>2. UNCHANGED <<alloc, blocks, charges, buffered, out>>
  BY DEF Enter, GetOutput, Finalise, FinaliserReturn, SweepDone, EmitReturn, Close, Write
<1>3. SUFFICES Bills(stack') = Bills(stack)
  BY <1>2, BooksKept DEF Pays
<1>4. CASE Enter
  <2>1. stack' = Append(stack, Blank) /\ Blank \in Frame /\ Blank.kind # "call"
    BY <1>4, BlankFacts DEF Enter, Push, Blank
  <2> QED
    BY <1>1, <2>1, FreeOfBills
<1>5. CASE GetOutput
  <2> DEFINE f == [Blank EXCEPT !.kind = "flush", !.purpose = "get"]
  <2>1. f \in Frame /\ f.kind # "call" /\ stack' = Append(stack, f)
    BY <1>5, BlankFacts DEF FlushFor, Purposes, GetOutput, Push, Blank
  <2> HIDE DEF f
  <2> QED
    BY <1>1, <2>1, FreeOfBills
<1>6. CASE Finalise
  <2> DEFINE f == [Blank EXCEPT !.kind = "finaliser"]
  <2>1. f \in Frame /\ f.kind # "call" /\ stack' = Append(stack, f)
    BY <1>6, BlankFacts DEF Kinds, Finalise, Push, Blank
  <2> HIDE DEF f
  <2> QED
    BY <1>1, <2>1, FreeOfBills
<1>7. CASE FinaliserReturn \/ SweepDone \/ EmitReturn
  <2>1. stack' = Popped(stack) /\ Len(stack) > 0 /\ stack[Len(stack)].kind # "call"
    BY <1>7 DEF FinaliserReturn, SweepDone, EmitReturn, TopIs, Top, Depth
  <2> QED
    BY <1>1, <2>1, FreeOfBills
<1>8. CASE Close
  <2> DEFINE f == [Blank EXCEPT !.kind = "flush", !.purpose = "close"]
  <2>1. f \in Frame /\ f.kind # "call" /\ stack' = <<f>> /\ stack = <<>>
    BY <1>8, BlankFacts DEF FlushFor, Purposes, Close, Blank
  <2> HIDE DEF f
  <2>2. stack' = Append(stack, f)
    BY <2>1
  <2> QED
    BY <1>1, <2>1, <2>2, FreeOfBills
<1>9. CASE Write
  <2>1. PICK n \in 1 .. MaxWrite, err, nl \in BOOLEAN :
         LET write == [Blank EXCEPT !.kind = "write", !.purpose = "channel",
                                    !.n = n, !.err = err, !.nl = nl]
         IN  stack' = IF err # out.isErr /\ out.buf # <<>>
                        THEN Append(Push(write), FlushFor("channel"))
                        ELSE Push(write)
    BY <1>9 DEF Write
  <2> DEFINE w == [Blank EXCEPT !.kind = "write", !.purpose = "channel",
                                !.n = n, !.err = err, !.nl = nl]
             f == FlushFor("channel")
             s == Append(stack, w)
  <2>2. w \in Frame /\ w.kind # "call"
    <3>1. Blank \in Frame /\ "write" \in Kinds /\ "channel" \in Purposes /\ n \in Nat
      BY BlankFacts, MemoryAssumption DEF Kinds, Purposes
    <3> QED
      BY <3>1 DEF Frame
  <2>3. f \in Frame /\ f.kind # "call"
    BY BlankFacts DEF Purposes, FlushFor, Blank
  <2>4. stack' = s \/ stack' = Append(s, f)
    BY <2>1 DEF Push
  <2>5. s \in Seq(Frame)
    BY <1>1, <2>2
  <2>6. Bills(s) = Bills(stack)
    BY <1>1, <2>2, FreeOfBills
  <2> HIDE DEF s, w, f
  <2>7. Bills(Append(s, f)) = Bills(s)
    BY <2>3, <2>5, FreeOfBills
  <2>8. CASE stack' = s
    BY <2>6, <2>8
  <2>9. CASE stack' = Append(s, f)
    BY <2>6, <2>7, <2>9
  <2> QED
    BY <2>4, <2>8, <2>9
<1> QED
  BY <1>4, <1>5, <1>6, <1>7, <1>8, <1>9

\* An error gives back what it gives back before it is raised.
LEMMA ErrorBooks ==
  ASSUME IInv, Books, Fail \/ Return \/ ReportReturn \/ Written
  PROVE  Books'
<1>1. /\ Good(stack, alloc, policy.memory) /\ stack \in Seq(Frame)
      /\ policy.memory \in Size /\ pending \in BOOLEAN
  BY DEF IInv, Good, Typed
<1>2. UNCHANGED <<blocks, out>>
  BY DEF Fail, Return, ReportReturn, Written
<1>3. CASE Fail
  <2>1. Len(stack) > 0 /\ Raise(stack, alloc, pending, FALSE)
    BY <1>3 DEF Fail, InLua, TopIs, Depth
  <2>2. Pays(alloc, stack)
    BY <1>1, <2>1, RaisePays
  <2>3. UNCHANGED <<charges, buffered>>
    BY <1>1, <2>1, RaiseGood, Zenon
  <2> QED
    BY <1>2, <2>2, <2>3, BooksKept
<1>4. CASE Return
  <2>1. /\ Len(stack) > 0 /\ stack[Len(stack)].kind \notin {"call", "report"}
        /\ ToHost(stack, alloc)
    BY <1>4 DEF Return, TopIs, Top, Depth
  <2>2. Pays(alloc, stack)
    BY <1>1, <2>1, ToHostPays
  <2>3. UNCHANGED <<charges, buffered>>
    BY <2>1 DEF ToHost
  <2> QED
    BY <1>2, <2>2, <2>3, BooksKept
<1>5. CASE ReportReturn
  <2>1. /\ Len(stack) > 0 /\ stack[Len(stack)].kind = "report"
        /\ ToHost(Popped(stack), Restored(alloc, stack[Len(stack)].saved))
    BY <1>5 DEF ReportReturn, TopIs, Top, Depth
  <2>2. Pays(alloc, stack)
    BY <1>1, <2>1, ReportPays
  <2>3. UNCHANGED <<charges, buffered>>
    BY <2>1 DEF ToHost
  <2> QED
    BY <1>2, <2>2, <2>3, BooksKept
<1>6. CASE Written
  <2>1. Len(stack) > 0 /\ stack[Len(stack)].kind = "write"
    BY <1>6 DEF Written, TopIs, Top, Depth
  <2>2. Good(Popped(stack), alloc, policy.memory) /\ Len(Popped(stack)) > 0
    BY <1>1, <2>1, ScriptBeneath
  <2>3. Bills(Popped(stack)) = Bills(stack)
    BY <1>1, <2>1, FreeOfBills
  <2>4. \/ Raise(Popped(stack), alloc, pending, TRUE)
        \/ stack' = Popped(stack) /\ UNCHANGED <<alloc, charges, buffered>>
    BY <1>6 DEF Written
  <2>5. CASE Raise(Popped(stack), alloc, pending, TRUE)
    <3>1. Pays(alloc, Popped(stack))
      BY <2>2, <2>5, RaisePays
    <3>2. UNCHANGED <<charges, buffered>>
      BY <1>1, <2>2, <2>5, RaiseGood, Zenon
    <3> QED
      BY <1>2, <2>3, <3>1, <3>2, BooksKept DEF Pays
  <2>6. CASE stack' = Popped(stack) /\ UNCHANGED <<alloc, charges, buffered>>
    BY <1>2, <2>3, <2>6, BooksKept DEF Pays
  <2> QED
    BY <2>4, <2>5, <2>6
<1> QED
  BY <1>3, <1>4, <1>5, <1>6

LEMMA SettledExact ==
  ASSUME NEW led \in Ledgers, NEW call \in Frame, call.params + call.content <= led.charged
  PROVE  /\ Settled(led, call).usage = led.usage
         /\ Settled(led, call).charged = led.charged - (call.params + call.content)
<1> DEFINE p == call.params
           c == call.content
           mid == IF c > 0 THEN Discharged(led, c, Gc) ELSE led
<1>1. p \in Nat /\ c \in Nat /\ led.charged \in Nat /\ c <= led.charged
  BY DEF Frame, Ledgers
<1>2. Settled(led, call) = Discharged(mid, p, Gc) /\ p + c <= led.charged
  BY DEF Settled
<1> HIDE DEF p, c
<1>3. mid \in Ledgers /\ mid.usage = led.usage /\ mid.charged = led.charged - c
  <2>1. CASE c > 0
    BY <2>1, <1>1, GcIs, DischargedFacts
  <2>2. CASE ~(c > 0)
    BY <2>2, <1>1
  <2> QED
    BY <2>1, <2>2
<1> HIDE DEF mid
<1>4. p <= mid.charged
  BY <1>1, <1>2, <1>3
<1>5. /\ Discharged(mid, p, Gc).usage = mid.usage
      /\ Discharged(mid, p, Gc).charged = mid.charged - p
  BY <1>1, <1>3, <1>4, GcIs, DischargedFacts
<1>6. Discharged(mid, p, Gc).charged = led.charged - (p + c)
  BY <1>1, <1>3, <1>5
<1> QED
  BY <1>2, <1>3, <1>5, <1>6 DEF p, c

LEMMA OutputBooks ==
  ASSUME IInv, Books, SetLimits \/ TakeOutput
  PROVE  Books'
<1>1. /\ alloc \in Ledgers /\ out.cap \in Nat /\ out.cap <= alloc.charged
      /\ out \in OutputSink /\ buffered \in Nat /\ Bills(stack) \in Nat
      /\ alloc.charged \in Nat
  BY BooksCover DEF IInv, Typed
<1>2. CASE SetLimits
  <2>1. PICK m \in MemoryLimits, o \in OutputLimits, f \in Overflows :
          alloc' = Limited(alloc, m, Gc) /\ out' = [out EXCEPT !.limit = o]
    BY <1>2 DEF SetLimits
  <2>2. UNCHANGED <<blocks, charges, buffered, stack>>
    BY <1>2 DEF SetLimits
  <2>3. out'.cap = out.cap
    BY <1>1, <2>1 DEF OutputSink
  <2>4. alloc'.usage = alloc.usage /\ alloc'.charged = alloc.charged
    BY <1>1, <2>1, MemoryAssumption, GcIs, CeilingOnly
  <2> QED
    BY <2>2, <2>3, <2>4, BooksKept DEF Pays
<1>3. CASE TakeOutput
  <2>1. /\ alloc' = Discharged(alloc, out.cap, Gc)
        /\ out' = [out EXCEPT !.buf = <<>>, !.cap = 0, !.written = 0]
        /\ UNCHANGED <<blocks, charges, buffered, stack>>
    BY <1>3 DEF TakeOutput
  <2>2. out'.cap = 0
    BY <1>1, <2>1 DEF OutputSink
  <2>3. alloc'.usage = alloc.usage /\ alloc'.charged = alloc.charged - out.cap
    BY <1>1, <2>1, GcIs, DischargedFacts
  <2>4. alloc.charged = out.cap + buffered + Bills(stack)
    BY DEF Books
  <2>5. alloc'.charged = out'.cap + buffered + Bills(stack)
    BY <1>1, <2>2, <2>3, <2>4
  <2> QED
    BY <2>1, <2>3, <2>5 DEF Books
<1> QED
  BY <1>2, <1>3

LEMMA GrowBooks ==
  ASSUME IInv, Books, Grow
  PROVE  Books'
<1>1. PICK b \in Blocks, bytes \in 1 .. MaxBlock :
        \/ /\ blocks' = [blocks EXCEPT ![b] = @ + bytes]
           /\ alloc' = Grown(alloc, bytes, Gc)
           /\ UNCHANGED <<charges, buffered, stack, pending>>
        \/ OutOfMemory(stack, alloc) /\ UNCHANGED blocks
  BY DEF Grow
<1>2. out' = out /\ Len(stack) > 0
  BY DEF Grow, InLua, TopIs, Depth
<1>3. /\ Good(stack, alloc, policy.memory) /\ alloc \in Ledgers
      /\ blocks \in [Blocks -> Nat] /\ policy.memory \in Size /\ pending \in BOOLEAN
      /\ bytes \in Nat
  BY MemoryAssumption DEF IInv, Good, Typed
<1>4. CASE /\ blocks' = [blocks EXCEPT ![b] = @ + bytes]
           /\ alloc' = Grown(alloc, bytes, Gc)
           /\ UNCHANGED <<charges, buffered, stack, pending>>
  <2>1. alloc'.usage = alloc.usage + bytes /\ alloc'.charged = alloc.charged
    BY <1>3, <1>4, GcIs, GrownFacts
  <2> DEFINE n == blocks[b] + bytes
  <2>2. blocks' = [blocks EXCEPT ![b] = n] /\ n \in Nat /\ blocks[b] \in Nat
    BY <1>3, <1>4
  <2>3. n = blocks[b] + bytes
    OBVIOUS
  <2> HIDE DEF n
  <2>4. SumFunction(blocks') = SumFunction(blocks) - blocks[b] + n
        /\ SumFunction(blocks) \in Nat
    BY <1>3, <2>2, MemoryAssumption, SumMoved
  <2>5. alloc'.usage = SumFunction(blocks')
    BY <1>3, <2>1, <2>2, <2>3, <2>4 DEF Books
  <2> QED
    BY <1>2, <1>4, <2>1, <2>5 DEF Books
<1>5. CASE OutOfMemory(stack, alloc) /\ UNCHANGED blocks
  <2>1. Pays(alloc, stack)
    BY <1>2, <1>3, <1>5, OutOfMemoryPays
  <2>2. UNCHANGED <<charges, buffered>>
    BY <1>2, <1>3, <1>5, OutOfMemoryGood, Zenon
  <2> QED
    BY <1>2, <1>5, <2>1, <2>2, BooksKept
<1> QED
  BY <1>1, <1>4, <1>5

LEMMA ShrinkBooks ==
  ASSUME IInv, Books, Shrink
  PROVE  Books'
<1>1. PICK b \in Blocks : \E left \in 0 .. blocks[b] - 1 :
        /\ blocks' = [blocks EXCEPT ![b] = left]
        /\ alloc' = Shrunk(alloc, blocks[b] - left)
  BY DEF Shrink
<1>2. PICK left \in 0 .. blocks[b] - 1 :
        /\ blocks' = [blocks EXCEPT ![b] = left]
        /\ alloc' = Shrunk(alloc, blocks[b] - left)
  BY <1>1
<1>3. UNCHANGED <<charges, buffered, out, stack>>
  BY DEF Shrink
<1>4. alloc \in Ledgers /\ blocks \in [Blocks -> Nat] /\ blocks[b] \in Nat
  BY DEF IInv, Good, Typed
<1>5. left \in Nat
  BY <1>4
<1> DEFINE freed == blocks[b] - left
<1>6. freed \in Int /\ alloc' = Shrunk(alloc, freed)
  BY <1>2, <1>4, <1>5
<1>7. freed = blocks[b] - left
  OBVIOUS
<1> HIDE DEF freed
<1>8. alloc'.usage = alloc.usage - freed /\ alloc'.charged = alloc.charged
  BY <1>4, <1>6, ShrunkFacts
<1>9. SumFunction(blocks') = SumFunction(blocks) - blocks[b] + left
      /\ SumFunction(blocks) \in Nat
  BY <1>2, <1>4, <1>5, MemoryAssumption, SumMoved
<1>10. alloc'.usage = SumFunction(blocks')
  BY <1>4, <1>5, <1>6, <1>7, <1>8, <1>9 DEF Books
<1> QED
  BY <1>3, <1>8, <1>10 DEF Books

LEMMA FileBooks ==
  ASSUME IInv, Books, BufferFile \/ CloseFile
  PROVE  Books'
<1>1. /\ Good(stack, alloc, policy.memory) /\ alloc \in Ledgers /\ alloc.charged \in Nat
      /\ charges \in [Handles -> Nat] /\ buffered \in Nat /\ pending \in BOOLEAN
      /\ policy.memory \in Size
      /\ out.cap \in Nat /\ Bills(stack) \in Nat /\ buffered <= alloc.charged
      /\ alloc.charged = out.cap + buffered + Bills(stack)
      /\ buffered = SumFunction(charges)
  BY BooksCover DEF IInv, Good, Typed, Books
<1>2. UNCHANGED <<blocks, out>>
  BY DEF BufferFile, CloseFile
<1>a. charges \in [Handles -> Nat] /\ IsFiniteSet(Handles) /\ 0 \in Nat
  BY <1>1, MemoryAssumption
<1>3. CASE BufferFile
  <2>1. PICK h \in Handles, bytes \in 1 .. MaxBlock :
         IF (QuotaBytes # 0 /\ bytes > QuotaBytes - buffered) \/ ~Fits(alloc, bytes)
           THEN Raise(stack, alloc, pending, TRUE)
           ELSE /\ charges[h] + bytes <= MaxBlock
                /\ alloc' = Charged(alloc, bytes, Gc)
                /\ charges' = [charges EXCEPT ![h] = @ + bytes]
                /\ buffered' = buffered + bytes
                /\ UNCHANGED <<stack, pending>>
    BY <1>3 DEF BufferFile
  <2>2. Len(stack) > 0
    BY <1>3 DEF BufferFile, InLua, TopIs, Depth
  <2>3. bytes \in Nat /\ charges[h] \in Nat
    BY <1>1, MemoryAssumption
  <2>4. CASE Raise(stack, alloc, pending, TRUE)
    <3>1. Pays(alloc, stack)
      BY <1>1, <2>2, <2>4, RaisePays
    <3>2. UNCHANGED <<charges, buffered>>
      BY <1>1, <2>2, <2>4, RaiseGood, Zenon
    <3> QED
      BY <1>2, <3>1, <3>2, BooksKept
  <2>5. CASE /\ alloc' = Charged(alloc, bytes, Gc)
             /\ charges' = [charges EXCEPT ![h] = @ + bytes]
             /\ buffered' = buffered + bytes
             /\ UNCHANGED <<stack, pending>>
    <3>1. alloc'.usage = alloc.usage /\ alloc'.charged = alloc.charged + bytes
      BY <1>1, <2>3, <2>5, GcIs, ChargedFacts
    <3> DEFINE n == charges[h] + bytes
    <3>2. charges' = [charges EXCEPT ![h] = n] /\ n \in Nat
      BY <2>3, <2>5
    <3>3. n = charges[h] + bytes
      OBVIOUS
    <3> HIDE DEF n
    <3>4. SumFunction(charges') = SumFunction(charges) - charges[h] + n
      BY <1>a, <3>2, SumMoved
    <3>5. buffered' = SumFunction(charges')
      BY <1>1, <2>3, <2>5, <3>3, <3>4
    <3>6. alloc'.charged = out.cap + buffered' + Bills(stack)
      BY <1>1, <2>3, <2>5, <3>1
    <3> QED
      BY <1>2, <2>5, <3>1, <3>5, <3>6 DEF Books
  <2> QED
    BY <2>1, <2>4, <2>5
<1>4. CASE CloseFile
  <2>1. PICK h \in Handles :
          /\ buffered' = buffered - IF charges[h] > buffered THEN buffered ELSE charges[h]
          /\ alloc' = Discharged(alloc, IF charges[h] > buffered THEN buffered
                                                                ELSE charges[h], Gc)
          /\ charges' = [charges EXCEPT ![h] = 0]
    BY <1>4 DEF CloseFile
  <2>2. stack' = stack
    BY <1>4 DEF CloseFile
  <2>3. /\ SumFunction(charges') = SumFunction(charges) - charges[h] + 0
        /\ charges[h] <= SumFunction(charges)
    <3>1. charges' = [charges EXCEPT ![h] = 0]
      BY <2>1
    <3> QED
      BY <1>a, <3>1, SumMoved
  <2> DEFINE held == charges[h]
  <2>4. held \in Nat /\ held <= buffered
    BY <1>1, <2>3
  <2>5. buffered' = buffered - held /\ alloc' = Discharged(alloc, held, Gc)
    BY <1>1, <2>1, <2>4
  <2>6. SumFunction(charges') = buffered - held
    BY <1>1, <2>3, <2>4
  <2> HIDE DEF held
  <2>7. held <= alloc.charged
    BY <1>1, <2>4
  <2>8. alloc'.usage = alloc.usage /\ alloc'.charged = alloc.charged - held
    BY <1>1, <2>4, <2>5, <2>7, GcIs, DischargedFacts
  <2>9. alloc'.charged = out.cap + buffered' + Bills(stack)
    BY <1>1, <2>4, <2>5, <2>8
  <2> QED
    BY <1>2, <2>2, <2>5, <2>6, <2>8, <2>9 DEF Books
<1> QED
  BY <1>3, <1>4

\* The bill of the host call on top.
LEMMA TopBill ==
  ASSUME IInv, Books, Len(stack) > 0, stack[Len(stack)].kind = "call"
  PROVE  /\ Top \in Frame /\ Top = stack[Len(stack)]
         /\ Bill(Top) = Top.params + Top.content
         /\ Bills(stack) = Bills(Popped(stack)) + Bill(Top)
         /\ Bills(Popped(stack)) \in Nat /\ Bill(Top) \in Nat
         /\ Bill(Top) <= alloc.charged
<1>1. stack \in Seq(Frame) /\ Top = stack[Len(stack)] /\ Top \in Frame
  BY DEF IInv, Good, Top, Depth
<1>2. Bills(stack) = Bills(Popped(stack)) + Bill(Top)
      /\ Bills(Popped(stack)) \in Nat /\ Bill(Top) \in Nat
  BY <1>1, BillsPopped
<1>3. Bills(stack) <= alloc.charged /\ alloc.charged \in Nat
  BY BooksCover
<1>4. Bill(Top) = Top.params + Top.content
  BY <1>1 DEF Bill
<1> QED
  BY <1>1, <1>2, <1>3, <1>4

\* A call that ends gives back its bill, on top of whatever its result took.
LEMMA SettledBooks ==
  ASSUME IInv, Books, Len(stack) > 0, stack[Len(stack)].kind = "call",
         NEW led \in Ledgers, led.charged = alloc.charged,
         UNCHANGED <<charges, buffered>>, out' = out,
         Pays(Settled(led, Top), Popped(stack)), led.usage = SumFunction(blocks')
  PROVE  Books'
<1>1. /\ Top \in Frame /\ Bill(Top) = Top.params + Top.content
      /\ Bills(stack) = Bills(Popped(stack)) + Bill(Top)
      /\ Bills(Popped(stack)) \in Nat /\ Bill(Top) \in Nat
      /\ Bill(Top) <= alloc.charged
  BY TopBill
<1>2. /\ Settled(led, Top).usage = led.usage
      /\ Settled(led, Top).charged = led.charged - Bill(Top)
  BY <1>1, SettledExact
<1>3. /\ alloc.charged = out.cap + buffered + Bills(stack)
      /\ out.cap \in Nat /\ buffered \in Nat
  BY BooksCover DEF Books
<1>4. led.charged - Bill(Top) = out.cap + buffered + Bills(Popped(stack))
  BY <1>1, <1>3
<1>5. /\ alloc'.charged = out.cap + buffered + Bills(Popped(stack))
      /\ Bills(stack') = Bills(Popped(stack)) /\ alloc'.usage = led.usage
  BY <1>2, <1>4 DEF Pays
<1>6. buffered = SumFunction(charges)
  BY DEF Books
<1> QED
  BY <1>5, <1>6 DEF Books

LEMMA CallEndsBooks ==
  ASSUME IInv, Books, CallReturn \/ CallThrow
  PROVE  Books'
<1>1. /\ Good(stack, alloc, policy.memory) /\ alloc \in Ledgers /\ Synced(alloc)
      /\ blocks \in [Blocks -> Nat] /\ policy.memory \in Size /\ pending \in BOOLEAN
      /\ stack \in Seq(Frame) /\ alloc.usage = SumFunction(blocks)
  BY DEF IInv, Good, Typed, Books
<1>2. out' = out /\ Len(stack) > 0 /\ stack[Len(stack)].kind = "call" /\ Top \in Frame
  <2>1. out' = out /\ Len(stack) > 0 /\ stack[Len(stack)].kind = "call"
    BY DEF CallReturn, CallThrow, TopIs, Top, Depth
  <2> QED
    BY <2>1, TopBill
<1>3. Good(Popped(stack), alloc, policy.memory) /\ Len(Popped(stack)) > 0
  BY <1>1, <1>2, ScriptBeneath
<1> DEFINE led == Settled(alloc, Top)
<1>4. led \in Ledgers /\ Synced(led) /\ led.limit = alloc.limit
  BY <1>1, <1>2, SettledFacts
<1>5. led = Settled(alloc, Top)
  OBVIOUS
<1> HIDE DEF led
<1>6. Good(Popped(stack), led, policy.memory)
  BY <1>3, <1>4, LedgerGood
<1>7. ASSUME blocks' = blocks, Pays(led, Popped(stack)), UNCHANGED <<charges, buffered>>
      PROVE  Books'
  BY <1>1, <1>2, <1>5, <1>7, SettledBooks
<1>8. CASE CallThrow
  <2>1. PICK fatal \in BOOLEAN : Raise(Popped(stack), led, pending, fatal)
    BY <1>5, <1>8 DEF CallThrow
  <2>2. blocks' = blocks
    BY <1>8 DEF CallThrow
  <2>3. Pays(led, Popped(stack))
    BY <1>3, <1>6, <2>1, RaisePays
  <2>4. UNCHANGED <<charges, buffered>>
    BY <1>1, <1>3, <1>6, <2>1, RaiseGood, Zenon
  <2> QED
    BY <1>7, <2>2, <2>3, <2>4
<1>9. CASE CallReturn
  <2>1. PICK b \in Blocks, bytes \in 0 .. MaxBlock :
         \/ /\ blocks' = [blocks EXCEPT ![b] = @ + bytes]
            /\ alloc' = Settled(IF bytes = 0 THEN alloc
                                             ELSE Grown(alloc, bytes, Gc), Top)
            /\ stack' = Popped(stack)
            /\ UNCHANGED <<charges, buffered, pending>>
         \/ /\ OutOfMemory(Popped(stack), Settled(alloc, Top))
            /\ UNCHANGED blocks
    BY <1>9 DEF CallReturn
  <2>2. CASE OutOfMemory(Popped(stack), Settled(alloc, Top)) /\ UNCHANGED blocks
    <3>1. Pays(led, Popped(stack))
      BY <1>3, <1>5, <1>6, <2>2, OutOfMemoryPays
    <3>2. OutOfMemory(Popped(stack), led)
      BY <1>5, <2>2
    <3>3. UNCHANGED <<charges, buffered>>
      BY <1>1, <1>3, <1>6, <3>2, OutOfMemoryGood, Zenon
    <3> QED
      BY <1>7, <2>2, <3>1, <3>3
  <2>3. CASE /\ blocks' = [blocks EXCEPT ![b] = @ + bytes]
             /\ alloc' = Settled(IF bytes = 0 THEN alloc
                                              ELSE Grown(alloc, bytes, Gc), Top)
             /\ stack' = Popped(stack)
             /\ UNCHANGED <<charges, buffered, pending>>
    <3> DEFINE more == IF bytes = 0 THEN alloc ELSE Grown(alloc, bytes, Gc)
               n == blocks[b] + bytes
    <3>1. bytes \in Nat /\ blocks[b] \in Nat /\ alloc.usage \in Int
      BY <1>1, MemoryAssumption DEF Ledgers
    <3>2. /\ more \in Ledgers /\ more.usage = alloc.usage + bytes
          /\ more.charged = alloc.charged
      <4>1. CASE bytes = 0
        BY <4>1, <1>1, <3>1
      <4>2. CASE bytes # 0
        BY <4>2, <1>1, <3>1, GcIs, GrownFacts
      <4> QED
        BY <4>1, <4>2
    <3>3. alloc' = Settled(more, Top)
      BY <2>3
    <3>4. blocks' = [blocks EXCEPT ![b] = n] /\ n \in Nat /\ n = blocks[b] + bytes
      BY <2>3, <3>1
    <3> HIDE DEF more, n
    <3>5. SumFunction(blocks') = SumFunction(blocks) - blocks[b] + n
          /\ SumFunction(blocks) \in Nat
      <4>1. blocks \in [Blocks -> Nat] /\ IsFiniteSet(Blocks)
        BY <1>1, MemoryAssumption
      <4> QED
        BY <3>4, <4>1, SumMoved
    <3>6. more.usage = SumFunction(blocks')
      BY <1>1, <3>1, <3>2, <3>4, <3>5
    <3>7. Pays(Settled(more, Top), Popped(stack))
      BY <2>3, <3>3 DEF Pays
    <3> QED
      BY <1>2, <2>3, <3>2, <3>6, <3>7, SettledBooks
  <2> QED
    BY <2>1, <2>2, <2>3
<1> QED
  BY <1>8, <1>9

LEMMA CrossBooks ==
  ASSUME IInv, Books, Cross
  PROVE  Books'
<1>1. PICK params \in {0, ArgsBytes}, content \in 0 .. MaxBlock :
       LET billed == Charged(alloc, params, Gc)
           call == [Blank EXCEPT !.kind = "call", !.params = params,
                                 !.content = content]
       IN  \/ \E fatal \in BOOLEAN : Raise(stack, alloc, FALSE, fatal)
           \/ \E fatal \in BOOLEAN :
                Raise(stack, Settled(Charged(billed, content, Gc), call), FALSE, fatal)
           \/ /\ stack' = Push(call)
              /\ alloc' = Charged(billed, content, Gc)
              /\ UNCHANGED <<charges, buffered, pending>>
  BY DEF Cross
<1> DEFINE billed == Charged(alloc, params, Gc)
           whole == Charged(billed, content, Gc)
           call == [Blank EXCEPT !.kind = "call", !.params = params, !.content = content]
           refund == Settled(whole, call)
<1>2. UNCHANGED <<blocks, out>> /\ Len(stack) > 0
  BY DEF Cross, InLua, TopIs, Depth
<1>3. /\ Good(stack, alloc, policy.memory) /\ alloc \in Ledgers /\ Synced(alloc)
      /\ stack \in Seq(Frame) /\ policy.memory \in Size
      /\ alloc.charged \in Nat /\ alloc.usage \in Nat
      /\ out.cap \in Nat /\ buffered \in Nat /\ Bills(stack) \in Nat
      /\ params \in Nat /\ content \in Nat
  BY BooksCover, MemoryAssumption DEF IInv, Good, Typed
<1>4. call \in Frame /\ call.kind = "call" /\ call.params = params /\ call.content = content
  <2>1. Blank \in Frame /\ "call" \in Kinds
    BY BlankFacts DEF Kinds
  <2> QED
    BY <2>1, <1>3 DEF Frame
<1>5. /\ billed \in Ledgers /\ Synced(billed) /\ billed.limit = alloc.limit
      /\ billed.usage = alloc.usage /\ billed.charged = alloc.charged + params
  BY <1>3, GcIs, ChargedFacts
<1> HIDE DEF billed
<1>6. /\ whole \in Ledgers /\ Synced(whole) /\ whole.limit = billed.limit
      /\ whole.usage = billed.usage /\ whole.charged = billed.charged + content
  BY <1>3, <1>5, GcIs, ChargedFacts
<1> HIDE DEF whole, call
<1>7. whole.charged = alloc.charged + (params + content)
  BY <1>3, <1>5, <1>6
<1>8. /\ refund \in Ledgers /\ Synced(refund) /\ refund.limit = whole.limit
  BY <1>4, <1>6, SettledFacts
<1>9. refund.usage = alloc.usage /\ refund.charged = alloc.charged
  <2>1. call.params + call.content <= whole.charged
    BY <1>3, <1>4, <1>7
  <2>2. /\ refund.usage = whole.usage
        /\ refund.charged = whole.charged - (call.params + call.content)
    BY <1>4, <1>6, <2>1, SettledExact
  <2> QED
    BY <1>3, <1>4, <1>5, <1>6, <1>7, <2>2
<1> HIDE DEF refund
<1>10. Good(stack, refund, policy.memory)
  BY <1>3, <1>5, <1>6, <1>8, LedgerGood
<1>11. ASSUME NEW led, Good(stack, led, policy.memory), led.usage = alloc.usage,
              led.charged = alloc.charged, NEW fatal, Raise(stack, led, FALSE, fatal)
       PROVE  Books'
  <2>1. Pays(led, stack)
    BY <1>2, <1>11, RaisePays
  <2>2. UNCHANGED <<charges, buffered>>
    <3>1. FALSE \in BOOLEAN
      OBVIOUS
    <3> QED
      BY <3>1, <1>2, <1>3, <1>11, RaiseGood, Zenon
  <2> QED
    BY <1>2, <1>11, <2>1, <2>2, BooksKept DEF Pays
<1>12. CASE \E fatal \in BOOLEAN : Raise(stack, alloc, FALSE, fatal)
  BY <1>3, <1>11, <1>12
<1>13. CASE \E fatal \in BOOLEAN : Raise(stack, refund, FALSE, fatal)
  BY <1>9, <1>10, <1>11, <1>13
<1>14. CASE stack' = Append(stack, call) /\ alloc' = whole /\ UNCHANGED <<charges, buffered>>
  <2>1. Bill(call) = params + content
    BY <1>4 DEF Bill
  <2>2. Bills(stack') = Bills(stack) + (params + content)
    BY <1>3, <1>4, <1>14, <2>1, BillsPushed
  <2>3. alloc.charged = out.cap + buffered + Bills(stack)
    BY DEF Books
  <2>4. alloc'.charged = out.cap + buffered + Bills(stack')
    BY <1>3, <1>7, <1>14, <2>2, <2>3
  <2> QED
    BY <1>2, <1>5, <1>6, <1>14, <2>4 DEF Books
<1> QED
  BY <1>1, <1>12, <1>13, <1>14 DEF billed, whole, call, refund, Push

-----------------------------------------------------------------------------
(* The sink's part of the books                                            *)

\* The buffer and its charge go together.
LEMMA BufferBooks ==
  ASSUME IInv, Books, alloc' = Discharged(alloc, out.cap, Gc), out'.cap = 0,
         UNCHANGED <<blocks, charges, buffered>>, Bills(stack') = Bills(stack)
  PROVE  Books'
<1>1. /\ alloc \in Ledgers /\ out.cap \in Nat /\ out.cap <= alloc.charged
      /\ buffered \in Nat /\ Bills(stack) \in Nat /\ alloc.charged \in Nat
  BY BooksCover
<1>2. alloc'.usage = alloc.usage /\ alloc'.charged = alloc.charged - out.cap
  BY <1>1, GcIs, DischargedFacts
<1>3. alloc.charged = out.cap + buffered + Bills(stack)
  BY DEF Books
<1>4. alloc'.charged = out'.cap + buffered + Bills(stack)
  BY <1>1, <1>2, <1>3
<1> QED
  BY <1>2, <1>4 DEF Books

LEMMA TornDownBooks ==
  ASSUME IInv, Books, TornDown, NEW s, s \in Seq(Frame), Len(s) = 0, Bills(s) = Bills(stack)
  PROVE  Books'
<1>1. /\ alloc' = Discharged(alloc, out.cap, Gc)
      /\ out' = [out EXCEPT !.buf = <<>>, !.cap = 0]
      /\ stack' = <<>> /\ UNCHANGED <<blocks, charges, buffered>>
  BY DEF TornDown
<1>2. out'.cap = 0
  BY <1>1 DEF IInv, Typed, OutputSink
<1>3. stack' = s
  BY <1>1
<1> QED
  BY <1>1, <1>2, <1>3, BufferBooks

LEMMA FlushFailedBooks ==
  ASSUME IInv, Books, NEW purpose \in Purposes, purpose # "close",
         NEW below, Good(below, alloc, policy.memory), Bills(below) = Bills(stack),
         purpose \in {"tail", "channel"} =>
           Len(below) > 0 /\ below[Len(below)].kind = "write",
         FlushFailed(purpose, below), out'.cap = out.cap
  PROVE  Books'
<1>1. policy.memory \in Size /\ FALSE \in BOOLEAN /\ below \in Seq(Frame)
  BY DEF IInv, Typed, Good
<1>2. ASSUME purpose \in {"tail", "channel"}
      PROVE  /\ Good(Popped(below), alloc, policy.memory) /\ Len(Popped(below)) > 0
             /\ Bills(Popped(below)) = Bills(stack)
  BY <1>1, <1>2, ScriptBeneath, FreeOfBills
<1>3. CASE purpose = "tail"
  <2>1. PICK fatal \in BOOLEAN : Raise(Popped(below), alloc, FALSE, fatal)
    BY <1>3 DEF FlushFailed
  <2>2. blocks' = blocks
    BY <1>3 DEF FlushFailed
  <2>3. Pays(alloc, Popped(below))
    BY <1>2, <1>3, <2>1, RaisePays
  <2>4. UNCHANGED <<charges, buffered>>
    BY <1>1, <1>2, <1>3, <2>1, RaiseGood, Zenon
  <2> QED
    BY <1>2, <1>3, <2>2, <2>3, <2>4, BooksKept DEF Pays
<1>4. CASE purpose = "channel"
  <2>1. stack' = Popped(below) /\ UNCHANGED <<alloc, blocks, charges, buffered>>
    BY <1>4 DEF FlushFailed
  <2> QED
    BY <1>2, <1>4, <2>1, BooksKept DEF Pays
<1>5. CASE purpose = "get"
  <2>1. stack' = below /\ UNCHANGED <<alloc, blocks, charges, buffered>>
    BY <1>5 DEF FlushFailed
  <2> QED
    BY <2>1, BooksKept DEF Pays
<1> QED
  BY <1>3, <1>4, <1>5 DEF Purposes

LEMMA FlushBooks ==
  ASSUME IInv, Books, FlushEmit \/ FlushDone \/ FlushRefused
  PROVE  Books'
<1>1. /\ Good(stack, alloc, policy.memory) /\ stack \in Seq(Frame)
      /\ out \in OutputSink
  BY DEF IInv, Good, Typed
<1>2. /\ Len(stack) > 0 /\ stack[Len(stack)].kind = "flush"
      /\ Top = stack[Len(stack)] /\ Top \in Frame /\ Top.purpose \in Purposes
  <2>1. /\ Len(stack) > 0 /\ stack[Len(stack)].kind = "flush"
        /\ Top = stack[Len(stack)]
    BY DEF FlushEmit, FlushDone, FlushRefused, TopIs, Top, Depth
  <2>2. Top \in Frame
    BY <1>1, <2>1
  <2> QED
    BY <2>1, <2>2 DEF Frame
<1>3. /\ Good(Popped(stack), alloc, policy.memory) /\ Popped(stack) \in Seq(Frame)
      /\ Top.purpose = "close" => Len(Popped(stack)) = 0
      /\ Top.purpose \in {"tail", "channel"} =>
           Len(Popped(stack)) > 0 /\ Popped(stack)[Len(Popped(stack))].kind = "write"
  BY <1>1, <1>2, FlushStandsOn DEF Good
<1>4. Bills(Popped(stack)) = Bills(stack)
  BY <1>1, <1>2, FreeOfBills
<1>5. CASE FlushEmit
  <2> DEFINE f == [Blank EXCEPT !.kind = "emit", !.purpose = Top.purpose]
  <2>1. PICK take \in Due : out' = [out EXCEPT !.buf = SubSeq(@, take + 1, Len(@))]
    BY <1>5 DEF FlushEmit
  <2>2. out'.cap = out.cap
    BY <1>1, <2>1 DEF OutputSink
  <2>3. UNCHANGED <<alloc, blocks, charges, buffered>> /\ stack' = Append(stack, f)
    BY <1>5 DEF FlushEmit, Push
  <2>4. f \in Frame /\ f.kind # "call"
    <3>1. Blank \in Frame /\ "emit" \in Kinds
      BY BlankFacts DEF Kinds
    <3> QED
      BY <3>1, <1>2 DEF Frame
  <2> HIDE DEF f
  <2>5. Bills(stack') = Bills(stack)
    BY <1>1, <2>3, <2>4, FreeOfBills
  <2> QED
    BY <2>2, <2>3, <2>5, BooksKept DEF Pays
<1>6. CASE FlushDone
  <2>1. CASE Top.purpose = "close"
    BY <1>3, <1>4, <1>6, <2>1, TornDownBooks DEF FlushDone
  <2>2. CASE Top.purpose # "close"
    <3>1. /\ stack' = Popped(stack)
          /\ \/ UNCHANGED <<alloc, out>>
             \/ /\ alloc' = Discharged(alloc, out.cap, Gc)
                /\ out' = [out EXCEPT !.buf = <<>>, !.cap = 0]
          /\ UNCHANGED <<blocks, charges, buffered>>
      BY <1>6, <2>2 DEF FlushDone
    <3>2. CASE UNCHANGED <<alloc, out>>
      BY <1>4, <3>1, <3>2, BooksKept DEF Pays
    <3>3. CASE /\ alloc' = Discharged(alloc, out.cap, Gc)
               /\ out' = [out EXCEPT !.buf = <<>>, !.cap = 0]
      <4>1. out'.cap = 0
        BY <1>1, <3>3 DEF OutputSink
      <4> QED
        BY <1>4, <3>1, <3>3, <4>1, BufferBooks
    <3> QED
      BY <3>1, <3>2, <3>3
  <2> QED
    BY <2>1, <2>2
<1>7. CASE FlushRefused
  <2>1. PICK take \in Due : out' = [out EXCEPT !.buf = SubSeq(@, take + 1, Len(@))]
    BY <1>7 DEF FlushRefused
  <2>2. out'.cap = out.cap
    BY <1>1, <2>1 DEF OutputSink
  <2>3. Top.purpose # "close" /\ FlushFailed(Top.purpose, Popped(stack))
    BY <1>7 DEF FlushRefused
  <2> QED
    BY <1>2, <1>3, <1>4, <2>2, <2>3, FlushFailedBooks, Zenon
<1> QED
  BY <1>5, <1>6, <1>7

LEMMA EmitThrowBooks ==
  ASSUME IInv, Books, EmitThrow
  PROVE  Books'
<1>1. /\ Len(stack) > 0 /\ stack[Len(stack)].kind = "emit"
      /\ Top = stack[Len(stack)]
  BY DEF EmitThrow, TopIs, Top, Depth
<1>2. /\ Good(stack, alloc, policy.memory) /\ stack \in Seq(Frame)
      /\ Len(stack) \in 1 .. Len(stack) /\ out \in OutputSink
  BY <1>1 DEF IInv, Good, Typed
<1> DEFINE s == Popped(stack)
<1>3. /\ Good(s, alloc, policy.memory) /\ Len(s) = Len(stack) - 1
      /\ \A i \in 1 .. Len(stack) - 1 : s[i] = stack[i]
  BY <1>1, <1>2, PopGood
<1>4. /\ Len(stack) # 1 /\ stack[Len(stack) - 1].kind = "flush"
      /\ stack[Len(stack) - 1].purpose = Top.purpose
  <2>1. IF Len(stack) = 1 THEN OnHost(Top) ELSE OnFrame(stack[Len(stack) - 1], Top)
    BY <1>1, <1>2, StandsOn
  <2> QED
    BY <2>1, <1>1 DEF OnHost, OnFrame
<1>5. Len(s) > 0 /\ s[Len(s)].kind = "flush" /\ s[Len(s)].purpose = Top.purpose
  BY <1>2, <1>3, <1>4
<1>6. Bills(s) = Bills(stack) /\ s \in Seq(Frame)
  BY <1>1, <1>2, <1>3, FreeOfBills DEF Good
<1> HIDE DEF s
<1>7. /\ Good(Popped(s), alloc, policy.memory) /\ Popped(s) \in Seq(Frame)
      /\ Top.purpose = "close" => Len(Popped(s)) = 0
      /\ Top.purpose \in {"tail", "channel"} =>
           Len(Popped(s)) > 0 /\ Popped(s)[Len(Popped(s))].kind = "write"
  BY <1>3, <1>5, FlushStandsOn DEF Good
<1>8. Bills(Popped(s)) = Bills(stack)
  BY <1>5, <1>6, FreeOfBills
<1>9. CASE Top.purpose = "close"
  BY <1>7, <1>8, <1>9, TornDownBooks DEF EmitThrow
<1>10. CASE Top.purpose # "close"
  <2>1. FlushFailed(Top.purpose, Popped(s)) /\ out'.cap = out.cap
    BY <1>10 DEF EmitThrow, s
  <2>2. Top.purpose \in Purposes
    <3>1. Top \in Frame
      BY <1>1, <1>2
    <3> QED
      BY <3>1 DEF Frame
  <2> QED
    BY <1>7, <1>8, <1>10, <2>1, <2>2, FlushFailedBooks, Zenon
<1> QED
  BY <1>9, <1>10

LEMMA AcceptBooks ==
  ASSUME IInv, Books, Accept
  PROVE  Books'
<1> DEFINE w     == Top
           room  == IF out.written < out.limit THEN out.limit - out.written ELSE 0
           over  == out.limit # 0 /\ w.n > room
           take  == IF over THEN room ELSE w.n
           rest  == Popped(stack)
           tail  == [w EXCEPT !.purpose = "tail", !.over = over]
           flush == FlushFor("tail")
           flushing == Append(Append(rest, tail), flush)
<1>1. \/ /\ out' = Counted(w, over)
         /\ stack' = flushing
         /\ UNCHANGED <<alloc, charges, buffered>>
      \/ \E cap \in Reserved(take) :
           \/ /\ out' = Counted(w, TRUE)
              /\ Raise(rest, alloc, pending, TRUE)
           \/ /\ \E bytes : out' = [Counted(w, over) EXCEPT
                               !.buf = @ \o bytes, !.cap = cap,
                               !.accepted = @ + take]
              /\ alloc' = Charged(alloc, cap - out.cap, Gc)
              /\ stack' = flushing
              /\ UNCHANGED <<charges, buffered>>
  BY DEF Accept
<1>2. /\ blocks' = blocks
      /\ Len(stack) > 0 /\ stack[Len(stack)].kind = "write" /\ w = stack[Len(stack)]
  BY DEF Accept, TopIs, Top, Depth
<1>3. /\ Good(stack, alloc, policy.memory) /\ stack \in Seq(Frame)
      /\ alloc \in Ledgers /\ out \in OutputSink /\ pending \in BOOLEAN
      /\ policy.memory \in Size
      /\ out.cap \in Nat /\ buffered \in Nat /\ Bills(stack) \in Nat
  BY BooksCover DEF IInv, Good, Typed
<1>4. w \in Frame /\ w.kind = "write" /\ w.n \in Nat
  <2>1. w \in Frame
    BY <1>2, <1>3
  <2> QED
    BY <2>1, <1>2 DEF Frame
<1>5. over \in BOOLEAN /\ take \in Nat
  BY <1>3, <1>4 DEF OutputSink
<1>6. tail \in Frame /\ tail.kind = "write" /\ flush \in Frame /\ flush.kind = "flush"
  <2>1. "tail" \in Purposes
    BY DEF Purposes
  <2>2. tail \in Frame /\ tail.kind = "write"
    BY <2>1, <1>4, <1>5 DEF Frame
  <2>3. flush \in Frame /\ flush.kind = "flush"
    BY <2>1, BlankFacts DEF FlushFor, Blank
  <2> QED
    BY <2>2, <2>3
<1> HIDE DEF w, over, take, rest, tail, flush
<1>7. /\ Good(rest, alloc, policy.memory) /\ Len(rest) > 0 /\ rest \in Seq(Frame)
      /\ Bills(rest) = Bills(stack)
  BY <1>2, <1>3, ScriptBeneath, FreeOfBills DEF rest, Good
<1>8. Bills(flushing) = Bills(stack)
  <2> DEFINE s == Append(rest, tail)
  <2>1. s \in Seq(Frame) /\ Bills(s) = Bills(rest)
    BY <1>6, <1>7, FreeOfBills
  <2> HIDE DEF s
  <2>2. Bills(Append(s, flush)) = Bills(s)
    BY <1>6, <2>1, FreeOfBills
  <2> QED
    BY <1>7, <2>1, <2>2 DEF s
<1> HIDE DEF flushing
<1>9. ASSUME NEW ov PROVE Counted(w, ov).cap = out.cap
  BY <1>3 DEF Counted, OutputSink
<1>10. CASE /\ out' = Counted(w, over)
            /\ stack' = flushing
            /\ UNCHANGED <<alloc, charges, buffered>>
  BY <1>2, <1>8, <1>9, <1>10, BooksKept DEF Pays
<1>11. ASSUME out' = Counted(w, TRUE), Raise(rest, alloc, pending, TRUE)
       PROVE  Books'
  <2>1. Pays(alloc, rest)
    BY <1>7, <1>11, RaisePays
  <2>2. UNCHANGED <<charges, buffered>>
    BY <1>3, <1>7, <1>11, RaiseGood, Zenon
  <2> QED
    BY <1>2, <1>7, <1>9, <1>11, <2>1, <2>2, BooksKept DEF Pays
<1>12. ASSUME NEW cap \in Reserved(take), NEW bytes,
              out' = [Counted(w, over) EXCEPT
                        !.buf = @ \o bytes, !.cap = cap, !.accepted = @ + take],
              alloc' = Charged(alloc, cap - out.cap, Gc),
              stack' = flushing, UNCHANGED <<charges, buffered>>
       PROVE  Books'
  <2> DEFINE grow == cap - out.cap
  <2>1. cap \in Nat /\ grow \in Nat /\ cap = out.cap + grow
    <3>1. cap \in Nat /\ cap >= out.cap
      BY <1>3, <1>5, ReservedFacts
    <3> QED
      BY <3>1, <1>3
  <2>2. alloc' = Charged(alloc, grow, Gc)
    BY <1>12
  <2> HIDE DEF grow
  <2>3. out'.cap = cap
    <3>1. Counted(w, over) \in OutputSink
      BY <1>3, <1>4, <1>5, CountedFacts
    <3> QED
      BY <3>1, <1>12 DEF OutputSink
  <2>4. alloc'.usage = alloc.usage /\ alloc'.charged = alloc.charged + grow
    BY <1>3, <2>1, <2>2, GcIs, ChargedFacts
  <2>5. alloc.charged = out.cap + buffered + Bills(stack)
    BY DEF Books
  <2>6. alloc'.charged = cap + buffered + Bills(stack)
    BY <1>3, <2>1, <2>4, <2>5
  <2> QED
    BY <1>2, <1>8, <1>12, <2>3, <2>4, <2>6 DEF Books
<1> QED
  BY <1>1, <1>10, <1>11, <1>12

LEMMA InitBooks == Init => Books
<1> SUFFICES ASSUME Init PROVE Books
  OBVIOUS
<1>1. /\ blocks = [b \in Blocks |-> 0] /\ charges = [h \in Handles |-> 0]
      /\ buffered = 0 /\ stack = <<>> /\ out.cap = 0
      /\ alloc.usage = 0 /\ alloc.charged = 0
  BY DEF Init, Opened
<1>2. ASSUME NEW S, IsFiniteSet(S) PROVE SumFunction([x \in S |-> 0]) = 0
  <2> DEFINE f == [x \in S |-> 0]
  <2>1. DOMAIN f = S /\ \A x \in S : f[x] = 0
    OBVIOUS
  <2> HIDE DEF f
  <2>2. SumFunctionOnSet(f, S) = 0
    BY <1>2, <2>1, SumOfZeros
  <2>3. SumFunction(f) = 0
    BY <2>1, <2>2, SumOfAll
  <2> QED
    BY <2>3 DEF f
<1>3. SumFunction(blocks) = 0 /\ SumFunction(charges) = 0
  BY <1>1, <1>2, MemoryAssumption
<1>4. Bills(stack) = 0
  BY <1>1, BillsOfNone
<1> QED
  BY <1>1, <1>3, <1>4 DEF Books

LEMMA StepBooks == IInv /\ Books /\ [Next]_vars => Books'
<1> SUFFICES ASSUME IInv, Books, [Next]_vars PROVE Books'
  OBVIOUS
<1>1. CASE UNCHANGED vars
  BY <1>1 DEF vars, Books
<1> QED
  BY <1>1, FramesBooks, ErrorBooks, OutputBooks, GrowBooks, ShrinkBooks, FileBooks,
     CallEndsBooks, CrossBooks, FlushBooks, EmitThrowBooks, AcceptBooks DEF Next

\* What the sandbox holds is what it is billed for, to the byte, whatever was
\* refused, thrown, unwound or freed on the way.
THEOREM BooksBalance == Spec => []LedgerBalances
<1>1. Init => IInv /\ Books
  BY InitLadder, InitBooks
<1>2. IInv /\ Books /\ [Next]_vars => IInv' /\ Books'
  BY StepSound, StepBooks DEF Sound
<1>3. Books => LedgerBalances
  BY DEF Books, LedgerBalances, Bills, Depth
<1> QED
  BY <1>1, <1>2, <1>3, PTL DEF Spec

-----------------------------------------------------------------------------
(***************************************************************************)
(* The sink: what was printed leaves once, in order, under its own stream. *)
(*                                                                         *)
(* A callback that prints runs between the bytes it is given and the write *)
(* whose flush called it, so the order hangs on what that write finds when *)
(* it goes on: a buffer that holds nothing of the other stream (Ready).    *)
(* It finds that because nothing but its own flush ever stands on a write  *)
(* (Seat), and the flush that ends has sent everything.                    *)
(***************************************************************************)

Mark == [id : Nat, err : BOOLEAN, label : BOOLEAN, given : BOOLEAN]

\* `shut` is whether close() has begun: only close() flushes for it.
Seat(s, i, shut) ==
  /\ s[i].kind = "write" => s[i].purpose \in {"channel", "tail"}
  /\ s[i].purpose = "close" => shut
  /\ i # 1 /\ s[i - 1].kind = "write" =>
       s[i].kind = "flush" /\ s[i].purpose = s[i - 1].purpose

Seated(s, shut) == \A i \in 1 .. Len(s) : Seat(s, i, shut)

\* No write is about to go on.
Calm(s) == Len(s) > 0 => s[Len(s)].kind # "write"

\* The write about to go on finds nothing of the other stream.
Ready(s, o) ==
  /\ Len(s) > 0 /\ s[Len(s)].kind = "write" /\ s[Len(s)].purpose = "channel"
  /\ o.mode = "Callback"
  => o.buf = <<>> \/ o.isErr = s[Len(s)].err

Stream(h, o) ==
  /\ \A i \in 1 .. Len(h) : h[i].id = i /\ h[i].label = h[i].err
  /\ \A i \in 1 .. Len(o.buf) : o.buf[i].id = Len(h) + i
  /\ Len(h) + Len(o.buf) = o.accepted
  /\ o.mode = "Callback" => \A i \in 1 .. Len(o.buf) : o.buf[i].err = o.isErr

Owned(o) ==
  o.mode # "Discard" =>
    o.emitted >= o.accepted /\ (o.emitted = o.accepted \/ o.truncated)

Sink ==
  /\ heard \in Seq(Mark) /\ Seated(stack, closed) /\ Ready(stack, out)
  /\ Owned(out)
  /\ ~closed => Stream(heard, out)

\* One frame more, on a stack where it may sit.
LEMMA SeatPush ==
  ASSUME NEW s \in Seq(Frame), NEW f \in Frame, NEW shut, Seated(s, shut),
         Calm(s) \/ (f.kind = "flush" /\ f.purpose = s[Len(s)].purpose),
         f.kind = "write" => f.purpose \in {"channel", "tail"},
         f.purpose = "close" => shut
  PROVE  /\ Seated(Append(s, f), shut)
         /\ f.kind # "write" => Calm(Append(s, f))
<1> DEFINE t == Append(s, f)
           k == Len(s)
<1>1. k \in Nat
  OBVIOUS
<1>2. Len(t) = k + 1 /\ t[k + 1] = f /\ \A i \in 1 .. k : t[i] = s[i]
  OBVIOUS
<1> HIDE DEF t
<1>3. ASSUME NEW i \in 1 .. k + 1 PROVE Seat(t, i, shut)
  <2>1. CASE i \in 1 .. k
    <3>1. Seat(s, i, shut)
      BY <2>1 DEF Seated
    <3>2. t[i] = s[i] /\ (i # 1 => t[i - 1] = s[i - 1])
      BY <1>1, <1>2, <2>1
    <3> QED
      BY <3>1, <3>2 DEF Seat
  <2>2. CASE i = k + 1
    <3>1. t[i] = f /\ (i # 1 => t[i - 1] = s[k] /\ k > 0)
      BY <1>1, <1>2, <2>2
    <3> QED
      BY <3>1 DEF Seat, Calm
  <2> QED
    BY <1>1, <2>1, <2>2
<1>4. Seated(t, shut)
  BY <1>2, <1>3 DEF Seated
<1>5. f.kind # "write" => Calm(t)
  BY <1>1, <1>2 DEF Calm
<1> QED
  BY <1>4, <1>5 DEF t

\* One frame less uncovers a write only if the frame was its flush.
LEMMA SeatPop ==
  ASSUME NEW s \in Seq(Frame), NEW shut, Seated(s, shut), Len(s) > 0
  PROVE  /\ Seated(Popped(s), shut) /\ Popped(s) \in Seq(Frame)
         /\ Len(Popped(s)) = Len(s) - 1
         /\ \A i \in 1 .. Len(s) - 1 : Popped(s)[i] = s[i]
         /\ s[Len(s)].kind # "flush" => Calm(Popped(s))
         /\ s[Len(s)].purpose \notin {"channel", "tail"} => Calm(Popped(s))
         /\ \/ Calm(Popped(s))
            \/ Len(Popped(s)) > 0 /\ Popped(s)[Len(Popped(s))].purpose = s[Len(s)].purpose
<1> DEFINE t == Popped(s)
           k == Len(s) - 1
<1>1. k \in Nat /\ Len(s) = k + 1
  OBVIOUS
<1>2. t \in Seq(Frame) /\ Len(t) = k /\ \A i \in 1 .. k : t[i] = s[i]
  BY <1>1 DEF Popped
<1> HIDE DEF t, k
<1>3. ASSUME NEW i \in 1 .. k PROVE Seat(t, i, shut)
  <2>1. Seat(s, i, shut)
    BY <1>1 DEF Seated
  <2>2. t[i] = s[i] /\ (i # 1 => t[i - 1] = s[i - 1])
    BY <1>1, <1>2
  <2> QED
    BY <2>1, <2>2 DEF Seat
<1>4. Seated(t, shut)
  BY <1>2, <1>3 DEF Seated
<1>5. Seat(s, k + 1, shut)
  BY <1>1 DEF Seated
<1>6. /\ s[k + 1].kind # "flush" => Calm(t)
      /\ s[k + 1].purpose \notin {"channel", "tail"} => Calm(t)
      /\ Calm(t) \/ (Len(t) > 0 /\ t[Len(t)].purpose = s[k + 1].purpose)
  <2>1. CASE k = 0
    BY <1>2, <2>1 DEF Calm
  <2>2. CASE k # 0
    <3>1. k + 1 # 1 /\ k + 1 - 1 = k /\ t[Len(t)] = s[k] /\ Len(t) > 0 /\ k \in 1 .. k + 1
      BY <1>1, <1>2, <2>2
    <3>2. Seat(s, k, shut)
      BY <3>1, <1>1 DEF Seated
    <3> QED
      BY <3>1, <3>2, <1>5 DEF Seat, Calm
  <2> QED
    BY <2>1, <2>2
<1>7. Len(s) - 1 = k
  BY DEF k
<1> QED
  BY <1>1, <1>2, <1>4, <1>6, <1>7 DEF t

\* An error, wherever it is raised, ends in Lua or in the host.
LEMMA ToHostSeat ==
  ASSUME NEW stk \in Seq(Frame), NEW led, NEW shut, Seated(stk, shut), Len(stk) > 0,
         stk[Len(stk)].kind # "flush", ToHost(stk, led)
  PROVE  Seated(stack', shut) /\ Calm(stack')
<1> DEFINE rest == Popped(stk)
           sweep == [Blank EXCEPT !.kind = "sweep"]
<1>1. rest \in Seq(Frame) /\ Seated(rest, shut) /\ Calm(rest)
  BY SeatPop
<1>2. sweep \in Frame /\ sweep.kind = "sweep" /\ sweep.purpose = "tail"
  BY BlankFacts DEF Kinds, Blank
<1>3. stack' = Append(rest, sweep) \/ stack' = rest
  BY DEF ToHost
<1> HIDE DEF rest, sweep
<1>4. Seated(Append(rest, sweep), shut) /\ Calm(Append(rest, sweep))
  BY <1>1, <1>2, SeatPush
<1>5. CASE stack' = rest
  BY <1>1, <1>5
<1>6. CASE stack' = Append(rest, sweep)
  BY <1>4, <1>6
<1> QED
  BY <1>3, <1>5, <1>6

LEMMA RaiseSeat ==
  ASSUME NEW stk, NEW led, NEW m, Good(stk, led, m), NEW pend, NEW fatal,
         NEW shut, Seated(stk, shut), Len(stk) > 0, stk[Len(stk)].kind \in LuaKinds,
         Raise(stk, led, pend, fatal)
  PROVE  Seated(stack', shut) /\ Calm(stack')
<1> DEFINE n == Len(stk)
           rest == Popped(stk)
           report == [Blank EXCEPT !.kind = "report", !.saved = led.limit]
<1>1. /\ stk \in Seq(Frame) /\ n \in 1 .. n /\ Calm(stk)
      /\ stk[n].kind # "flush" /\ led.limit \in Size
  BY DEF Good, LuaKinds, Calm, Ledgers
<1>2. /\ rest \in Seq(Frame) /\ Seated(rest, shut) /\ Calm(rest) /\ Len(rest) = n - 1
      /\ \A i \in 1 .. n - 1 : rest[i] = stk[i]
  BY <1>1, SeatPop
<1>3. CASE stack' = stk
  BY <1>1, <1>3
<1>4. CASE stack' = rest
  BY <1>2, <1>4
<1>5. CASE stk[n].kind = "report" /\ ToHost(rest, Restored(led, stk[n].saved))
  <2>1. n # 1 /\ stk[n - 1].kind = "script"
    <3>1. IF n = 1 THEN OnHost(stk[n]) ELSE OnFrame(stk[n - 1], stk[n])
      BY <1>1, StandsOn
    <3> QED
      BY <3>1, <1>5 DEF OnHost, OnFrame
  <2>2. Len(rest) > 0 /\ rest[Len(rest)].kind # "flush"
    BY <1>1, <1>2, <2>1
  <2> HIDE DEF rest
  <2> QED
    BY <1>2, <1>5, <2>2, ToHostSeat
<1>6. CASE stack' = Append(stk, report)
  <2>1. report \in Frame /\ report.kind = "report" /\ report.purpose = "tail"
    <3>1. Blank \in Frame /\ "report" \in Kinds /\ Blank.purpose = "tail"
      BY BlankFacts DEF Kinds, Blank
    <3> QED
      BY <3>1, <1>1 DEF Frame
  <2> HIDE DEF report
  <2> QED
    BY <1>1, <1>6, <2>1, SeatPush
<1> QED
  BY <1>3, <1>4, <1>5, <1>6 DEF Raise

LEMMA OutOfMemorySeat ==
  ASSUME NEW stk, NEW led, NEW m, Good(stk, led, m),
         NEW shut, Seated(stk, shut), Len(stk) > 0, stk[Len(stk)].kind \in LuaKinds,
         OutOfMemory(stk, led)
  PROVE  Seated(stack', shut) /\ Calm(stack')
<1>1. CASE Raise(stk, led, pending, TRUE)
  BY <1>1, RaiseSeat
<1>2. CASE ToHost(stk, led)
  BY <1>2, ToHostSeat DEF Good, LuaKinds
<1> QED
  BY <1>1, <1>2 DEF OutOfMemory

\* A step that prints nothing and sends nothing has only its frames to show.
LEMMA SinkKept ==
  ASSUME IInv, Sink, UNCHANGED <<heard, closed>>,
         out' = out \/ \E o : out' = [out EXCEPT !.limit = o],
         Seated(stack', closed), Calm(stack')
  PROVE  Sink'
<1>1. /\ out'.mode = out.mode /\ out'.buf = out.buf /\ out'.isErr = out.isErr
      /\ out'.accepted = out.accepted /\ out'.emitted = out.emitted
      /\ out'.truncated = out.truncated
  <2>1. out \in OutputSink
    BY DEF IInv, Typed
  <2>2. CASE out' = out
    BY <2>2
  <2>3. ASSUME NEW o, out' = [out EXCEPT !.limit = o] PROVE <1>1
    BY <2>1, <2>3 DEF OutputSink
  <2> QED
    BY <2>2, <2>3
<1>2. Ready(stack', out')
  BY DEF Calm, Ready
<1>3. Owned(out')
  BY <1>1 DEF Sink, Owned
<1>4. ~closed => Stream(heard, out')
  BY <1>1 DEF Sink, Stream
<1> QED
  BY <1>2, <1>3, <1>4 DEF Sink

\* The steps that neither print nor send.
LEMMA FramesSeat ==
  ASSUME IInv, Sink,
         \/ Enter \/ GetOutput \/ Finalise \/ FinaliserReturn \/ SweepDone \/ EmitReturn
         \/ SetLimits \/ Shrink \/ CloseFile
  PROVE  Sink'
<1>1. /\ stack \in Seq(Frame) /\ Seated(stack, closed)
      /\ UNCHANGED <<heard, closed>>
  BY DEF IInv, Good, Sink, Enter, GetOutput, Finalise, FinaliserReturn, SweepDone,
         EmitReturn, SetLimits, Shrink, CloseFile
<1>2. CASE SetLimits \/ Shrink \/ CloseFile
  <2>1. stack' = stack /\ (out' = out \/ \E o : out' = [out EXCEPT !.limit = o])
    BY <1>2 DEF SetLimits, Shrink, CloseFile
  <2>2. Calm(stack)
    BY <1>2, <1>1 DEF SetLimits, Shrink, CloseFile, MayCall, HoldsFiles, InLua, InHost,
                      TopIs, Top, Depth, Calm
  <2> QED
    BY <1>1, <2>1, <2>2, SinkKept
<1>3. CASE Enter
  <2>1. stack' = Append(stack, Blank) /\ out' = out /\ Calm(stack)
    BY <1>3 DEF Enter, Push, MayCall, InHost, TopIs, Top, Depth, Calm
  <2>2. Blank \in Frame /\ Blank.kind = "script" /\ Blank.purpose = "tail"
    BY BlankFacts DEF Blank
  <2>3. Seated(stack', closed) /\ Calm(stack')
    BY <1>1, <2>1, <2>2, SeatPush
  <2> QED
    BY <1>1, <2>1, <2>3, SinkKept
<1>4. CASE GetOutput
  <2> DEFINE f == FlushFor("get")
  <2>1. stack' = Append(stack, f) /\ out' = out /\ Calm(stack)
    BY <1>4 DEF GetOutput, Push, MayCall, InHost, TopIs, Top, Depth, Calm, FlushFor
  <2>2. f \in Frame /\ f.kind = "flush" /\ f.purpose = "get"
    BY BlankFacts DEF Blank, FlushFor, Purposes
  <2> HIDE DEF f
  <2>3. Seated(stack', closed) /\ Calm(stack')
    BY <1>1, <2>1, <2>2, SeatPush
  <2> QED
    BY <1>1, <2>1, <2>3, SinkKept
<1>5. CASE Finalise
  <2> DEFINE f == [Blank EXCEPT !.kind = "finaliser"]
  <2>1. stack' = Append(stack, f) /\ out' = out /\ Calm(stack)
    BY <1>5 DEF Finalise, Push, InLua, TopIs, Top, Depth, Calm
  <2>2. f \in Frame /\ f.kind = "finaliser" /\ f.purpose = "tail"
    BY BlankFacts DEF Blank, Kinds
  <2> HIDE DEF f
  <2>3. Seated(stack', closed) /\ Calm(stack')
    BY <1>1, <2>1, <2>2, SeatPush
  <2> QED
    BY <1>1, <2>1, <2>3, SinkKept
<1>6. CASE FinaliserReturn \/ SweepDone \/ EmitReturn
  <2>1. /\ stack' = Popped(stack) /\ out' = out
        /\ Len(stack) > 0 /\ stack[Len(stack)].kind # "flush"
    BY <1>6 DEF FinaliserReturn, SweepDone, EmitReturn, TopIs, Top, Depth
  <2>2. Seated(stack', closed) /\ Calm(stack')
    BY <1>1, <2>1, SeatPop
  <2> QED
    BY <1>1, <2>1, <2>2, SinkKept
<1> QED
  BY <1>2, <1>3, <1>4, <1>5, <1>6

\* The steps that may end in an error.
LEMMA ErrorSeat ==
  ASSUME IInv, Sink,
         Fail \/ Return \/ ReportReturn \/ Grow \/ BufferFile \/ CallThrow \/ CallReturn
  PROVE  Sink'
<1>1. /\ stack \in Seq(Frame) /\ Seated(stack, closed)
      /\ Good(stack, alloc, policy.memory)
      /\ UNCHANGED <<heard, closed, out>>
  BY DEF IInv, Good, Sink, Fail, Return, ReportReturn, Grow, BufferFile, CallThrow, CallReturn
<1>2. SUFFICES Seated(stack', closed) /\ Calm(stack')
  BY <1>1, SinkKept
<1> DEFINE s == Popped(stack)
<1>3. CASE Fail \/ Grow \/ BufferFile
  <2>1. Len(stack) > 0 /\ stack[Len(stack)].kind \in LuaKinds /\ Calm(stack)
    BY <1>3 DEF Fail, Grow, BufferFile, InLua, TopIs, Top, Depth, LuaKinds, Calm
  <2>2. \/ stack' = stack
        \/ \E pend, fatal : Raise(stack, alloc, pend, fatal)
        \/ OutOfMemory(stack, alloc)
    BY <1>3 DEF Fail, Grow, BufferFile
  <2>3. CASE stack' = stack
    BY <1>1, <2>1, <2>3
  <2>4. ASSUME NEW pend, NEW fatal, Raise(stack, alloc, pend, fatal)
        PROVE  Seated(stack', closed) /\ Calm(stack')
    BY <1>1, <2>1, <2>4, RaiseSeat
  <2>5. CASE OutOfMemory(stack, alloc)
    BY <1>1, <2>1, <2>5, OutOfMemorySeat
  <2> QED
    BY <2>2, <2>3, <2>4, <2>5
<1>4. CASE Return
  <2>1. Len(stack) > 0 /\ stack[Len(stack)].kind = "script" /\ ToHost(stack, alloc)
    BY <1>4 DEF Return, TopIs, Top, Depth
  <2> QED
    BY <1>1, <2>1, ToHostSeat
<1>5. CASE ReportReturn
  <2>1. /\ Len(stack) > 0 /\ stack[Len(stack)].kind = "report"
        /\ ToHost(s, Restored(alloc, Top.saved))
    BY <1>5 DEF ReportReturn, TopIs, Top, Depth
  <2>2. /\ s \in Seq(Frame) /\ Seated(s, closed) /\ Len(s) = Len(stack) - 1
        /\ \A i \in 1 .. Len(stack) - 1 : s[i] = stack[i]
    BY <1>1, <2>1, SeatPop
  <2>3. Len(stack) \in 1 .. Len(stack)
    BY <1>1, <2>1
  <2>4. Len(stack) # 1 /\ stack[Len(stack) - 1].kind = "script"
    <3>1. IF Len(stack) = 1 THEN OnHost(stack[Len(stack)])
          ELSE OnFrame(stack[Len(stack) - 1], stack[Len(stack)])
      BY <1>1, <2>3, StandsOn
    <3> QED
      BY <2>1, <3>1 DEF OnHost, OnFrame
  <2>5. Len(s) > 0 /\ s[Len(s)].kind # "flush"
    BY <2>2, <2>3, <2>4
  <2> HIDE DEF s
  <2> QED
    BY <2>1, <2>2, <2>5, ToHostSeat
<1>6. CASE CallThrow \/ CallReturn
  <2>1. Len(stack) > 0 /\ stack[Len(stack)].kind = "call"
    BY <1>6 DEF CallThrow, CallReturn, TopIs, Top, Depth
  <2>2. s \in Seq(Frame) /\ Seated(s, closed) /\ Calm(s)
    BY <1>1, <2>1, SeatPop
  <2>3. Good(s, alloc, policy.memory) /\ Len(s) > 0 /\ s[Len(s)].kind \in LuaKinds
    BY <1>1, <2>1, ScriptBeneath
  <2>4. \/ stack' = s
        \/ \E fatal : Raise(s, Settled(alloc, Top), pending, fatal)
        \/ OutOfMemory(s, Settled(alloc, Top))
    BY <1>6 DEF CallThrow, CallReturn
  <2> DEFINE led == Settled(alloc, Top)
  <2>5. Good(s, led, policy.memory)
    <3>1. Top \in Frame /\ alloc \in Ledgers /\ Synced(alloc)
      BY <1>1, <2>1 DEF Top, Depth, Good
    <3>2. led \in Ledgers /\ Synced(led) /\ led.limit = alloc.limit
      BY <3>1, SettledFacts
    <3> HIDE DEF led, s
    <3> QED
      BY <2>3, <3>2, LedgerGood
  <2> HIDE DEF s, led
  <2>6. CASE stack' = s
    BY <2>2, <2>6
  <2>7. ASSUME NEW fatal, Raise(s, led, pending, fatal)
        PROVE  Seated(stack', closed) /\ Calm(stack')
    BY <2>2, <2>3, <2>5, <2>7, RaiseSeat
  <2>8. CASE OutOfMemory(s, led)
    BY <2>2, <2>3, <2>5, <2>8, OutOfMemorySeat
  <2> QED
    BY <2>4, <2>6, <2>7, <2>8 DEF led
<1> QED
  BY <1>3, <1>4, <1>5, <1>6

LEMMA CrossSeat ==
  ASSUME IInv, Sink, Cross
  PROVE  Sink'
<1>1. PICK params \in {0, ArgsBytes}, content \in 0 .. MaxBlock :
       LET billed == Charged(alloc, params, Gc)
           call == [Blank EXCEPT !.kind = "call", !.params = params,
                                 !.content = content]
       IN  \/ \E fatal \in BOOLEAN : Raise(stack, alloc, FALSE, fatal)
           \/ \E fatal \in BOOLEAN :
                Raise(stack, Settled(Charged(billed, content, Gc), call), FALSE, fatal)
           \/ stack' = Push(call)
  BY DEF Cross
<1> DEFINE billed == Charged(alloc, params, Gc)
           whole == Charged(billed, content, Gc)
           call == [Blank EXCEPT !.kind = "call", !.params = params, !.content = content]
           refund == Settled(whole, call)
<1>2. /\ UNCHANGED <<closed, out, heard>>
      /\ Len(stack) > 0 /\ stack[Len(stack)].kind \in LuaKinds
  BY DEF Cross, InLua, TopIs, Top, Depth, LuaKinds
<1>3. /\ stack \in Seq(Frame) /\ Seated(stack, closed) /\ Calm(stack)
      /\ Good(stack, alloc, policy.memory) /\ alloc \in Ledgers /\ Synced(alloc)
      /\ params \in Nat /\ content \in Nat
  BY <1>2, MemoryAssumption DEF IInv, Good, Sink, Calm, LuaKinds
<1>4. call \in Frame /\ call.kind = "call" /\ call.purpose = "tail"
  <2>1. Blank \in Frame /\ "call" \in Kinds /\ Blank.purpose = "tail"
    BY BlankFacts DEF Kinds, Blank
  <2> QED
    BY <2>1, <1>3 DEF Frame
<1>5. Good(stack, refund, policy.memory)
  <2>1. billed \in Ledgers /\ Synced(billed) /\ billed.limit = alloc.limit
    BY <1>3, GcIs, ChargedFacts
  <2> HIDE DEF billed, call
  <2>2. whole \in Ledgers /\ Synced(whole) /\ whole.limit = billed.limit
    BY <1>3, <2>1, GcIs, ChargedFacts
  <2> HIDE DEF whole
  <2>3. refund \in Ledgers /\ Synced(refund) /\ refund.limit = whole.limit
    BY <1>4, <2>2, SettledFacts
  <2> HIDE DEF refund
  <2> QED
    BY <1>3, <2>1, <2>2, <2>3, LedgerGood
<1> HIDE DEF refund, call
<1>6. SUFFICES Seated(stack', closed) /\ Calm(stack')
  BY <1>2, SinkKept
<1>7. CASE \E fatal \in BOOLEAN : Raise(stack, alloc, FALSE, fatal)
  BY <1>2, <1>3, <1>7, RaiseSeat
<1>8. CASE \E fatal \in BOOLEAN : Raise(stack, refund, FALSE, fatal)
  <2>1. PICK fatal \in BOOLEAN : Raise(stack, refund, FALSE, fatal)
    BY <1>8
  <2> QED
    BY <1>2, <1>3, <1>5, <2>1, RaiseSeat
<1>9. CASE stack' = Append(stack, call)
  BY <1>3, <1>4, <1>9, SeatPush
<1> QED
  BY <1>1, <1>7, <1>8, <1>9 DEF refund, whole, billed, call, Push

LEMMA WrittenSeat ==
  ASSUME IInv, Sink, Written
  PROVE  Sink'
<1> DEFINE s == Popped(stack)
<1>1. /\ UNCHANGED <<closed, out, heard>>
      /\ Len(stack) > 0 /\ stack[Len(stack)].kind = "write"
      /\ stack' = s \/ Raise(s, alloc, pending, TRUE)
  BY DEF Written, TopIs, Top, Depth
<1>2. /\ stack \in Seq(Frame) /\ Seated(stack, closed)
      /\ Good(stack, alloc, policy.memory) /\ alloc \in Ledgers
  BY DEF IInv, Good, Sink
<1>3. Seated(s, closed) /\ Calm(s)
  BY <1>1, <1>2, SeatPop
<1>4. Good(s, alloc, policy.memory) /\ Len(s) > 0 /\ s[Len(s)].kind \in LuaKinds
  BY <1>1, <1>2, ScriptBeneath
<1> HIDE DEF s
<1>5. Seated(stack', closed) /\ Calm(stack')
  <2>1. CASE stack' = s
    BY <1>3, <2>1
  <2>2. CASE Raise(s, alloc, pending, TRUE)
    BY <1>2, <1>3, <1>4, <2>2, RaiseSeat
  <2> QED
    BY <1>1, <2>1, <2>2
<1> QED
  BY <1>1, <1>5, SinkKept

\* A write for the other stream waits for its flush; one for the same, or with
\* nothing to wait for, is ready.
LEMMA WriteSeat ==
  ASSUME IInv, Sink, Write
  PROVE  Sink'
<1>1. PICK n \in 1 .. MaxWrite, err \in BOOLEAN, nl \in BOOLEAN :
       LET write == [Blank EXCEPT !.kind = "write", !.purpose = "channel",
                                  !.n = n, !.err = err, !.nl = nl]
       IN  stack' = IF err # out.isErr /\ out.buf # <<>>
                      THEN Append(Push(write), FlushFor("channel"))
                      ELSE Push(write)
  BY DEF Write
<1> DEFINE w == [Blank EXCEPT !.kind = "write", !.purpose = "channel",
                              !.n = n, !.err = err, !.nl = nl]
           s == Append(stack, w)
           flush == FlushFor("channel")
<1>2. /\ UNCHANGED <<closed, out, heard>>
      /\ Calm(stack) /\ stack \in Seq(Frame) /\ Seated(stack, closed)
  BY DEF Write, InLua, TopIs, Top, Depth, Calm, IInv, Good, Sink
<1>3. w \in Frame /\ w.kind = "write" /\ w.purpose = "channel" /\ w.err = err
  <2>1. Blank \in Frame /\ "write" \in Kinds /\ "channel" \in Purposes /\ n \in Nat
    BY BlankFacts, MemoryAssumption DEF Kinds, Purposes
  <2> QED
    BY <2>1 DEF Frame
<1>4. flush \in Frame /\ flush.kind = "flush" /\ flush.purpose = "channel"
  BY BlankFacts DEF Purposes, FlushFor, Blank
<1> HIDE DEF w, flush
<1>5. Seated(s, closed) /\ s \in Seq(Frame)
  BY <1>2, <1>3, SeatPush
<1>6. s[Len(s)] = w
  BY <1>2, <1>3
<1> HIDE DEF s
<1>7. Seated(stack', closed) /\ Ready(stack', out)
  <2>1. CASE err # out.isErr /\ out.buf # <<>>
    <3>1. stack' = Append(s, flush)
      BY <1>1, <2>1 DEF s, w, flush, Push
    <3>2. Seated(stack', closed) /\ Calm(stack')
      BY <1>3, <1>4, <1>5, <1>6, <3>1, SeatPush
    <3> QED
      BY <3>2 DEF Calm, Ready
  <2>2. CASE ~(err # out.isErr /\ out.buf # <<>>)
    <3>1. stack' = s
      BY <1>1, <2>2 DEF s, w, Push
    <3> QED
      BY <1>3, <1>5, <1>6, <2>2, <3>1 DEF Ready
  <2> QED
    BY <2>1, <2>2
<1> QED
  BY <1>2, <1>7 DEF Sink

LEMMA CloseSeat ==
  ASSUME IInv, Sink, Close
  PROVE  Sink'
<1> DEFINE f == FlushFor("close")
<1>1. closed' = TRUE /\ UNCHANGED <<out, heard>> /\ stack' = <<f>>
  BY DEF Close, FlushFor
<1>2. f.kind = "flush"
  BY DEF FlushFor, Blank
<1> HIDE DEF f
<1>3. Len(stack') = 1 /\ stack'[1] = f
  BY <1>1
<1>4. Seated(stack', TRUE) /\ Ready(stack', out)
  BY <1>2, <1>3 DEF Seated, Seat, Ready
<1> QED
  BY <1>1, <1>4 DEF Sink

\* Two sequences end to end, element by element.
Joins(r, h, l) ==
  /\ Len(r) = Len(h) + Len(l)
  /\ \A i \in 1 .. Len(h) : r[i] = h[i]
  /\ \A i \in 1 .. Len(l) : r[Len(h) + i] = l[i]

LEMMA JoinFacts ==
  ASSUME NEW S, NEW h \in Seq(S), NEW l \in Seq(S)
  PROVE  h \o l \in Seq(S) /\ Joins(h \o l, h, l)
<1>1. h \o l \in Seq(S) /\ Len(h \o l) = Len(h) + Len(l)
  OBVIOUS
<1>2. \A i \in 1 .. Len(h) : (h \o l)[i] = h[i]
  OBVIOUS
<1>3. \A i \in 1 .. Len(l) : (h \o l)[Len(h) + i] = l[i]
  OBVIOUS
<1> QED
  BY <1>1, <1>2, <1>3 DEF Joins

\* What is taken from the front of the buffer joins the end of what was heard.
LEMMA LeftFacts ==
  ASSUME IInv, NEW n \in Nat, NEW b \in Seq(Byte), Len(b) = n,
         heard \in Seq(Mark), heard' = heard \o Left(b)
  PROVE  /\ heard' \in Seq(Mark) /\ Len(heard') = Len(heard) + n
         /\ \A i \in 1 .. Len(heard) : heard'[i] = heard[i]
         /\ \A i \in 1 .. n :
              /\ heard'[Len(heard) + i].id = b[i].id /\ heard'[Len(heard) + i].err = b[i].err
              /\ heard'[Len(heard) + i].label = IF out.mode = "Buffer" THEN b[i].err ELSE out.isErr
<1> DEFINE l == Left(b)
<1>1. out.isErr \in BOOLEAN /\ (~pending) \in BOOLEAN
  BY DEF IInv, Typed, OutputSink
<1>2. \A i \in 1 .. n : b[i].id \in Nat /\ b[i].err \in BOOLEAN
  <2> SUFFICES ASSUME NEW i \in 1 .. n PROVE b[i].id \in Nat /\ b[i].err \in BOOLEAN
    OBVIOUS
  <2>1. b[i] \in Byte
    OBVIOUS
  <2> QED
    BY <2>1 DEF Byte
<1>3. l = [i \in 1 .. n |->
             [id |-> b[i].id, err |-> b[i].err, given |-> ~pending,
              label |-> IF out.mode = "Buffer" THEN b[i].err ELSE out.isErr]]
  BY DEF Left
<1> HIDE DEF l
<1>4. /\ \A i \in 1 .. n :
           /\ l[i].id = b[i].id /\ l[i].err = b[i].err
           /\ l[i].label = IF out.mode = "Buffer" THEN b[i].err ELSE out.isErr
      /\ \A i \in 1 .. n : l[i] \in Mark
  BY <1>1, <1>2, <1>3 DEF Mark
<1>5. l \in Seq(Mark) /\ Len(l) = n
  BY <1>3, <1>4
<1>6. heard' = heard \o l
  BY DEF l
<1>7. /\ heard' \in Seq(Mark) /\ Len(heard') = Len(heard) + n
      /\ \A i \in 1 .. Len(heard) : heard'[i] = heard[i]
      /\ \A i \in 1 .. n : heard'[Len(heard) + i] = l[i]
  <2>1. PICK h : h = heard
    OBVIOUS
  <2>2. h \in Seq(Mark) /\ l \in Seq(Mark)
    BY <1>5, <2>1
  <2>3. h \o l \in Seq(Mark) /\ Joins(h \o l, h, l)
    BY <2>2, JoinFacts
  <2>4. heard' = h \o l
    BY <1>6, <2>1
  <2> QED
    BY <1>5, <2>1, <2>3, <2>4 DEF Joins
<1> QED
  BY <1>4, <1>7

LEMMA HeardType ==
  ASSUME IInv, NEW b \in Seq(Byte), heard \in Seq(Mark), heard' = heard \o Left(b)
  PROVE  heard' \in Seq(Mark)
<1>1. Len(b) \in Nat
  OBVIOUS
<1> QED
  BY <1>1, LeftFacts

\* The first `take` bytes leave.
LEMMA SentStream ==
  ASSUME IInv, Sink, NEW take \in 1 .. Len(out.buf),
         heard' = heard \o Left(SubSeq(out.buf, 1, take)),
         out' = [out EXCEPT !.buf = SubSeq(out.buf, take + 1, Len(out.buf))],
         out.mode = "Callback"
  PROVE  /\ heard' \in Seq(Mark) /\ Owned(out')
         /\ ~closed => Stream(heard', out')
<1> DEFINE n == Len(out.buf)
           b == SubSeq(out.buf, 1, take)
           c == SubSeq(out.buf, take + 1, n)
           h == Len(heard)
<1>1. /\ out \in OutputSink /\ out.buf \in Seq(Byte) /\ heard \in Seq(Mark)
      /\ n \in Nat /\ h \in Nat /\ take \in 1 .. n
  BY DEF IInv, Typed, OutputSink, Sink
<1>2. /\ b \in Seq(Byte) /\ Len(b) = take /\ take \in Nat
      /\ \A i \in 1 .. take : b[i] = out.buf[i]
  BY <1>1
<1>3. /\ Len(c) = n - take
      /\ \A i \in 1 .. n - take : c[i] = out.buf[take + i]
  BY <1>1
<1>4. /\ out'.mode = out.mode /\ out'.buf = c /\ out'.isErr = out.isErr
      /\ out'.accepted = out.accepted /\ out'.emitted = out.emitted
      /\ out'.truncated = out.truncated
  BY <1>1 DEF OutputSink
<1>5. heard' = heard \o Left(b)
  OBVIOUS
<1> HIDE DEF b, c
<1>6. /\ heard' \in Seq(Mark) /\ Len(heard') = h + take
      /\ \A i \in 1 .. h : heard'[i] = heard[i]
      /\ \A i \in 1 .. take :
           /\ heard'[h + i].id = b[i].id /\ heard'[h + i].err = b[i].err
           /\ heard'[h + i].label = out.isErr
  <2>1. out.mode # "Buffer"
    OBVIOUS
  <2>2. /\ heard' \in Seq(Mark) /\ Len(heard') = Len(heard) + take
        /\ \A i \in 1 .. Len(heard) : heard'[i] = heard[i]
        /\ \A i \in 1 .. take :
             /\ heard'[Len(heard) + i].id = b[i].id
             /\ heard'[Len(heard) + i].err = b[i].err
             /\ heard'[Len(heard) + i].label =
                  IF out.mode = "Buffer" THEN b[i].err ELSE out.isErr
    BY <1>1, <1>2, <1>5, LeftFacts
  <2> QED
    BY <2>1, <2>2
<1>7. Owned(out')
  BY <1>4 DEF Sink, Owned
<1>8. ASSUME ~closed PROVE Stream(heard', out')
  <2>1. /\ \A i \in 1 .. h : heard[i].id = i /\ heard[i].label = heard[i].err
        /\ \A i \in 1 .. n : out.buf[i].id = h + i
        /\ h + n = out.accepted
        /\ \A i \in 1 .. n : out.buf[i].err = out.isErr
    BY <1>8 DEF Sink, Stream
  <2> HIDE DEF h, n
  <2>2. ASSUME NEW i \in 1 .. h + take
        PROVE  heard'[i].id = i /\ heard'[i].label = heard'[i].err
    <3>1. CASE i \in 1 .. h
      BY <1>6, <2>1, <3>1
    <3>2. CASE i \notin 1 .. h
      <4> DEFINE j == i - h
      <4>1. j \in 1 .. take /\ j \in 1 .. n /\ i = h + j
        BY <1>1, <3>2
      <4> HIDE DEF j
      <4>2. b[j] = out.buf[j] /\ out.buf[j].id = h + j /\ out.buf[j].err = out.isErr
        BY <1>2, <2>1, <4>1
      <4>3. /\ heard'[h + j].id = b[j].id /\ heard'[h + j].err = b[j].err
            /\ heard'[h + j].label = out.isErr
        BY <1>6, <4>1
      <4> QED
        BY <4>1, <4>2, <4>3
    <3> QED
      BY <3>1, <3>2
  <2>3. ASSUME NEW i \in 1 .. n - take
        PROVE  c[i].id = h + take + i /\ c[i].err = out.isErr
    <3>1. take + i \in 1 .. n
      BY <1>1
    <3>2. c[i] = out.buf[take + i]
      BY <1>3
    <3>3. out.buf[take + i].id = h + (take + i) /\ out.buf[take + i].err = out.isErr
      BY <2>1, <3>1
    <3> QED
      BY <1>1, <3>2, <3>3
  <2>4. h + take + (n - take) = out.accepted
    BY <1>1, <2>1
  <2>5. Len(out'.buf) = n - take /\ Len(heard') = h + take
    BY <1>3, <1>4, <1>6
  <2> QED
    BY <1>4, <2>2, <2>3, <2>4, <2>5 DEF Stream
<1> QED
  BY <1>6, <1>7, <1>8

LEMMA TakeOutputSeat ==
  ASSUME IInv, Sink, TakeOutput
  PROVE  Sink'
<1> DEFINE n == Len(out.buf)
           b == out.buf
           h == Len(heard)
<1>1. /\ out \in OutputSink /\ b \in Seq(Byte) /\ heard \in Seq(Mark)
      /\ n \in Nat /\ h \in Nat
  BY DEF IInv, Typed, OutputSink, Sink
<1>2. /\ heard' = heard \o Left(b) /\ UNCHANGED <<stack, closed>>
      /\ out' = [out EXCEPT !.buf = <<>>, !.cap = 0, !.written = 0]
      /\ out.mode = "Buffer" /\ Calm(stack)
  BY DEF TakeOutput, MayCall, InHost, TopIs, Top, Depth, Calm
<1>3. /\ out'.mode = out.mode /\ out'.buf = <<>> /\ out'.accepted = out.accepted
      /\ out'.emitted = out.emitted /\ out'.truncated = out.truncated
  BY <1>1, <1>2 DEF OutputSink
<1>4. /\ heard' \in Seq(Mark) /\ Len(heard') = h + n
      /\ \A i \in 1 .. h : heard'[i] = heard[i]
      /\ \A i \in 1 .. n :
           /\ heard'[h + i].id = b[i].id /\ heard'[h + i].err = b[i].err
           /\ heard'[h + i].label = b[i].err
  <2>1. /\ heard' \in Seq(Mark) /\ Len(heard') = Len(heard) + n
        /\ \A i \in 1 .. Len(heard) : heard'[i] = heard[i]
        /\ \A i \in 1 .. n :
             /\ heard'[Len(heard) + i].id = b[i].id
             /\ heard'[Len(heard) + i].err = b[i].err
             /\ heard'[Len(heard) + i].label =
                  IF out.mode = "Buffer" THEN b[i].err ELSE out.isErr
    BY <1>1, <1>2, LeftFacts
  <2> QED
    BY <1>2, <2>1
<1>5. Owned(out') /\ Ready(stack', out')
  BY <1>2, <1>3 DEF Sink, Owned, Ready, Calm
<1>6. ASSUME ~closed PROVE Stream(heard', out')
  <2>1. /\ \A i \in 1 .. h : heard[i].id = i /\ heard[i].label = heard[i].err
        /\ \A i \in 1 .. n : b[i].id = h + i
        /\ h + n = out.accepted
    BY <1>6 DEF Sink, Stream
  <2> HIDE DEF h, n, b
  <2>2. ASSUME NEW i \in 1 .. h + n
        PROVE  heard'[i].id = i /\ heard'[i].label = heard'[i].err
    <3>1. CASE i \in 1 .. h
      BY <1>4, <2>1, <3>1
    <3>2. CASE i \notin 1 .. h
      <4> DEFINE j == i - h
      <4>1. j \in 1 .. n /\ i = h + j
        BY <1>1, <3>2
      <4> HIDE DEF j
      <4> QED
        BY <1>4, <2>1, <4>1
    <3> QED
      BY <3>1, <3>2
  <2>3. Len(heard') + 0 = out.accepted /\ Len(out'.buf) = 0
    BY <1>1, <1>3, <1>4, <2>1
  <2>4. out'.mode # "Callback"
    BY <1>2, <1>3
  <2> QED
    BY <1>3, <1>4, <2>2, <2>3, <2>4 DEF Stream
<1> QED
  BY <1>2, <1>4, <1>5, <1>6 DEF Sink

LEMMA FlushEmitSeat ==
  ASSUME IInv, Sink, FlushEmit
  PROVE  Sink'
<1>1. PICK take \in Due :
        /\ heard' = heard \o Left(SubSeq(out.buf, 1, take))
        /\ out' = [out EXCEPT !.buf = SubSeq(out.buf, take + 1, Len(out.buf))]
  BY DEF FlushEmit
<1> DEFINE f == [Blank EXCEPT !.kind = "emit", !.purpose = Top.purpose]
<1>2. /\ closed' = closed /\ stack \in Seq(Frame) /\ Seated(stack, closed)
      /\ Len(stack) > 0 /\ stack[Len(stack)].kind = "flush"
      /\ Top = stack[Len(stack)] /\ stack' = Append(stack, f) /\ Top \in Frame
  BY DEF FlushEmit, TopIs, Top, Depth, Push, IInv, Good, Sink
<1>3. take \in 1 .. Len(out.buf) /\ out.mode = "Callback"
  BY DEF Due
<1>4. f \in Frame /\ f.kind = "emit" /\ f.purpose = Top.purpose
  <2>1. Top.purpose \in Purposes /\ "emit" \in Kinds /\ Blank \in Frame
    BY <1>2, BlankFacts DEF Frame, Kinds
  <2> QED
    BY <2>1 DEF Frame
<1> HIDE DEF f
<1>5. Top.purpose = "close" => closed
  <2>1. Seat(stack, Len(stack), closed)
    BY <1>2 DEF Seated
  <2> QED
    BY <1>2, <2>1 DEF Seat
<1>6. Calm(stack)
  BY <1>2 DEF Calm
<1>7. Seated(stack', closed) /\ Calm(stack')
  BY <1>2, <1>4, <1>5, <1>6, SeatPush
<1>8. /\ heard' \in Seq(Mark) /\ Owned(out')
      /\ ~closed => Stream(heard', out')
  BY <1>1, <1>3, SentStream
<1>9. Ready(stack', out')
  BY <1>7 DEF Ready, Calm
<1> QED
  BY <1>2, <1>7, <1>8, <1>9 DEF Sink

\* Once closed the sink owes nothing more.
LEMMA TornDownSeat ==
  ASSUME IInv, Sink, TornDown, closed
  PROVE  Sink'
<1>1. /\ out' = [out EXCEPT !.buf = <<>>, !.cap = 0] /\ stack' = <<>>
      /\ UNCHANGED <<closed, heard>> /\ out \in OutputSink
  BY DEF TornDown, IInv, Typed
<1>2. /\ out'.mode = out.mode /\ out'.accepted = out.accepted
      /\ out'.emitted = out.emitted /\ out'.truncated = out.truncated
  BY <1>1 DEF OutputSink
<1>3. Owned(out')
  BY <1>2 DEF Sink, Owned
<1>4. Len(stack') = 0
  BY <1>1
<1>5. Seated(stack', closed) /\ Ready(stack', out')
  BY <1>4 DEF Seated, Ready
<1> QED
  BY <1>1, <1>3, <1>5 DEF Sink

\* A flush that ends leaves the write it was for with nothing of the other
\* stream to meet.
LEMMA FlushDoneSeat ==
  ASSUME IInv, Sink, FlushDone
  PROVE  Sink'
<1> DEFINE s == Popped(stack)
<1>1. /\ Len(stack) > 0 /\ stack[Len(stack)].kind = "flush"
      /\ Top = stack[Len(stack)] /\ Due = {}
      /\ stack \in Seq(Frame) /\ Seated(stack, closed) /\ out \in OutputSink
  BY DEF FlushDone, TopIs, Top, Depth, IInv, Good, Typed, Sink
<1>2. CASE Top.purpose = "close"
  <2>1. Seat(stack, Len(stack), closed)
    BY <1>1 DEF Seated
  <2>2. closed /\ TornDown
    BY <1>1, <1>2, <2>1 DEF Seat, FlushDone
  <2> QED
    BY <2>2, TornDownSeat
<1>3. CASE Top.purpose # "close"
  <2>1. /\ stack' = s /\ UNCHANGED <<closed, heard>>
        /\ IF Top.purpose = "tail" \/ out.mode # "Callback" THEN out' = out
           ELSE out' = [out EXCEPT !.buf = <<>>, !.cap = 0]
    BY <1>3 DEF FlushDone
  <2>2. /\ s \in Seq(Frame) /\ Seated(s, closed)
        /\ \/ Calm(s)
           \/ Len(s) > 0 /\ s[Len(s)].purpose = Top.purpose
    BY <1>1, SeatPop
  <2> HIDE DEF s
  <2>3. CASE Top.purpose = "tail" \/ out.mode # "Callback"
    <3>1. out' = out
      BY <2>1, <2>3
    <3>2. Ready(s, out)
      BY <2>2, <2>3 DEF Ready, Calm
    <3> QED
      BY <2>1, <2>2, <3>1, <3>2 DEF Sink
  <2>4. CASE Top.purpose # "tail" /\ out.mode = "Callback"
    <3>1. out.buf = <<>>
      <4>1. out.buf \in Seq(Byte)
        BY <1>1 DEF OutputSink
      <4>2. CASE Len(out.buf) = 0
        BY <4>1, <4>2
      <4>3. CASE Len(out.buf) # 0
        <5>1. Len(out.buf) \in 1 .. Len(out.buf)
          BY <4>1, <4>3
        <5>2. Len(out.buf) \in Due
          BY <2>4, <5>1 DEF Due
        <5> QED
          BY <1>1, <5>2
      <4> QED
        BY <4>2, <4>3
    <3>2. out' = [out EXCEPT !.buf = <<>>, !.cap = 0]
      BY <2>1, <2>4
    <3>3. /\ out'.mode = out.mode /\ out'.buf = out.buf /\ out'.isErr = out.isErr
          /\ out'.accepted = out.accepted /\ out'.emitted = out.emitted
          /\ out'.truncated = out.truncated
      BY <1>1, <3>1, <3>2 DEF OutputSink
    <3>4. Ready(s, out')
      BY <3>1, <3>3 DEF Ready
    <3>5. Owned(out') /\ (~closed => Stream(heard, out'))
      BY <3>3 DEF Sink, Owned, Stream
    <3> QED
      BY <2>1, <2>2, <3>4, <3>5 DEF Sink
  <2> QED
    BY <2>3, <2>4
<1> QED
  BY <1>2, <1>3

\* A flush that failed gives the write up.
LEMMA FlushFailedSeat ==
  ASSUME IInv, Sink, NEW purpose \in Purposes, purpose # "close",
         NEW below, Good(below, alloc, policy.memory), Seated(below, closed),
         purpose \in {"tail", "channel"} =>
           Len(below) > 0 /\ below[Len(below)].kind = "write",
         purpose = "get" => Calm(below),
         FlushFailed(purpose, below)
  PROVE  Seated(stack', closed) /\ Calm(stack') /\ closed' = closed
<1> DEFINE s == Popped(below)
<1>1. closed' = closed
  BY DEF FlushFailed, Purposes
<1>2. CASE purpose = "get"
  BY <1>1, <1>2 DEF FlushFailed
<1>3. CASE purpose \in {"tail", "channel"}
  <2>1. stack' = s \/ \E fatal \in BOOLEAN : Raise(s, alloc, FALSE, fatal)
    BY <1>3 DEF FlushFailed
  <2>2. below \in Seq(Frame) /\ Seated(s, closed) /\ Calm(s)
    <3>1. below \in Seq(Frame)
      BY DEF Good
    <3> QED
      BY <1>3, <3>1, SeatPop
  <2>3. Good(s, alloc, policy.memory) /\ Len(s) > 0 /\ s[Len(s)].kind \in LuaKinds
    BY <1>3, ScriptBeneath
  <2> HIDE DEF s
  <2>4. CASE stack' = s
    BY <1>1, <2>2, <2>4
  <2>5. ASSUME NEW fatal, Raise(s, alloc, FALSE, fatal)
        PROVE  Seated(stack', closed) /\ Calm(stack')
    BY <2>2, <2>3, <2>5, RaiseSeat
  <2> QED
    BY <1>1, <2>1, <2>4, <2>5
<1> QED
  BY <1>2, <1>3 DEF Purposes

\* The flush that failed, and what the callback that threw was called for.
LEMMA FlushRefusedSeat ==
  ASSUME IInv, Sink, FlushRefused
  PROVE  Sink'
<1> DEFINE s == Popped(stack)
<1>1. PICK take \in Due :
        /\ heard' = heard \o Left(SubSeq(out.buf, 1, take))
        /\ out' = [out EXCEPT !.buf = SubSeq(out.buf, take + 1, Len(out.buf))]
  BY DEF FlushRefused
<1>2. take \in 1 .. Len(out.buf) /\ out.mode = "Callback"
  BY DEF Due
<1>3. /\ Len(stack) > 0 /\ stack[Len(stack)].kind = "flush"
      /\ Top = stack[Len(stack)] /\ Top.purpose # "close" /\ Top \in Frame
      /\ FlushFailed(Top.purpose, s)
      /\ Good(stack, alloc, policy.memory) /\ stack \in Seq(Frame)
      /\ Seated(stack, closed)
  BY DEF FlushRefused, TopIs, Top, Depth, IInv, Good, Sink
<1>4. /\ Good(s, alloc, policy.memory)
      /\ Top.purpose \in {"tail", "channel"} => Len(s) > 0 /\ s[Len(s)].kind = "write"
  BY <1>3, FlushStandsOn
<1>5. Seated(s, closed) /\ (Top.purpose = "get" => Calm(s))
  BY <1>3, SeatPop
<1>6. Top.purpose \in Purposes
  BY <1>3 DEF Frame
<1> HIDE DEF s
<1>7. PICK purpose \in Purposes : purpose = Top.purpose
  BY <1>6
<1>8. Seated(stack', closed) /\ Calm(stack') /\ closed' = closed
  <2>1. /\ purpose # "close" /\ FlushFailed(purpose, s)
        /\ purpose \in {"tail", "channel"} => Len(s) > 0 /\ s[Len(s)].kind = "write"
        /\ purpose = "get" => Calm(s)
    BY <1>3, <1>4, <1>5, <1>7
  <2> QED
    BY <1>4, <1>5, <2>1, FlushFailedSeat
<1>9. /\ heard' \in Seq(Mark) /\ Owned(out')
      /\ ~closed => Stream(heard', out')
  BY <1>1, <1>2, SentStream
<1>10. Ready(stack', out')
  BY <1>8 DEF Ready, Calm
<1> QED
  BY <1>8, <1>9, <1>10 DEF Sink

LEMMA EmitThrowSeat ==
  ASSUME IInv, Sink, EmitThrow
  PROVE  Sink'
<1> DEFINE e == Popped(stack)
           s == Popped(e)
<1>1. /\ Len(stack) > 0 /\ stack[Len(stack)].kind = "emit"
      /\ Top = stack[Len(stack)] /\ Top \in Frame
      /\ Good(stack, alloc, policy.memory) /\ stack \in Seq(Frame)
      /\ Seated(stack, closed) /\ Len(stack) \in 1 .. Len(stack)
  BY DEF EmitThrow, TopIs, Top, Depth, IInv, Good, Sink
<1>2. CASE Top.purpose = "close"
  <2>1. Seat(stack, Len(stack), closed)
    BY <1>1 DEF Seated
  <2>2. closed /\ TornDown
    BY <1>1, <1>2, <2>1 DEF Seat, EmitThrow
  <2> QED
    BY <2>2, TornDownSeat
<1>3. CASE Top.purpose # "close"
  <2>1. /\ Good(e, alloc, policy.memory) /\ Len(e) = Len(stack) - 1
        /\ \A i \in 1 .. Len(stack) - 1 : e[i] = stack[i]
    BY <1>1, PopGood
  <2>2. e \in Seq(Frame) /\ Seated(e, closed)
    BY <1>1, SeatPop
  <2>3. /\ Len(stack) # 1 /\ stack[Len(stack) - 1].kind = "flush"
        /\ stack[Len(stack) - 1].purpose = Top.purpose
    <3>1. IF Len(stack) = 1 THEN OnHost(Top) ELSE OnFrame(stack[Len(stack) - 1], Top)
      BY <1>1, StandsOn
    <3> QED
      BY <1>1, <3>1 DEF OnHost, OnFrame
  <2>4. Len(e) > 0 /\ e[Len(e)].kind = "flush" /\ e[Len(e)].purpose = Top.purpose
    BY <1>1, <2>1, <2>3
  <2>5. FlushFailed(Top.purpose, s) /\ UNCHANGED <<out, heard>>
    BY <1>3 DEF EmitThrow
  <2> HIDE DEF e
  <2>6. /\ Good(s, alloc, policy.memory)
        /\ Top.purpose \in {"tail", "channel"} => Len(s) > 0 /\ s[Len(s)].kind = "write"
    BY <2>1, <2>4, FlushStandsOn
  <2>7. Seated(s, closed) /\ (Top.purpose = "get" => Calm(s))
    BY <2>2, <2>4, SeatPop
  <2> HIDE DEF s
  <2>8. PICK purpose \in Purposes : purpose = Top.purpose
    BY <1>1 DEF Frame
  <2>9. /\ purpose # "close" /\ FlushFailed(purpose, s)
        /\ purpose \in {"tail", "channel"} => Len(s) > 0 /\ s[Len(s)].kind = "write"
        /\ purpose = "get" => Calm(s)
    BY <1>3, <2>5, <2>6, <2>7, <2>8
  <2>10. Seated(stack', closed) /\ Calm(stack') /\ closed' = closed
    BY <2>6, <2>7, <2>9, FlushFailedSeat
  <2> QED
    BY <2>5, <2>10, SinkKept
<1> QED
  BY <1>2, <1>3

LEMMA CountedFields ==
  ASSUME out \in OutputSink, NEW w \in Frame, NEW over \in BOOLEAN, NEW o,
         o = Counted(w, over)
  PROVE  /\ o.mode = out.mode /\ o.buf = out.buf /\ o.isErr = w.err
         /\ o.accepted = out.accepted /\ o.emitted = out.emitted + w.n
         /\ o.truncated = (out.truncated \/ over)
BY DEF Counted, OutputSink

\* A write that adds nothing to the buffer still says which stream is next.
LEMMA CountedStream ==
  ASSUME IInv, Sink, NEW w \in Frame, NEW over \in BOOLEAN, NEW o,
         o = Counted(w, over),
         out.mode = "Callback" => out.buf = <<>> \/ out.isErr = w.err,
         out.mode # "Discard" /\ w.n > 0 => over
  PROVE  Owned(o) /\ (~closed => Stream(heard, o))
<1>1. /\ out \in OutputSink /\ out.emitted \in Nat /\ out.accepted \in Nat /\ w.n \in Nat
      /\ out.truncated \in BOOLEAN
  BY DEF IInv, Typed, OutputSink, Frame
<1>2. /\ o.mode = out.mode /\ o.buf = out.buf /\ o.isErr = w.err
      /\ o.accepted = out.accepted /\ o.emitted = out.emitted + w.n
      /\ o.truncated = (out.truncated \/ over)
  BY <1>1, CountedFields
<1>3. Owned(o)
  <2>1. SUFFICES ASSUME out.mode # "Discard"
                 PROVE  o.emitted >= o.accepted /\ (o.emitted = o.accepted \/ o.truncated)
    BY <1>2 DEF Owned
  <2>2. out.emitted >= out.accepted /\ (out.emitted = out.accepted \/ out.truncated)
    BY <2>1 DEF Sink, Owned
  <2>3. CASE w.n = 0
    BY <1>1, <1>2, <2>2, <2>3
  <2>4. CASE w.n > 0
    <3>1. o.truncated
      BY <1>2, <2>1, <2>4
    <3>2. o.emitted >= o.accepted
      BY <1>1, <1>2, <2>2
    <3> QED
      BY <3>1, <3>2
  <2> QED
    BY <1>1, <2>3, <2>4
<1>4. ASSUME ~closed PROVE Stream(heard, o)
  <2>1. Stream(heard, out)
    BY <1>4 DEF Sink
  <2>2. o.mode = "Callback" => \A i \in 1 .. Len(o.buf) : o.buf[i].err = o.isErr
    <3>1. CASE out.buf = <<>>
      BY <1>2, <3>1
    <3>2. CASE out.isErr = w.err
      BY <1>2, <2>1, <3>2 DEF Stream
    <3> QED
      BY <1>2, <3>1, <3>2
  <2> QED
    BY <1>2, <2>1, <2>2 DEF Stream
<1> QED
  BY <1>3, <1>4

\* What fits the budget joins the end of the buffer.
LEMMA TakenStream ==
  ASSUME IInv, Sink, NEW w \in Frame, NEW over \in BOOLEAN, NEW take \in Nat, NEW o,
         NEW b \in Seq(Byte), Len(b) = take,
         \A i \in 1 .. take : b[i].id = out.accepted + i /\ b[i].err = w.err,
         o.mode = out.mode, o.buf = out.buf \o b, o.isErr = w.err,
         o.accepted = out.accepted + take, o.emitted = out.emitted + w.n,
         o.truncated = (out.truncated \/ over),
         out.mode = "Callback" => out.buf = <<>> \/ out.isErr = w.err,
         take <= w.n, take = w.n \/ over
  PROVE  Owned(o) /\ (~closed => Stream(heard, o))
<1>1. /\ out \in OutputSink /\ out.emitted \in Nat /\ out.accepted \in Nat /\ w.n \in Nat
      /\ out.truncated \in BOOLEAN /\ out.buf \in Seq(Byte) /\ Len(out.buf) \in Nat
      /\ Len(heard) \in Nat
  BY DEF IInv, Typed, OutputSink, Frame, Sink
<1>2. Owned(o)
  <2>1. SUFFICES ASSUME out.mode # "Discard"
                 PROVE  o.emitted >= o.accepted /\ (o.emitted = o.accepted \/ o.truncated)
    BY DEF Owned
  <2>2. out.emitted >= out.accepted /\ (out.emitted = out.accepted \/ out.truncated)
    BY <2>1 DEF Sink, Owned
  <2>3. o.emitted >= o.accepted
    BY <1>1, <2>2
  <2>4. o.emitted = o.accepted \/ out.truncated \/ over
    BY <1>1, <2>2
  <2> QED
    BY <2>3, <2>4
<1>3. ASSUME ~closed PROVE Stream(heard, o)
  <2> DEFINE n == Len(out.buf)
             h == Len(heard)
  <2>1. /\ \A i \in 1 .. h : heard[i].id = i /\ heard[i].label = heard[i].err
        /\ \A i \in 1 .. n : out.buf[i].id = h + i
        /\ h + n = out.accepted
        /\ out.mode = "Callback" => \A i \in 1 .. n : out.buf[i].err = out.isErr
    BY <1>3 DEF Sink, Stream
  <2>2. /\ Len(o.buf) = n + take
        /\ \A i \in 1 .. n : o.buf[i] = out.buf[i]
        /\ \A i \in 1 .. take : o.buf[n + i] = b[i]
    <3>1. PICK c : c = out.buf
      OBVIOUS
    <3>2. Joins(c \o b, c, b)
      <4>1. c \in Seq(Byte) /\ b \in Seq(Byte)
        BY <1>1, <3>1
      <4> QED
        BY <4>1, JoinFacts
    <3>3. o.buf = c \o b
      BY <3>1
    <3> QED
      BY <3>1, <3>2, <3>3 DEF Joins
  <2>3. n \in Nat /\ h \in Nat
    BY <1>1
  <2> HIDE DEF n, h
  <2>4. ASSUME NEW i \in 1 .. n + take
        PROVE  /\ o.buf[i].id = h + i
               /\ out.mode = "Callback" => o.buf[i].err = w.err
    <3>1. CASE i \in 1 .. n
      <4>1. o.buf[i] = out.buf[i] /\ out.buf[i].id = h + i
        BY <2>1, <2>2, <3>1
      <4>2. ASSUME out.mode = "Callback" PROVE out.buf[i].err = w.err
        <5>1. out.buf # <<>>
          BY <2>3, <3>1 DEF n
        <5>2. out.isErr = w.err
          BY <4>2, <5>1
        <5> QED
          BY <2>1, <3>1, <4>2, <5>2
      <4> QED
        BY <4>1, <4>2
    <3>2. CASE i \notin 1 .. n
      <4> DEFINE j == i - n
      <4>1. j \in 1 .. take /\ i = n + j
        BY <2>3, <3>2
      <4> HIDE DEF j
      <4>2. o.buf[n + j] = b[j] /\ b[j].id = out.accepted + j /\ b[j].err = w.err
        BY <2>2, <4>1
      <4>3. out.accepted + j = h + i
        BY <2>1, <2>3, <4>1
      <4> QED
        BY <4>1, <4>2, <4>3
    <3> QED
      BY <3>1, <3>2
  <2>5. h + (n + take) = out.accepted + take
    BY <2>1, <2>3
  <2>6. \A i \in 1 .. n + take :
          o.buf[i].id = h + i /\ (out.mode = "Callback" => o.buf[i].err = w.err)
    BY <2>4
  <2>7. \A i \in 1 .. Len(o.buf) : o.buf[i].id = Len(heard) + i
    BY <2>2, <2>6 DEF h
  <2>8. o.mode = "Callback" => \A i \in 1 .. Len(o.buf) : o.buf[i].err = o.isErr
    BY <2>2, <2>6
  <2>9. Len(heard) + Len(o.buf) = o.accepted
    BY <2>2, <2>5 DEF h
  <2> QED
    BY <2>1, <2>7, <2>8, <2>9 DEF Stream, h
<1> QED
  BY <1>2, <1>3

LEMMA AcceptSeat ==
  ASSUME IInv, Sink, Accept
  PROVE  Sink'
<1> DEFINE w     == Top
           room  == IF out.written < out.limit THEN out.limit - out.written ELSE 0
           over  == out.limit # 0 /\ w.n > room
           take  == IF over THEN room ELSE w.n
           keeps == take > 0 /\ out.mode # "Discard"
           bytes == [i \in 1 .. take |->
                       [id |-> out.accepted + i, err |-> w.err,
                        nl |-> w.nl /\ i = w.n]]
           rest  == Popped(stack)
           tail  == [w EXCEPT !.purpose = "tail", !.over = over]
           flush == FlushFor("tail")
           flushing == Append(Append(rest, tail), flush)
<1>1. \/ /\ ~keeps
         /\ out' = Counted(w, over)
         /\ stack' = flushing
      \/ /\ out' = Counted(w, TRUE)
         /\ Raise(rest, alloc, pending, TRUE)
      \/ /\ \E cap : out' = [Counted(w, over) EXCEPT
                               !.buf = @ \o bytes, !.cap = cap,
                               !.accepted = @ + take]
         /\ stack' = flushing
  BY DEF Accept
<1>2. /\ UNCHANGED <<closed, heard>>
      /\ Len(stack) > 0 /\ stack[Len(stack)].kind = "write" /\ w = stack[Len(stack)]
      /\ w.purpose = "channel"
  BY DEF Accept, TopIs, Top, Depth
<1>3. /\ Good(stack, alloc, policy.memory) /\ stack \in Seq(Frame)
      /\ Seated(stack, closed) /\ out \in OutputSink
      /\ out.mode = "Callback" => out.buf = <<>> \/ out.isErr = w.err
  BY <1>2 DEF IInv, Good, Typed, Sink, Ready
<1>4. w \in Frame /\ w.kind = "write" /\ w.n \in Nat /\ w.err \in BOOLEAN /\ w.nl \in BOOLEAN
  <2>1. w \in Frame
    BY <1>2, <1>3
  <2> QED
    BY <2>1, <1>2 DEF Frame
<1>5. out.limit \in Nat /\ out.written \in Nat /\ out.accepted \in Nat
  BY <1>3 DEF OutputSink
<1>6. /\ over \in BOOLEAN /\ take \in Nat /\ take <= w.n /\ (take = w.n \/ over)
      /\ (~keeps /\ out.mode # "Discard" /\ w.n > 0 => over)
  <2>1. room \in Nat
    BY <1>5
  <2> HIDE DEF w, room
  <2> QED
    BY <1>4, <1>5, <2>1
<1>7. tail \in Frame /\ tail.kind = "write" /\ tail.purpose = "tail" /\ flush \in Frame
      /\ flush.kind = "flush" /\ flush.purpose = "tail"
  <2>1. "tail" \in Purposes
    BY DEF Purposes
  <2>2. tail \in Frame /\ tail.kind = "write" /\ tail.purpose = "tail"
    BY <2>1, <1>4, <1>6 DEF Frame
  <2>3. flush \in Frame /\ flush.kind = "flush" /\ flush.purpose = "tail"
    BY <2>1, BlankFacts DEF FlushFor, Blank
  <2> QED
    BY <2>2, <2>3
<1>8. /\ bytes \in Seq(Byte) /\ Len(bytes) = take
      /\ \A i \in 1 .. take : bytes[i].id = out.accepted + i /\ bytes[i].err = w.err
  <2>1. \A i \in 1 .. take :
          bytes[i] \in Byte /\ bytes[i].id = out.accepted + i /\ bytes[i].err = w.err
    <3> SUFFICES ASSUME NEW i \in 1 .. take
                 PROVE  bytes[i] \in Byte /\ bytes[i].id = out.accepted + i /\ bytes[i].err = w.err
      OBVIOUS
    <3>1. out.accepted + i \in Nat /\ (w.nl /\ i = w.n) \in BOOLEAN
      BY <1>4, <1>5, <1>6
    <3> QED
      BY <1>4, <3>1 DEF Byte
  <2>2. bytes \in [1 .. take -> Byte]
    BY <2>1
  <2>3. bytes \in Seq(Byte) /\ Len(bytes) = take
    <3> HIDE DEF bytes
    <3> QED
      BY <2>2, <1>6
  <2> QED
    BY <2>1, <2>3
<1> HIDE DEF w, over, take, bytes, rest, tail, flush
<1>9. /\ Good(rest, alloc, policy.memory) /\ Len(rest) > 0
      /\ rest[Len(rest)].kind \in LuaKinds /\ rest \in Seq(Frame)
      /\ Seated(rest, closed) /\ Calm(rest)
  <2>1. /\ Good(rest, alloc, policy.memory) /\ Len(rest) > 0
        /\ rest[Len(rest)].kind \in LuaKinds
    BY <1>2, <1>3, ScriptBeneath DEF rest
  <2>2. rest \in Seq(Frame) /\ Seated(rest, closed) /\ Calm(rest)
    BY <1>2, <1>3, SeatPop DEF rest
  <2> QED
    BY <2>1, <2>2
<1>10. Seated(flushing, closed) /\ Calm(flushing)
  <2> DEFINE s == Append(rest, tail)
  <2>1. s \in Seq(Frame) /\ s[Len(s)] = tail
    BY <1>7, <1>9
  <2>2. Seated(s, closed)
    BY <1>7, <1>9, SeatPush
  <2> HIDE DEF s
  <2>3. Seated(Append(s, flush), closed) /\ Calm(Append(s, flush))
    BY <1>7, <2>1, <2>2, SeatPush
  <2> QED
    BY <2>3 DEF s
<1> HIDE DEF flushing
<1>11. Seated(stack', closed) /\ Calm(stack')
  <2>1. CASE stack' = flushing
    BY <1>10, <2>1
  <2>2. CASE Raise(rest, alloc, pending, TRUE)
    BY <1>9, <2>2, RaiseSeat
  <2> QED
    BY <1>1, <2>1, <2>2
<1>12. Owned(out') /\ (~closed => Stream(heard, out'))
  <2>1. CASE ~keeps /\ out' = Counted(w, over)
    BY <1>3, <1>4, <1>6, <2>1, CountedStream
  <2>2. CASE out' = Counted(w, TRUE)
    BY <1>3, <1>4, <2>2, CountedStream
  <2>3. ASSUME NEW cap, out' = [Counted(w, over) EXCEPT
                                  !.buf = @ \o bytes, !.cap = cap, !.accepted = @ + take]
        PROVE  Owned(out') /\ (~closed => Stream(heard, out'))
    <3>1. PICK c : c = Counted(w, over)
      OBVIOUS
    <3>2. /\ c.mode = out.mode /\ c.buf = out.buf /\ c.isErr = w.err
          /\ c.accepted = out.accepted /\ c.emitted = out.emitted + w.n
          /\ c.truncated = (out.truncated \/ over)
      BY <1>3, <1>4, <1>6, <3>1, CountedFields
    <3>3. c \in OutputSink
      BY <1>3, <1>4, <1>6, <3>1, CountedFacts
    <3>4. out' = [c EXCEPT !.buf = c.buf \o bytes, !.cap = cap,
                           !.accepted = c.accepted + take]
      BY <2>3, <3>1
    <3>5. /\ out'.mode = out.mode /\ out'.buf = out.buf \o bytes /\ out'.isErr = w.err
          /\ out'.accepted = out.accepted + take /\ out'.emitted = out.emitted + w.n
          /\ out'.truncated = (out.truncated \/ over)
      BY <3>2, <3>3, <3>4 DEF OutputSink
    <3> QED
      BY <1>3, <1>4, <1>6, <1>8, <3>5, TakenStream
  <2> QED
    BY <1>1, <2>1, <2>2, <2>3
<1>13. Ready(stack', out')
  BY <1>11 DEF Ready, Calm
<1> QED
  BY <1>2, <1>3, <1>11, <1>12, <1>13 DEF Sink

LEMMA InitSink == Init => Sink
<1> SUFFICES ASSUME Init PROVE Sink
  OBVIOUS
<1>1. /\ out.buf = <<>> /\ out.accepted = 0 /\ out.emitted = 0
      /\ stack = <<>> /\ heard = <<>>
  BY DEF Init
<1>2. heard \in Seq(Mark) /\ Len(heard) = 0 /\ Len(stack) = 0 /\ Len(out.buf) = 0
  BY <1>1
<1> QED
  BY <1>1, <1>2 DEF Sink, Seated, Ready, Owned, Stream

LEMMA StepSink == IInv /\ Sink /\ [Next]_vars => Sink'
<1> SUFFICES ASSUME IInv, Sink, [Next]_vars PROVE Sink'
  OBVIOUS
<1>1. CASE UNCHANGED vars
  BY <1>1 DEF vars, Sink
<1> QED
  BY <1>1, FramesSeat, ErrorSeat, CrossSeat, WrittenSeat, WriteSeat, CloseSeat,
     TakeOutputSeat, FlushEmitSeat, FlushDoneSeat, FlushRefusedSeat, EmitThrowSeat,
     AcceptSeat DEF Next

LEMMA SinkHolds == Spec => [](IInv /\ Sink)
<1>1. Init => IInv /\ Sink
  BY InitLadder, InitSink
<1>2. IInv /\ Sink /\ [Next]_vars => IInv' /\ Sink'
  BY StepSound, StepSink DEF Sound
<1> QED
  BY <1>1, <1>2, PTL DEF Spec

\* luaext_output_write, luaext_output_flush and luaext_output_take between
\* them: every byte the sink accepted leaves it once, in order and under its
\* stream, whatever a callback prints, throws or takes in between.
THEOREM StreamStaysWhole == Spec => []StreamIsWhole
<1>1. Sink => StreamIsWhole
  BY DEF Sink, Stream, StreamIsWhole
<1> QED
  BY <1>1, SinkHolds, PTL

\* luaext_output_write never drops a byte without setting the flag that
\* wasOutputTruncated() reads, whichever of the two budgets refused it.
THEOREM DroppingIsOwnedUp == Spec => []TruncationIsOwnedUp
<1>1. IInv /\ Sink => TruncationIsOwnedUp
  <2> SUFFICES ASSUME IInv, Sink, out.mode # "Discard", out.emitted > out.accepted
               PROVE  out.truncated
    BY DEF TruncationIsOwnedUp
  <2>1. out.emitted \in Nat /\ out.accepted \in Nat
    BY DEF IInv, Typed, OutputSink
  <2> QED
    BY <2>1 DEF Sink, Owned
<1> QED
  BY <1>1, SinkHolds, PTL

-----------------------------------------------------------------------------
(* No counter leaves 0 .. SizeMax *)

\* A new sandbox holds nothing, and a step adds only what fits.
Within == Live(alloc) <= SizeMax

LEMMA StepWithin == IInv /\ Within /\ [Next]_vars => Within'
<1> SUFFICES ASSUME IInv, Within, [Next]_vars PROVE Within'
  OBVIOUS
<1>1. Sound
  BY StepSound
<1>2. /\ Live(alloc) \in Int /\ Live(alloc') \in Int /\ alloc.limit \in Size
      /\ SizeMax \in Nat
  BY <1>1, LedgerAssumption DEF Sound, IInv, Good, Ledgers, Live
<1>3. CASE Grows
  <2>1. Live(alloc') <= IF alloc.limit = 0 THEN SizeMax ELSE alloc.limit
    BY <1>1, <1>3 DEF Sound
  <2> QED
    BY <1>2, <2>1 DEF Size, Within
<1>4. CASE ~Grows
  BY <1>2, <1>4 DEF Grows, Within
<1> QED
  BY <1>3, <1>4

\* The size_t counters of luaext_alloc.c never wrap: the ledger, exact, stays
\* within what Fits let it grow to, and so do the rest of the variables.
THEOREM MemoryTyped == Spec => []TypeOK
<1>1. Init => IInv /\ Books /\ Sink /\ Within
  <2>1. Init => Within
    BY LedgerAssumption DEF Init, Opened, Within, Live
  <2> QED
    BY <2>1, InitLadder, InitBooks, InitSink
<1>2. /\ IInv /\ Books /\ Sink /\ Within /\ [Next]_vars
      => IInv' /\ Books' /\ Sink' /\ Within'
  BY StepSound, StepBooks, StepSink, StepWithin DEF Sound
<1>3. IInv /\ Books /\ Sink /\ Within => TypeOK
  <2> SUFFICES ASSUME IInv, Books, Sink, Within PROVE TypeOK
    OBVIOUS
  <2>1. alloc \in Ledgers /\ alloc.usage \in Nat /\ alloc.charged \in Nat
    BY BooksCover
  <2>2. alloc.usage \in Size /\ alloc.charged \in Size
    BY <2>1, LedgerAssumption DEF Within, Live, Size
  <2>3. alloc \in Account
    BY <2>1, <2>2 DEF Ledgers, Account
  <2> QED
    BY <2>3 DEF IInv, Typed, Good, Sink, Mark, TypeOK
<1> QED
  BY <1>1, <1>2, <1>3, PTL DEF Spec

--------------------------------------------------------------------------------
(* Theorems about Require, for any modules, limits and depth of the C stack.    *)
(*                                                                              *)
(* The invariant has three parts.  The shape of the stack: what each frame can  *)
(* stand on; while an allocation of a require's is under way only a finaliser   *)
(* stands on it, and one finaliser runs at a time.  The errors: a call that     *)
(* remembers a breach has the error of it on its way up through frames that no  *)
(* host code and no finaliser is among, as `failing` or carried by a frame that *)
(* is unmarking its module.  The books: what is marked is held by a frame or    *)
(* stranded, the depth is the frames that deepened it and what is stranded.     *)
(*                                                                              *)
(* A finaliser can require after a require has left its depth and before its    *)
(* module is counted; it runs alone, so that below it at most one require is    *)
(* out of the depth and not in the count, and every other one is a frame that   *)
(* the depth limit allows: the modules counted and the requires under way are   *)
(* never more than maxModules and maxRequireDepth together.                     *)

Frames == [k : {"call", "co", "gc"} \cup Stages, m : Modules \cup {NoModule},
           out : {"none", "plain", "fatal"}, breach : BOOLEAN]

Where(s, ks)   == {n \in 1 .. Len(s) : s[n].k \in ks}
HowMany(s, ks) == Cardinality(Where(s, ks))
HeldBy(s)      == {s[n].m : n \in Where(s, Marking)}

\* What the n-th frame may be, and what it may stand on.
Sits(s, n) ==
    /\ n = 1 => s[n].k = "call"
    /\ n > 1 /\ s[n - 1].k \in Windows => s[n].k = "gc"
    /\ s[n].k \in Stages => s[n].m \in Modules
    /\ s[n].out # "none" => s[n].k \in {"unmark", "leave"}
    /\ \A o \in 1 .. n - 1 :
        /\ s[o].k \in Marking /\ s[n].k \in Stages => s[o].m # s[n].m
        /\ ~(s[o].k = "gc" /\ s[n].k = "gc")
Shape(s) == s \in Seq(Frames) /\ \A n \in 1 .. Len(s) : Sits(s, n)

\* The error of a call that remembers a breach is still on its way to it.
Clear(s, n, r) == \A i \in n + 1 .. r : s[i].k \notin {"call", "gc"}
Coming(s, f, n) ==
    \/ f \in {"fatal", "nomem"} /\ Clear(s, n, Len(s))
    \/ \E r \in n + 1 .. Len(s) : s[r].out = "fatal" /\ Clear(s, n, r)
Kept(s, f, raised) ==
    /\ f # "none" => s # <<>> /\ s[Len(s)].k \notin Windows
    /\ \A n \in 1 .. Len(s) :
        s[n].breach => s[n].k = "call" /\ (raised \/ Coming(s, f, n))

ModuleBooks(s, mk, d, c, str) ==
    /\ mk = HeldBy(s) \cup str.marks
    /\ d = HowMany(s, Deepening) + str.depth
    /\ d + HowMany(s, {"mark"}) <= MaxRequireDepth + 1
    /\ c + HowMany(s, Stages) <= MaxModules + MaxRequireDepth

Stranded == [depth : Nat, marks : SUBSET Modules]

RequireInv ==
    /\ RequireTypeOK /\ stranded \in Stranded
    /\ Shape(loads)
    /\ Kept(loads, failing, interrupted)
    /\ ModuleBooks(loads, marked, depth, count, stranded)

--------------------------------------------------------------------------------
(* Stacks.                                                                      *)

LEMMA Topmost ==
    ASSUME NEW s \in Seq(Frames), s # <<>>
    PROVE  /\ Front(s) \in Seq(Frames) /\ Len(Front(s)) = Len(s) - 1
           /\ Len(s) \in Nat \ {0} /\ DOMAIN s = 1 .. Len(s)
           /\ Last(s) = s[Len(s)] /\ Last(s) \in Frames
           /\ \A i \in 1 .. Len(s) - 1 : Front(s)[i] = s[i]
           /\ Front(s) = SubSeq(s, 1, Len(s) - 1)
           /\ s = Append(Front(s), Last(s))
<1>1. Len(s) \in Nat \ {0} /\ DOMAIN s = 1 .. Len(s)
    BY EmptySeq, LenProperties
<1>2. /\ Front(s) \in Seq(Frames) /\ Len(Front(s)) = Len(s) - 1
      /\ \A i \in 1 .. Len(s) - 1 : Front(s)[i] = s[i]
      /\ Last(s) = s[Len(s)] /\ Last(s) \in Frames
    BY <1>1 DEF Front, Last
<1>3. s = Append(Front(s), Last(s))
    <2>1. Append(Front(s), Last(s)) \in Seq(Frames)
        BY <1>2
    <2>2. Len(Append(Front(s), Last(s))) = Len(s)
        <3>1. Len(Append(Front(s), Last(s))) = Len(Front(s)) + 1
            BY <1>2, AppendProperties
        <3> QED
            BY <3>1, <1>1, <1>2
    <2>3. \A i \in 1 .. Len(s) : Append(Front(s), Last(s))[i] = s[i]
        BY <1>1, <1>2
    <2> QED
        BY <2>1, <2>2, <2>3, SeqEqual
<1> QED
    BY <1>1, <1>2, <1>3 DEF Front

LEMMA LoadPushed ==
    ASSUME NEW b \in Seq(Frames), NEW e \in Frames, NEW t, t = Append(b, e)
    PROVE  /\ t \in Seq(Frames) /\ Len(t) = Len(b) + 1 /\ Len(b) \in Nat
           /\ DOMAIN t = 1 .. Len(b) + 1
           /\ t[Len(b) + 1] = e /\ \A i \in 1 .. Len(b) : t[i] = b[i]
           /\ t # <<>> /\ Front(t) = b /\ Last(t) = e
<1>1. /\ t \in Seq(Frames) /\ Len(t) = Len(b) + 1 /\ Len(b) \in Nat
      /\ t[Len(b) + 1] = e /\ \A i \in 1 .. Len(b) : t[i] = b[i]
    OBVIOUS
<1>2. Len(Front(t)) = Len(b) /\ Front(t) \in Seq(Frames) /\ \A i \in 1 .. Len(b) : Front(t)[i] = b[i]
    BY <1>1 DEF Front
<1>3. Front(t) = b
    BY <1>2, SeqEqual
<1> QED
    BY <1>1, <1>3 DEF Last

LEMMA WhereFinite ==
    ASSUME NEW s \in Seq(Frames), NEW ks
    PROVE  /\ IsFiniteSet(Where(s, ks)) /\ HowMany(s, ks) \in Nat
           /\ Where(s, ks) \subseteq 1 .. Len(s)
<1>1. Len(s) \in Nat /\ Where(s, ks) \subseteq 1 .. Len(s)
    BY DEF Where
<1>2. IsFiniteSet(Where(s, ks))
    <2>1. IsFiniteSet(1 .. Len(s))
        BY <1>1, FS_Interval
    <2> QED
        BY <1>1, <2>1, FS_Subset
<1> QED
    BY <1>1, <1>2, FS_CardinalityType DEF HowMany

LEMMA PushedWhere ==
    ASSUME NEW b \in Seq(Frames), NEW e \in Frames, NEW ks
    PROVE  /\ Where(Append(b, e), ks) = Where(b, ks) \cup (IF e.k \in ks THEN {Len(b) + 1} ELSE {})
           /\ HowMany(Append(b, e), ks) = HowMany(b, ks) + (IF e.k \in ks THEN 1 ELSE 0)
<1> DEFINE t == Append(b, e)
<1>1. /\ t \in Seq(Frames) /\ Len(t) = Len(b) + 1 /\ Len(b) \in Nat
      /\ t[Len(b) + 1] = e /\ \A i \in 1 .. Len(b) : t[i] = b[i]
    BY LoadPushed
<1> HIDE DEF t
<1>2. Where(t, ks) = Where(b, ks) \cup (IF e.k \in ks THEN {Len(b) + 1} ELSE {})
    BY <1>1 DEF Where
<1>3. IsFiniteSet(Where(b, ks)) /\ HowMany(b, ks) \in Nat /\ Len(b) + 1 \notin Where(b, ks)
    BY <1>1, WhereFinite
<1>4. CASE e.k \in ks
    <2>1. Where(t, ks) = Where(b, ks) \cup {Len(b) + 1}
        BY <1>2, <1>4
    <2>2. Cardinality(Where(b, ks) \cup {Len(b) + 1}) = Cardinality(Where(b, ks)) + 1
        BY <1>3, FS_AddElement
    <2> QED
        BY <2>1, <2>2, <1>2, <1>4 DEF HowMany, t
<1>5. CASE e.k \notin ks
    <2>1. Where(t, ks) = Where(b, ks)
        BY <1>2, <1>5
    <2> QED
        BY <2>1, <1>2, <1>3, <1>5 DEF HowMany, t
<1> QED
    BY <1>4, <1>5

(* One more frame: the books' four sums.                                        *)
LEMMA PushedBooks ==
    ASSUME NEW b \in Seq(Frames), NEW e \in Frames, NEW t, t = Append(b, e)
    PROVE  /\ HeldBy(t) = HeldBy(b) \cup (IF e.k \in Marking THEN {e.m} ELSE {})
           /\ HowMany(t, Deepening) = HowMany(b, Deepening) + (IF e.k \in Deepening THEN 1 ELSE 0)
           /\ HowMany(t, {"mark"}) = HowMany(b, {"mark"}) + (IF e.k = "mark" THEN 1 ELSE 0)
           /\ HowMany(t, Stages) = HowMany(b, Stages) + (IF e.k \in Stages THEN 1 ELSE 0)
           /\ HowMany(b, Deepening) \in Nat /\ HowMany(b, {"mark"}) \in Nat
           /\ HowMany(b, Stages) \in Nat
<1>1. /\ t[Len(b) + 1] = e /\ \A i \in 1 .. Len(b) : t[i] = b[i]
      /\ Len(b) \in Nat
    BY LoadPushed
<1>2. Where(t, Marking) = Where(b, Marking) \cup (IF e.k \in Marking THEN {Len(b) + 1} ELSE {})
    BY PushedWhere
<1>3. Where(b, Marking) \subseteq 1 .. Len(b)
    BY WhereFinite
<1>4. HeldBy(t) = HeldBy(b) \cup (IF e.k \in Marking THEN {e.m} ELSE {})
    BY <1>1, <1>2, <1>3 DEF HeldBy
<1>5. HowMany(t, Deepening) = HowMany(b, Deepening) + (IF e.k \in Deepening THEN 1 ELSE 0)
    BY PushedWhere
<1>6. HowMany(t, {"mark"}) = HowMany(b, {"mark"}) + (IF e.k \in {"mark"} THEN 1 ELSE 0)
    BY PushedWhere
<1>7. HowMany(t, Stages) = HowMany(b, Stages) + (IF e.k \in Stages THEN 1 ELSE 0)
    BY PushedWhere
<1>8. /\ HowMany(b, Deepening) \in Nat /\ HowMany(b, {"mark"}) \in Nat
      /\ HowMany(b, Stages) \in Nat
    BY WhereFinite
<1> QED
    BY <1>4, <1>5, <1>6, <1>7, <1>8

LEMMA PushShape ==
    ASSUME NEW b, Shape(b), NEW e \in Frames, NEW t, t = Append(b, e),
           b = <<>> => e.k = "call",
           b # <<>> /\ b[Len(b)].k \in Windows => e.k = "gc",
           e.k \in Stages => e.m \in Modules \ HeldBy(b),
           e.out # "none" => e.k \in {"unmark", "leave"},
           e.k = "gc" => Where(b, {"gc"}) = {}
    PROVE  Shape(t)
<1>1. b \in Seq(Frames)
    BY DEF Shape
<1>2. /\ t \in Seq(Frames) /\ Len(t) = Len(b) + 1 /\ Len(b) \in Nat
      /\ t[Len(b) + 1] = e /\ \A i \in 1 .. Len(b) : t[i] = b[i]
    BY <1>1, LoadPushed
<1>3. ASSUME NEW n \in 1 .. Len(b) PROVE Sits(t, n)
    <2>1. Sits(b, n)
        BY DEF Shape
    <2>2. t[n] = b[n] /\ (n > 1 => t[n - 1] = b[n - 1]) /\ \A o \in 1 .. n - 1 : t[o] = b[o]
        BY <1>2
    <2> QED
        BY <2>1, <2>2 DEF Sits
<1>4. Sits(t, Len(b) + 1)
    <2>1. Len(b) + 1 = 1 => b = <<>>
        BY <1>1, <1>2, EmptySeq
    <2>2. Len(b) + 1 > 1 => b # <<>> /\ t[Len(b) + 1 - 1] = b[Len(b)]
        BY <1>1, <1>2, EmptySeq
    <2>3. ASSUME NEW o \in 1 .. Len(b)
          PROVE  /\ t[o].k \in Marking /\ e.k \in Stages => t[o].m # e.m
                 /\ ~(t[o].k = "gc" /\ e.k = "gc")
        BY <1>2 DEF HeldBy, Where
    <2> QED
        BY <1>2, <2>1, <2>2, <2>3 DEF Sits
<1> QED
    BY <1>2, <1>3, <1>4 DEF Shape

LEMMA PrefixShape ==
    ASSUME NEW s, Shape(s), NEW l \in 0 .. Len(s)
    PROVE  /\ Shape(SubSeq(s, 1, l)) /\ Len(SubSeq(s, 1, l)) = l
           /\ DOMAIN SubSeq(s, 1, l) = 1 .. l
           /\ \A i \in 1 .. l : SubSeq(s, 1, l)[i] = s[i]
<1> DEFINE t == SubSeq(s, 1, l)
<1>1. s \in Seq(Frames) /\ Len(s) \in Nat
    BY DEF Shape
<1>2. t \in Seq(Frames) /\ Len(t) = l /\ \A i \in 1 .. l : t[i] = s[i] /\ DOMAIN t = 1 .. l
    BY <1>1
<1> HIDE DEF t
<1>3. ASSUME NEW n \in 1 .. l PROVE Sits(t, n)
    <2>1. Sits(s, n)
        BY <1>1 DEF Shape
    <2>2. t[n] = s[n] /\ (n > 1 => t[n - 1] = s[n - 1]) /\ \A o \in 1 .. n - 1 : t[o] = s[o]
        BY <1>1, <1>2
    <2> QED
        BY <2>1, <2>2 DEF Sits
<1> QED
    BY <1>2, <1>3 DEF Shape, t

(* Stacks that differ in what their calls remember.                             *)
LEMMA SameStack ==
    ASSUME NEW b \in Seq(Frames), NEW t \in Seq(Frames), Len(t) = Len(b),
           \A i \in 1 .. Len(b) : t[i].k = b[i].k /\ t[i].m = b[i].m /\ t[i].out = b[i].out
    PROVE  /\ Shape(b) => Shape(t)
           /\ HeldBy(t) = HeldBy(b)
           /\ \A ks : Where(t, ks) = Where(b, ks) /\ HowMany(t, ks) = HowMany(b, ks)
<1>1. \A ks : Where(t, ks) = Where(b, ks)
    BY DEF Where
<1>2. \A ks : HowMany(t, ks) = HowMany(b, ks)
    BY <1>1 DEF HowMany
<1>3. HeldBy(t) = HeldBy(b)
    BY <1>1 DEF HeldBy, Where
<1>4. ASSUME Shape(b) PROVE Shape(t)
    <2>1. ASSUME NEW n \in 1 .. Len(b) PROVE Sits(t, n)
        <3>1. Sits(b, n)
            BY <1>4 DEF Shape
        <3>2. /\ t[n].k = b[n].k /\ t[n].m = b[n].m /\ t[n].out = b[n].out
              /\ n > 1 => t[n - 1].k = b[n - 1].k
              /\ \A o \in 1 .. n - 1 : t[o].k = b[o].k /\ t[o].m = b[o].m
            OBVIOUS
        <3> QED
            BY <3>1, <3>2 DEF Sits
    <2> QED
        BY <2>1 DEF Shape
<1> QED
    BY <1>1, <1>2, <1>3, <1>4

(* What stands at the bottom and at the top.                                    *)
LEMMA Ends ==
    ASSUME Shape(loads), loads # <<>>
    PROVE  /\ loads[1].k = "call"
           /\ Front(loads) \in Seq(Frames) /\ Shape(Front(loads))
           /\ Last(loads) \in Frames
           /\ loads = Append(Front(loads), Last(loads))
           /\ Last(loads) = loads[Len(loads)] /\ Len(loads) \in Nat \ {0}
           /\ Len(Front(loads)) = Len(loads) - 1
           /\ Front(loads) = SubSeq(loads, 1, Len(loads) - 1)
           /\ \A i \in 1 .. Len(loads) - 1 : Front(loads)[i] = loads[i]
           /\ Last(loads).k # "call" => Len(loads) > 1 /\ Front(loads) # <<>>
           /\ Last(loads).k \notin {"gc", "call"} => loads[Len(loads) - 1].k \notin Windows
           /\ Last(loads).out # "none" => Last(loads).k \in {"unmark", "leave"}
           /\ Last(loads).k \in Stages => Last(loads).m \in Modules \ HeldBy(Front(loads))
<1>1. loads \in Seq(Frames)
    BY DEF Shape
<1>2. /\ Front(loads) \in Seq(Frames) /\ Len(Front(loads)) = Len(loads) - 1
      /\ Len(loads) \in Nat \ {0}
      /\ Last(loads) = loads[Len(loads)] /\ Last(loads) \in Frames
      /\ \A i \in 1 .. Len(loads) - 1 : Front(loads)[i] = loads[i]
      /\ Front(loads) = SubSeq(loads, 1, Len(loads) - 1)
      /\ loads = Append(Front(loads), Last(loads))
    BY <1>1, Topmost
<1>3. Shape(Front(loads))
    <2>1. Len(loads) - 1 \in 0 .. Len(loads)
        BY <1>2
    <2> QED
        BY <2>1, <1>2, PrefixShape
<1>4. Sits(loads, 1) /\ Sits(loads, Len(loads))
    BY <1>2 DEF Shape
<1>5. loads[1].k = "call"
    BY <1>4 DEF Sits
<1>6. Last(loads).k # "call" => Len(loads) > 1 /\ Front(loads) # <<>>
    BY <1>2, <1>5, EmptySeq
<1>7. Last(loads).k \notin {"gc", "call"} => loads[Len(loads) - 1].k \notin Windows
    BY <1>2, <1>4, <1>6 DEF Sits
<1>8. Last(loads).out # "none" => Last(loads).k \in {"unmark", "leave"}
    BY <1>2, <1>4 DEF Sits
<1>9. Last(loads).k \in Stages => Last(loads).m \in Modules \ HeldBy(Front(loads))
    BY <1>2, <1>4 DEF Sits, HeldBy, Where
<1> QED
    BY <1>2, <1>3, <1>5, <1>6, <1>7, <1>8, <1>9

--------------------------------------------------------------------------------
(* Errors.                                                                      *)

(* A frame that needs no error: a call, a coroutine, a finaliser, a require.    *)
LEMMA PushKept ==
    ASSUME NEW s \in Seq(Frames), NEW raised \in BOOLEAN, Kept(s, "none", raised),
           NEW e \in Frames, e.breach = FALSE, NEW t, t = Append(s, e)
    PROVE  Kept(t, "none", raised)
<1>1. /\ Len(t) = Len(s) + 1 /\ Len(s) \in Nat
      /\ t[Len(s) + 1] = e /\ \A i \in 1 .. Len(s) : t[i] = s[i]
    BY LoadPushed
<1>2. ASSUME NEW n \in 1 .. Len(t), t[n].breach
      PROVE  t[n].k = "call" /\ (raised \/ Coming(t, "none", n))
    <2>1. n \in 1 .. Len(s) /\ t[n] = s[n] /\ s[n].breach
        BY <1>1, <1>2
    <2>2. s[n].k = "call" /\ (raised \/ Coming(s, "none", n))
        BY <2>1 DEF Kept
    <2>3. ASSUME NEW r \in n + 1 .. Len(s), s[r].out = "fatal", Clear(s, n, r)
          PROVE  Coming(t, "none", n)
        BY <1>1, <2>1, <2>3 DEF Coming, Clear
    <2> QED
        BY <2>1, <2>2, <2>3 DEF Coming
<1> QED
    BY <1>2 DEF Kept

(* The innermost frame goes, with the error it was about to raise.              *)
LEMMA PopKept ==
    ASSUME Shape(loads), loads # <<>>, NEW raised \in BOOLEAN, Kept(loads, failing, interrupted),
           NEW f \in {"none", "plain", "fatal", "nomem"},
           failing \in {"fatal", "nomem"} => f \in {"fatal", "nomem"} \/ Last(loads).k \in {"call", "gc"},
           Last(loads).out = "fatal" => f \in {"fatal", "nomem"},
           f # "none" => Len(loads) > 1 /\ loads[Len(loads) - 1].k \notin Windows,
           interrupted => raised \/ Len(loads) = 1
    PROVE  Kept(Front(loads), f, raised)
<1> DEFINE t == Front(loads)
           L == Len(loads)
<1>1. /\ t \in Seq(Frames) /\ Len(t) = L - 1 /\ L \in Nat \ {0}
      /\ \A i \in 1 .. L - 1 : t[i] = loads[i]
      /\ Last(loads) = loads[L]
    BY Ends
<1>2. f # "none" => t # <<>> /\ t[Len(t)].k \notin Windows
    BY <1>1, EmptySeq
<1> HIDE DEF t
<1>3. ASSUME NEW n \in 1 .. Len(t), t[n].breach
      PROVE  t[n].k = "call" /\ (raised \/ Coming(t, f, n))
    <2>1. n \in 1 .. L - 1 /\ t[n] = loads[n] /\ loads[n].breach
        BY <1>1, <1>3
    <2>2. loads[n].k = "call" /\ (interrupted \/ Coming(loads, failing, n))
        BY <1>1, <2>1 DEF Kept
    <2>4. ASSUME failing \in {"fatal", "nomem"}, Clear(loads, n, L)
          PROVE  Coming(t, f, n)
        <3>1. Last(loads).k \notin {"call", "gc"}
            BY <1>1, <2>1, <2>4 DEF Clear
        <3>2. f \in {"fatal", "nomem"} /\ Clear(t, n, Len(t))
            BY <1>1, <2>1, <2>4, <3>1 DEF Clear
        <3> QED
            BY <3>2 DEF Coming
    <2>5. ASSUME NEW r \in n + 1 .. L, loads[r].out = "fatal", Clear(loads, n, r)
          PROVE  Coming(t, f, n)
        <3>1. CASE r = L
            <4>1. f \in {"fatal", "nomem"} /\ Clear(t, n, Len(t))
                BY <1>1, <2>1, <2>5, <3>1 DEF Clear
            <4> QED
                BY <4>1 DEF Coming
        <3>2. CASE r < L
            <4>1. r \in n + 1 .. Len(t) /\ t[r].out = "fatal" /\ Clear(t, n, r)
                BY <1>1, <2>1, <2>5, <3>2 DEF Clear
            <4> QED
                BY <4>1 DEF Coming
        <3> QED
            BY <1>1, <2>5, <3>1, <3>2
    <2>6. t[n].k = "call"
        BY <2>1, <2>2
    <2>7. interrupted \/ Coming(t, f, n)
        <3>1. CASE failing \in {"fatal", "nomem"} /\ Clear(loads, n, L)
            BY <2>4, <3>1
        <3>2. CASE \E r \in n + 1 .. L : loads[r].out = "fatal" /\ Clear(loads, n, r)
            BY <2>5, <3>2
        <3> QED
            BY <2>2, <3>1, <3>2 DEF Coming
    <2> QED
        BY <1>1, <2>1, <2>6, <2>7
<1> QED
    BY <1>2, <1>3 DEF Kept, t

(* A require goes from a stage to the next, and takes the error along.          *)
LEMMA StageKept ==
    ASSUME Shape(loads), loads # <<>>, Kept(loads, failing, interrupted),
           Last(loads).k \in Stages, NEW e \in Frames, e.breach = Last(loads).breach, e.k \in Stages,
           failing \in {"fatal", "nomem"} => e.out = "fatal",
           Last(loads).out = "fatal" => e.out = "fatal",
           NEW t, t = Append(Front(loads), e)
    PROVE  Kept(t, "none", interrupted)
<1> DEFINE L == Len(loads)
<1>1. /\ Front(loads) \in Seq(Frames) /\ Len(Front(loads)) = L - 1 /\ L \in Nat \ {0}
      /\ \A i \in 1 .. L - 1 : Front(loads)[i] = loads[i]
      /\ Last(loads) = loads[L] /\ L > 1
    BY Ends DEF Stages, Marking, Windows
<1>2. Len(t) = L /\ t[L] = e /\ \A i \in 1 .. L - 1 : t[i] = loads[i]
    BY <1>1, LoadPushed
<1>3. ASSUME NEW n \in 1 .. Len(t), t[n].breach
      PROVE  t[n].k = "call" /\ (interrupted \/ Coming(t, "none", n))
    <2>1. loads[n].breach
        BY <1>1, <1>2, <1>3
    <2>2. loads[n].k = "call" /\ (interrupted \/ Coming(loads, failing, n))
        BY <1>1, <1>2, <2>1 DEF Kept
    <2>3. n < L /\ t[n] = loads[n]
        BY <1>1, <1>2, <2>2 DEF Stages, Marking, Windows
    <2>4. ASSUME NEW r \in n + 1 .. L, loads[r].out = "fatal" \/ (r = L /\ e.out = "fatal"),
                 Clear(loads, n, r)
          PROVE  Coming(t, "none", n)
        <3>1. t[r].out = "fatal"
            BY <1>1, <1>2, <2>3, <2>4
        <3>2. Clear(t, n, r)
            BY <1>1, <1>2, <2>3, <2>4 DEF Clear, Stages, Marking, Windows
        <3> QED
            BY <1>2, <3>1, <3>2 DEF Coming
    <2>5. CASE failing \in {"fatal", "nomem"} /\ Clear(loads, n, L)
        <3>1. L \in n + 1 .. L
            BY <1>1, <2>3
        <3> QED
            BY <2>2, <2>3, <2>4, <2>5, <3>1
    <2> QED
        BY <2>2, <2>3, <2>4, <2>5 DEF Coming
<1> QED
    BY <1>3 DEF Kept

(* The innermost call is the last of any part of the stack no call is above.    *)
LEMMA BaseIsBelow ==
    ASSUME Shape(loads), NEW l \in 1 .. Len(loads),
           \A i \in l + 1 .. Len(loads) : loads[i].k # "call"
    PROVE  /\ Base \in 1 .. l /\ loads[Base].k = "call"
           /\ \A i \in Base + 1 .. Len(loads) : loads[i].k # "call"
<1>1. loads \in Seq(Frames) /\ Len(loads) \in Nat /\ DOMAIN loads = 1 .. Len(loads)
    BY DEF Shape
<1>2. loads[1].k = "call"
    BY <1>1 DEF Shape, Sits
<1>3. SUFFICES ASSUME \A n \in 1 .. Len(loads) : loads[n].k = "call" =>
                        \E later \in n + 1 .. Len(loads) : loads[later].k = "call"
               PROVE  FALSE
    <2>1. PICK n \in 1 .. Len(loads) : loads[n].k = "call" /\
                \A later \in n + 1 .. Len(loads) : loads[later].k # "call"
        BY <1>3
    <2>2. /\ Base \in DOMAIN loads /\ loads[Base].k = "call"
          /\ \A later \in Base + 1 .. Len(loads) : loads[later].k # "call"
        BY <1>1, <2>1 DEF Base
    <2> QED
        BY <1>1, <2>2
<1> DEFINE S == {n \in Nat : \/ n = 0 \/ n > Len(loads)
                             \/ \E c \in n .. Len(loads) : loads[c].k = "call"}
<1>4. 0 \in S
    OBVIOUS
<1>5. ASSUME NEW n \in Nat, n \in S PROVE n + 1 \in S
    <2>1. CASE n = 0
        BY <1>1, <1>2, <2>1
    <2>2. CASE n > Len(loads)
        BY <1>1, <2>2
    <2>3. CASE n # 0 /\ n <= Len(loads)
        <3>1. PICK c \in n .. Len(loads) : loads[c].k = "call"
            BY <1>1, <1>5, <2>3
        <3>2. c \in 1 .. Len(loads)
            BY <1>1, <2>3
        <3>3. PICK later \in c + 1 .. Len(loads) : loads[later].k = "call"
            BY <1>3, <3>1, <3>2
        <3>4. later \in n + 1 .. Len(loads)
            BY <1>1, <3>1, <3>3
        <3> QED
            BY <3>3, <3>4
    <2> QED
        BY <1>1, <2>1, <2>2, <2>3
<1> HIDE DEF S
<1>6. Nat \subseteq S
    BY <1>4, <1>5, SetInduction
<1>7. Len(loads) \in S
    BY <1>1, <1>6
<1>8. PICK c \in Len(loads) .. Len(loads) : loads[c].k = "call"
    BY <1>1, <1>7 DEF S
<1>9. c \in 1 .. Len(loads)
    BY <1>1, <1>8
<1>10. PICK later \in c + 1 .. Len(loads) : loads[later].k = "call"
    BY <1>3, <1>8, <1>9
<1> QED
    BY <1>1, <1>8, <1>10

LEMMA BreachNoted ==
    ASSUME NEW b \in Seq(Frames), NEW n \in 1 .. Len(b)
    PROVE  LET t == [b EXCEPT ![n].breach = TRUE]
           IN  /\ t \in Seq(Frames) /\ Len(t) = Len(b)
               /\ \A i \in 1 .. Len(b) : i # n => t[i] = b[i]
               /\ \A i \in 1 .. Len(b) : t[i].k = b[i].k /\ t[i].m = b[i].m /\ t[i].out = b[i].out
<1> DEFINE g == [b[n] EXCEPT !.breach = TRUE]
           t == [b EXCEPT ![n] = g]
<1>1. g \in Frames /\ g.k = b[n].k /\ g.m = b[n].m /\ g.out = b[n].out
    <2>1. b[n] \in Frames
        OBVIOUS
    <2> QED
        BY <2>1 DEF Frames
<1> HIDE DEF g
<1>2. /\ t \in Seq(Frames) /\ Len(t) = Len(b)
      /\ \A i \in 1 .. Len(b) : t[i] = IF i = n THEN g ELSE b[i]
    BY <1>1, ExceptSeq
<1>3. t = [b EXCEPT ![n].breach = TRUE]
    BY DEF g
<1> HIDE DEF t
<1> QED
    BY <1>1, <1>2, <1>3

(* An error is raised in a part of the stack that ends where Lua, or host code, *)
(* runs: the call it must end remembers a limit's.                              *)
LEMMA FailsKept ==
    ASSUME Shape(loads), NEW l \in 1 .. Len(loads), NEW b, b = SubSeq(loads, 1, l),
           \A i \in l + 1 .. Len(loads) : loads[i].k # "call",
           NEW e \in {"plain", "fatal", "nomem"}, NEW raised \in BOOLEAN, Kept(b, e, raised),
           Fails(b, e)
    PROVE  /\ failing' = e
           /\ loads' \in Seq(Frames) /\ Len(loads') = l
           /\ \A i \in 1 .. l : /\ loads'[i].k = b[i].k /\ loads'[i].m = b[i].m
                                /\ loads'[i].out = b[i].out
           /\ Kept(loads', e, raised)
<1>1. Shape(b) /\ b \in Seq(Frames) /\ Len(b) = l /\ DOMAIN b = 1 .. l
      /\ \A i \in 1 .. l : b[i] = loads[i]
    <2>1. loads \in Seq(Frames) /\ Len(loads) \in Nat
        BY DEF Shape
    <2>2. l \in 0 .. Len(loads)
        BY <2>1
    <2>3. Shape(b) /\ Len(b) = l /\ DOMAIN b = 1 .. l /\ \A i \in 1 .. l : b[i] = loads[i]
        BY <2>2, PrefixShape
    <2> QED
        BY <2>3 DEF Shape
<1>2. /\ Base \in 1 .. l /\ loads[Base].k = "call"
      /\ \A i \in Base + 1 .. Len(loads) : loads[i].k # "call"
    BY BaseIsBelow
<1>3. failing' = e
    BY DEF Fails
<1>4. CASE loads' = b
    BY <1>1, <1>3, <1>4
<1>5. CASE /\ e # "plain" /\ \A n \in Base + 1 .. l : b[n].k # "gc"
           /\ loads' = [b EXCEPT ![Base].breach = TRUE]
    <2>1. /\ loads' \in Seq(Frames) /\ Len(loads') = l
          /\ \A i \in 1 .. l : i # Base => loads'[i] = b[i]
          /\ \A i \in 1 .. l : /\ loads'[i].k = b[i].k /\ loads'[i].m = b[i].m
                               /\ loads'[i].out = b[i].out
        <3>1. PICK n \in 1 .. Len(b) : n = Base
            BY <1>1, <1>2
        <3>2. loads' = [b EXCEPT ![n].breach = TRUE]
            BY <1>5, <3>1
        <3> DEFINE t == [b EXCEPT ![n].breach = TRUE]
        <3>3. /\ t \in Seq(Frames) /\ Len(t) = Len(b)
              /\ \A i \in 1 .. Len(b) : i # n => t[i] = b[i]
              /\ \A i \in 1 .. Len(b) : t[i].k = b[i].k /\ t[i].m = b[i].m /\ t[i].out = b[i].out
            BY <1>1, BreachNoted
        <3>4. loads' = t
            BY <3>2
        <3> HIDE DEF t
        <3> QED
            BY <1>1, <3>1, <3>3, <3>4
    <2>2. \A i \in 1 .. l : /\ loads'[i].k = b[i].k /\ loads'[i].m = b[i].m
                            /\ loads'[i].out = b[i].out
        BY <2>1
    <2>3. ASSUME NEW n \in 1 .. l, loads'[n].breach
          PROVE  loads'[n].k = "call" /\ (raised \/ Coming(loads', e, n))
        <3>1. CASE n = Base
            <4>1. Clear(b, Base, l)
                BY <1>1, <1>2, <1>5 DEF Clear
            <4>2. Clear(loads', Base, l)
                BY <4>1, <2>2, <1>2 DEF Clear
            <4> QED
                BY <3>1, <4>2, <1>1, <1>2, <1>5, <2>1, <2>2 DEF Coming
        <3>2. CASE n # Base
            <4>1. b[n].breach
                BY <2>1, <2>3, <3>2
            <4>2. b[n].k = "call" /\ (raised \/ Coming(b, e, n))
                BY <1>1, <4>1 DEF Kept
            <4>3. Coming(b, e, n) => Coming(loads', e, n)
                <5>1. Clear(b, n, l) => Clear(loads', n, l)
                    BY <2>2 DEF Clear
                <5>2. ASSUME NEW r \in n + 1 .. l, b[r].out = "fatal", Clear(b, n, r)
                      PROVE  loads'[r].out = "fatal" /\ Clear(loads', n, r)
                    BY <2>2, <5>2 DEF Clear
                <5> QED
                    BY <1>1, <2>1, <5>1, <5>2 DEF Coming
            <4> QED
                BY <2>2, <4>2, <4>3
        <3> QED
            BY <3>1, <3>2
    <2>4. loads' # <<>> /\ loads'[Len(loads')].k \notin Windows
        <3>1. b[l].k \notin Windows
            BY <1>1 DEF Kept
        <3>2. loads'[l].k \notin Windows /\ Len(loads') # 0
            BY <2>1, <2>2, <3>1
        <3> QED
            BY <2>1, <3>2, EmptySeq
    <2> QED
        BY <1>3, <2>1, <2>2, <2>3, <2>4 DEF Kept
<1>6. \/ loads' = b
      \/ /\ e # "plain" /\ \A n \in Base + 1 .. l : b[n].k # "gc"
         /\ loads' = [b EXCEPT ![Base].breach = TRUE]
    BY <1>1 DEF Fails
<1> QED
    BY <1>4, <1>5, <1>6

--------------------------------------------------------------------------------
(* ModuleBooks.                                                                       *)

(* What the innermost frame holds.                                              *)
LEMMA LastBooks ==
    ASSUME Shape(loads), loads # <<>>
    PROVE  LET b == Front(loads)
               e == Last(loads)
           IN  /\ HeldBy(loads) = HeldBy(b) \cup (IF e.k \in Marking THEN {e.m} ELSE {})
               /\ HowMany(loads, Deepening) = HowMany(b, Deepening) + (IF e.k \in Deepening THEN 1 ELSE 0)
               /\ HowMany(loads, {"mark"}) = HowMany(b, {"mark"}) + (IF e.k = "mark" THEN 1 ELSE 0)
               /\ HowMany(loads, Stages) = HowMany(b, Stages) + (IF e.k \in Stages THEN 1 ELSE 0)
               /\ HowMany(b, Deepening) \in Nat /\ HowMany(b, {"mark"}) \in Nat
               /\ HowMany(b, Stages) \in Nat
<1> DEFINE b == Front(loads)
           e == Last(loads)
<1>1. b \in Seq(Frames) /\ e \in Frames /\ loads = Append(b, e)
    BY Ends
<1> HIDE DEF b, e
<1>2. /\ HeldBy(loads) = HeldBy(b) \cup (IF e.k \in Marking THEN {e.m} ELSE {})
      /\ HowMany(loads, Deepening) = HowMany(b, Deepening) + (IF e.k \in Deepening THEN 1 ELSE 0)
      /\ HowMany(loads, {"mark"}) = HowMany(b, {"mark"}) + (IF e.k = "mark" THEN 1 ELSE 0)
      /\ HowMany(loads, Stages) = HowMany(b, Stages) + (IF e.k \in Stages THEN 1 ELSE 0)
      /\ HowMany(b, Deepening) \in Nat /\ HowMany(b, {"mark"}) \in Nat
      /\ HowMany(b, Stages) \in Nat
    BY <1>1, PushedBooks
<1> QED
    BY <1>2 DEF b, e

(* The frames of the kinds `ks` in a part of the stack, and in the rest.        *)
LEMMA PartsCounted ==
    ASSUME Shape(loads), NEW l \in 0 .. Len(loads), NEW ks
    PROVE  LET b    == SubSeq(loads, 1, l)
               rest == {n \in Inside(ks) : n >= l + 1}
           IN  /\ Where(loads, ks) = Where(b, ks) \cup rest
               /\ HowMany(loads, ks) = HowMany(b, ks) + Cardinality(rest)
               /\ HowMany(b, ks) \in Nat /\ Cardinality(rest) \in Nat
               /\ Where(b, ks) \subseteq 1 .. l
<1> DEFINE b == SubSeq(loads, 1, l)
           rest == {n \in Inside(ks) : n >= l + 1}
<1>1. /\ loads \in Seq(Frames) /\ Len(loads) \in Nat /\ DOMAIN loads = 1 .. Len(loads)
    BY DEF Shape
<1>2. b \in Seq(Frames) /\ Len(b) = l /\ \A i \in 1 .. l : b[i] = loads[i]
    BY PrefixShape DEF Shape
<1> HIDE DEF b
<1>3. Where(b, ks) \subseteq 1 .. l /\ IsFiniteSet(Where(b, ks)) /\ HowMany(b, ks) \in Nat
    BY <1>2, WhereFinite
<1>4. Where(loads, ks) = Where(b, ks) \cup rest
    BY <1>1, <1>2 DEF Where, Inside
<1>5. IsFiniteSet(rest) /\ Where(b, ks) \cap rest = {}
    <2>1. IsFiniteSet(Where(loads, ks)) /\ rest \subseteq Where(loads, ks)
        BY <1>1, <1>4, WhereFinite
    <2>2. IsFiniteSet(rest)
        BY <2>1, FS_Subset
    <2>3. \A n \in rest : n > l
        BY <1>1 DEF Inside
    <2> QED
        BY <1>3, <2>2, <2>3
<1> HIDE DEF rest
<1>6. Cardinality(rest) \in Nat
    BY <1>5, FS_CardinalityType
<1>7. Cardinality(Where(b, ks) \cup rest) = Cardinality(Where(b, ks)) + Cardinality(rest)
    <2>1. Cardinality(Where(b, ks) \cup rest)
            = Cardinality(Where(b, ks)) + Cardinality(rest) - Cardinality(Where(b, ks) \cap rest)
        BY <1>3, <1>5, FS_Union
    <2>2. Cardinality(Where(b, ks) \cap rest) = 0
        BY <1>5, FS_EmptySet
    <2> QED
        BY <2>1, <2>2, <1>3, <1>6 DEF HowMany
<1> QED
    BY <1>3, <1>4, <1>6, <1>7 DEF HowMany, b, rest

(* Frames go without a clean-up: the books still balance.                       *)
LEMMA StrandedBooks ==
    ASSUME Shape(loads), stranded \in Stranded, NEW l \in 0 .. Len(loads), Strands(l + 1),
           ModuleBooks(loads, marked, depth, count, stranded), count \in Nat,
           NEW t \in Seq(Frames), Len(t) = l,
           \A i \in 1 .. l : /\ t[i].k = loads[i].k /\ t[i].m = loads[i].m
                             /\ t[i].out = loads[i].out
    PROVE  /\ Shape(t) /\ stranded' \in Stranded
           /\ ModuleBooks(t, marked, depth, count, stranded')
<1> DEFINE b == SubSeq(loads, 1, l)
           Rest(ks) == {n \in Inside(ks) : n >= l + 1}
<1>1. Shape(b) /\ b \in Seq(Frames) /\ Len(b) = l /\ \A i \in 1 .. l : b[i] = loads[i]
    BY PrefixShape DEF Shape
<1>2. \A ks : /\ Where(loads, ks) = Where(b, ks) \cup Rest(ks)
              /\ HowMany(loads, ks) = HowMany(b, ks) + Cardinality(Rest(ks))
              /\ HowMany(b, ks) \in Nat /\ Cardinality(Rest(ks)) \in Nat
              /\ Where(b, ks) \subseteq 1 .. l
    BY PartsCounted
<1> HIDE DEF b
<1>3. /\ Shape(t) /\ HeldBy(t) = HeldBy(b)
      /\ \A ks : Where(t, ks) = Where(b, ks) /\ HowMany(t, ks) = HowMany(b, ks)
    BY <1>1, SameStack
<1>4. stranded' = [depth |-> stranded.depth + Cardinality(Rest(Deepening)),
                   marks |-> stranded.marks \cup {loads[r].m : r \in Rest(Marking)}]
    BY DEF Strands
<1>5. HeldBy(loads) = HeldBy(b) \cup {loads[r].m : r \in Rest(Marking)}
    <2>1. \A n \in Where(b, Marking) : b[n].m = loads[n].m
        BY <1>1, <1>2
    <2>2. Where(loads, Marking) = Where(b, Marking) \cup Rest(Marking)
        BY <1>2
    <2> HIDE DEF Rest
    <2> QED
        BY <2>1, <2>2 DEF HeldBy
<1>6. HeldBy(loads) \subseteq Modules
    <2>1. ASSUME NEW n \in Where(loads, Marking) PROVE loads[n].m \in Modules
        <3>1. Sits(loads, n)
            BY DEF Shape, Where
        <3> QED
            BY <3>1 DEF Sits, Where, Stages
    <2> QED
        BY <2>1 DEF HeldBy
<1> HIDE DEF Rest
<1>7. stranded' \in Stranded
    BY <1>2, <1>4, <1>5, <1>6 DEF Stranded
<1>8. marked = HeldBy(t) \cup stranded'.marks
    BY <1>3, <1>4, <1>5 DEF ModuleBooks
<1>9. depth = HowMany(t, Deepening) + stranded'.depth
    <2>1. /\ HowMany(loads, Deepening) = HowMany(t, Deepening) + Cardinality(Rest(Deepening))
          /\ HowMany(t, Deepening) \in Nat /\ Cardinality(Rest(Deepening)) \in Nat
        BY <1>2, <1>3
    <2>2. stranded.depth \in Nat
        BY DEF Stranded
    <2>3. stranded'.depth = stranded.depth + Cardinality(Rest(Deepening))
        BY <1>4
    <2> QED
        BY <2>1, <2>2, <2>3 DEF ModuleBooks
<1>10. /\ depth + HowMany(t, {"mark"}) <= MaxRequireDepth + 1
       /\ count + HowMany(t, Stages) <= MaxModules + MaxRequireDepth
    <2>1. /\ HowMany(loads, {"mark"}) = HowMany(t, {"mark"}) + Cardinality(Rest({"mark"}))
          /\ HowMany(t, {"mark"}) \in Nat /\ Cardinality(Rest({"mark"})) \in Nat
        BY <1>2, <1>3
    <2>2. /\ HowMany(loads, Stages) = HowMany(t, Stages) + Cardinality(Rest(Stages))
          /\ HowMany(t, Stages) \in Nat /\ Cardinality(Rest(Stages)) \in Nat
        BY <1>2, <1>3
    <2>3. depth \in Nat
        <3>1. HowMany(loads, Deepening) \in Nat
            BY WhereFinite DEF Shape
        <3> QED
            BY <3>1 DEF ModuleBooks, Stranded
    <2> QED
        BY <2>1, <2>2, <2>3, RequireAssumption DEF ModuleBooks
<1> QED
    BY <1>3, <1>7, <1>8, <1>9, <1>10 DEF ModuleBooks

(* Below a frame that runs a script at most one require is between two stages:  *)
(* a finaliser stands on it, and there is one finaliser.                        *)
LEMMA OneWindow ==
    ASSUME Shape(loads), loads # <<>>, Last(loads).k \notin Windows,
           NEW ks, ks \subseteq Windows
    PROVE  HowMany(loads, ks) <= 1
<1>1. /\ loads \in Seq(Frames) /\ Len(loads) \in Nat \ {0} /\ Last(loads) = loads[Len(loads)]
    BY Ends DEF Shape
<1>2. ASSUME NEW n \in Where(loads, ks)
      PROVE  n \in 1 .. Len(loads) - 1 /\ loads[n + 1].k = "gc"
    <2>1. n \in 1 .. Len(loads) - 1 /\ loads[n].k \in Windows
        BY <1>1 DEF Where
    <2>2. Sits(loads, n + 1) /\ n + 1 > 1 /\ n + 1 - 1 = n
        BY <1>1, <2>1 DEF Shape
    <2> QED
        BY <2>1, <2>2 DEF Sits
<1>3. ASSUME NEW n \in Where(loads, ks), NEW o \in Where(loads, ks), o < n PROVE FALSE
    <2>1. /\ loads[n + 1].k = "gc" /\ loads[o + 1].k = "gc"
          /\ n \in 1 .. Len(loads) - 1 /\ o \in 1 .. Len(loads) - 1
        BY <1>2
    <2>2. n + 1 \in 1 .. Len(loads) /\ o + 1 \in 1 .. (n + 1) - 1
        BY <1>1, <1>3, <2>1
    <2>3. Sits(loads, n + 1)
        BY <2>2 DEF Shape
    <2> QED
        BY <2>1, <2>2, <2>3 DEF Sits
<1>4. Where(loads, ks) = {} \/ \E n : Where(loads, ks) = {n}
    <2>1. \A n, o \in Where(loads, ks) : n = o
        BY <1>1, <1>3 DEF Where
    <2> QED
        BY <2>1
<1>5. ASSUME NEW n, Where(loads, ks) = {n} PROVE HowMany(loads, ks) <= 1
    <2>1. Cardinality({n}) = 1
        BY FS_Singleton
    <2> QED
        BY <1>5, <2>1 DEF HowMany
<1>6. ASSUME Where(loads, ks) = {} PROVE HowMany(loads, ks) <= 1
    BY <1>6, FS_EmptySet DEF HowMany
<1> QED
    BY <1>4, <1>5, <1>6

--------------------------------------------------------------------------------
(* Steps.                                                                       *)

LEMMA InvFacts ==
    ASSUME RequireInv
    PROVE  /\ Shape(loads) /\ loads \in Seq(Frames) /\ Len(loads) \in Nat
           /\ DOMAIN loads = 1 .. Len(loads)
           /\ Kept(loads, failing, interrupted)
           /\ ModuleBooks(loads, marked, depth, count, stranded)
           /\ stranded \in Stranded /\ depth \in Nat /\ count \in Nat
           /\ failing \in {"none", "plain", "fatal", "nomem"} /\ interrupted \in BOOLEAN
           /\ loads = <<>> => failing = "none"
           /\ \A ks : Inside(ks) = Where(loads, ks)
           /\ HeldBy(loads) \subseteq marked
           /\ \A ks : HowMany(loads, ks) \in Nat
<1>1. /\ loads \in Seq(Frames) /\ Len(loads) \in Nat /\ DOMAIN loads = 1 .. Len(loads)
    BY DEF RequireInv, Shape
<1>2. \A ks : HowMany(loads, ks) \in Nat
    BY <1>1, WhereFinite
<1> QED
    BY <1>1, <1>2 DEF RequireInv, RequireTypeOK, Kept, Inside, Where, ModuleBooks

(* The types follow from the books.                                             *)
LEMMA InvHolds ==
    ASSUME marked' \subseteq Modules, loaded' \subseteq Modules, preload' \subseteq Modules,
           count' \in Nat, failing' \in {"none", "plain", "fatal", "nomem"},
           interrupted' \in BOOLEAN, stranded' \in Stranded,
           Shape(loads'), Kept(loads', failing', interrupted'),
           ModuleBooks(loads', marked', depth', count', stranded')
    PROVE  RequireInv'
<1>1. /\ HowMany(loads', Deepening) \in Nat /\ HowMany(loads', {"mark"}) \in Nat
    BY WhereFinite DEF Shape
<1>2. stranded'.depth \in Nat /\ stranded'.marks \subseteq Modules
    BY DEF Stranded
<1>3. depth' \in 0 .. MaxRequireDepth + 1
    BY <1>1, <1>2, RequireAssumption DEF ModuleBooks
<1> QED
    BY <1>2, <1>3 DEF RequireInv, RequireTypeOK

(* A call, a coroutine or a finaliser begins.                                   *)
LEMMA PushKeeps ==
    ASSUME RequireInv, failing = "none", NEW k \in {"call", "co", "gc"},
           loads = <<>> => k = "call",
           loads # <<>> /\ Last(loads).k \in Windows => k = "gc",
           k = "gc" => Inside({"gc"}) = {},
           loads' = Append(loads, Load(k, NoModule)),
           UNCHANGED <<booksVars, packageVars, failing, interrupted>>
    PROVE  RequireInv'
<1> DEFINE e == Load(k, NoModule)
<1>1. /\ e \in Frames /\ e.k = k /\ e.breach = FALSE /\ e.out = "none"
    BY DEF Load, Frames
<1>2. k \notin Stages /\ k \notin Marking /\ k \notin Deepening /\ k # "mark"
    BY DEF Stages, Marking, Windows, Deepening
<1>3. /\ Shape(loads) /\ loads \in Seq(Frames) /\ Kept(loads, failing, interrupted)
      /\ interrupted \in BOOLEAN
      /\ ModuleBooks(loads, marked, depth, count, stranded)
      /\ \A ks : Inside(ks) = Where(loads, ks)
    BY InvFacts
<1> HIDE DEF e
<1>4. loads' = Append(loads, e)
    BY DEF e
<1>5. Shape(loads')
    <2>1. loads # <<>> /\ loads[Len(loads)].k \in Windows => e.k = "gc"
        BY <1>1 DEF Last
    <2>2. e.k = "gc" => Where(loads, {"gc"}) = {}
        BY <1>1, <1>3
    <2> QED
        BY <1>1, <1>2, <1>3, <1>4, <2>1, <2>2, PushShape
<1>6. Kept(loads', failing', interrupted')
    <2>1. Kept(loads', "none", interrupted)
        BY <1>1, <1>3, <1>4, PushKept
    <2> QED
        BY <2>1
<1>7. ModuleBooks(loads', marked', depth', count', stranded')
    <2>1. /\ HeldBy(loads') = HeldBy(loads)
          /\ HowMany(loads', Deepening) = HowMany(loads, Deepening)
          /\ HowMany(loads', {"mark"}) = HowMany(loads, {"mark"})
          /\ HowMany(loads', Stages) = HowMany(loads, Stages)
        <3>1. /\ HeldBy(loads') = HeldBy(loads) \cup (IF e.k \in Marking THEN {e.m} ELSE {})
              /\ HowMany(loads', Deepening) = HowMany(loads, Deepening) + (IF e.k \in Deepening THEN 1 ELSE 0)
              /\ HowMany(loads', {"mark"}) = HowMany(loads, {"mark"}) + (IF e.k = "mark" THEN 1 ELSE 0)
              /\ HowMany(loads', Stages) = HowMany(loads, Stages) + (IF e.k \in Stages THEN 1 ELSE 0)
              /\ HowMany(loads, Deepening) \in Nat /\ HowMany(loads, {"mark"}) \in Nat
              /\ HowMany(loads, Stages) \in Nat
            BY <1>1, <1>3, <1>4, PushedBooks
        <3> QED
            BY <3>1, <1>1, <1>2
    <2> QED
        BY <1>3, <2>1 DEF ModuleBooks, booksVars
<1> QED
    BY <1>5, <1>6, <1>7, InvHolds DEF RequireInv, RequireTypeOK, booksVars, packageVars

(* One of them ends.                                                            *)
LEMMA PopKeeps ==
    ASSUME RequireInv, loads # <<>>, Last(loads).k \in {"call", "co", "gc"},
           loads' = Front(loads),
           UNCHANGED <<booksVars, packageVars>>,
           failing' \in {"none", "plain", "fatal", "nomem"}, interrupted' \in BOOLEAN,
           Kept(loads', failing', interrupted')
    PROVE  RequireInv'
<1>1. Shape(loads) /\ ModuleBooks(loads, marked, depth, count, stranded)
    BY InvFacts
<1>2. Shape(loads')
    BY <1>1, Ends
<1>3. Last(loads).k \notin Stages /\ Last(loads).k \notin Marking /\ Last(loads).k \notin Deepening
      /\ Last(loads).k # "mark"
    BY DEF Stages, Marking, Windows, Deepening
<1>4. /\ HeldBy(loads) = HeldBy(loads')
      /\ HowMany(loads, Deepening) = HowMany(loads', Deepening)
      /\ HowMany(loads, {"mark"}) = HowMany(loads', {"mark"})
      /\ HowMany(loads, Stages) = HowMany(loads', Stages)
    <2> DEFINE b == Front(loads)
               e == Last(loads)
    <2>1. /\ HeldBy(loads) = HeldBy(b) \cup (IF e.k \in Marking THEN {e.m} ELSE {})
          /\ HowMany(loads, Deepening) = HowMany(b, Deepening) + (IF e.k \in Deepening THEN 1 ELSE 0)
          /\ HowMany(loads, {"mark"}) = HowMany(b, {"mark"}) + (IF e.k = "mark" THEN 1 ELSE 0)
          /\ HowMany(loads, Stages) = HowMany(b, Stages) + (IF e.k \in Stages THEN 1 ELSE 0)
          /\ HowMany(b, Deepening) \in Nat /\ HowMany(b, {"mark"}) \in Nat
          /\ HowMany(b, Stages) \in Nat
        BY <1>1, LastBooks
    <2>2. loads' = b
        OBVIOUS
    <2> QED
        BY <1>3, <2>1, <2>2
<1>5. ModuleBooks(loads', marked', depth', count', stranded')
    BY <1>1, <1>4 DEF ModuleBooks, booksVars
<1> QED
    BY <1>2, <1>5, InvHolds DEF RequireInv, RequireTypeOK, booksVars, packageVars

(* An error is raised where a script runs.                                      *)
LEMMA RaiseKeeps ==
    ASSUME RequireInv, ScriptRuns, NEW e \in {"plain", "fatal", "nomem"}, Fails(loads, e),
           UNCHANGED <<booksVars, packageVars, interrupted>>
    PROVE  RequireInv'
<1>1. /\ Shape(loads) /\ loads \in Seq(Frames) /\ Len(loads) \in Nat
      /\ Kept(loads, failing, interrupted) /\ interrupted \in BOOLEAN
      /\ ModuleBooks(loads, marked, depth, count, stranded)
    BY InvFacts
<1>2. loads # <<>> /\ loads[Len(loads)].k \notin Windows /\ failing = "none"
    BY DEF ScriptRuns, Scripted, On, Last, Windows
<1>3. Kept(loads, e, interrupted)
    BY <1>1, <1>2 DEF Kept, Coming
<1>4. Len(loads) \in 1 .. Len(loads) /\ loads = SubSeq(loads, 1, Len(loads))
    <2>1. Len(loads) \in 1 .. Len(loads)
        BY <1>1, <1>2, EmptySeq
    <2>2. loads = SubSeq(loads, 1, Len(loads))
        <3>1. /\ SubSeq(loads, 1, Len(loads)) \in Seq(Frames)
              /\ Len(SubSeq(loads, 1, Len(loads))) = Len(loads)
              /\ \A i \in 1 .. Len(loads) : SubSeq(loads, 1, Len(loads))[i] = loads[i]
            BY <1>1
        <3> QED
            BY <1>1, <3>1, SeqEqual
    <2> QED
        BY <2>1, <2>2
<1>5. \A i \in Len(loads) + 1 .. Len(loads) : loads[i].k # "call"
    BY <1>1
<1>6. /\ failing' = e
      /\ loads' \in Seq(Frames) /\ Len(loads') = Len(loads)
      /\ \A i \in 1 .. Len(loads) : /\ loads'[i].k = loads[i].k /\ loads'[i].m = loads[i].m
                                    /\ loads'[i].out = loads[i].out
      /\ Kept(loads', e, interrupted)
    BY <1>1, <1>3, <1>4, <1>5, FailsKept
<1>7. /\ Shape(loads') /\ HeldBy(loads') = HeldBy(loads)
      /\ \A ks : HowMany(loads', ks) = HowMany(loads, ks)
    BY <1>1, <1>6, SameStack
<1>8. ModuleBooks(loads', marked', depth', count', stranded')
    BY <1>1, <1>7 DEF ModuleBooks, booksVars
<1> QED
    BY <1>6, <1>7, <1>8, InvHolds DEF RequireInv, RequireTypeOK, booksVars, packageVars

(* ... or where require, or the collector for it, left frames behind.           *)
LEMMA StrandKeeps ==
    ASSUME RequireInv, NEW l \in 1 .. Len(loads), NEW b, b = SubSeq(loads, 1, l),
           \A i \in l + 1 .. Len(loads) : loads[i].k # "call",
           NEW e \in {"plain", "fatal", "nomem"}, Kept(b, e, interrupted),
           Fails(b, e), Strands(l + 1),
           UNCHANGED <<marked, depth, count, packageVars, interrupted>>
    PROVE  RequireInv'
<1>1. /\ Shape(loads) /\ loads \in Seq(Frames) /\ Len(loads) \in Nat
      /\ interrupted \in BOOLEAN /\ stranded \in Stranded /\ count \in Nat
      /\ ModuleBooks(loads, marked, depth, count, stranded)
    BY InvFacts
<1>2. l \in 0 .. Len(loads)
    BY <1>1
<1>3. \A i \in 1 .. l : b[i] = loads[i]
    BY <1>1, <1>2, PrefixShape
<1>4. /\ failing' = e
      /\ loads' \in Seq(Frames) /\ Len(loads') = l
      /\ \A i \in 1 .. l : /\ loads'[i].k = b[i].k /\ loads'[i].m = b[i].m
                           /\ loads'[i].out = b[i].out
      /\ Kept(loads', e, interrupted)
    BY <1>1, FailsKept
<1>5. /\ Shape(loads') /\ stranded' \in Stranded
      /\ ModuleBooks(loads', marked, depth, count, stranded')
    BY <1>1, <1>2, <1>3, <1>4, StrandedBooks
<1> QED
    BY <1>4, <1>5, InvHolds DEF RequireInv, RequireTypeOK, packageVars

LEMMA Edited ==
    ASSUME loads \in Seq(Frames), loads # <<>>, NEW k \in Stages, NEW ending \in {"none", "plain", "fatal"}
    PROVE  \E e \in Frames :
              /\ Becomes(k, ending) = Append(Front(loads), e)
              /\ e.k = k /\ e.m = Last(loads).m /\ e.out = ending
              /\ e.breach = Last(loads).breach
<1> DEFINE s == loads
           L == Len(s)
           e == [s[L] EXCEPT !.k = k, !.out = ending]
           t == [s EXCEPT ![L] = e]
<1>1. /\ Front(s) \in Seq(Frames) /\ Len(Front(s)) = L - 1 /\ L \in Nat \ {0}
      /\ DOMAIN s = 1 .. L
      /\ Last(s) = s[L] /\ Last(s) \in Frames /\ \A i \in 1 .. L - 1 : Front(s)[i] = s[i]
    BY Topmost
<1>2. e \in Frames /\ e.k = k /\ e.m = Last(s).m /\ e.out = ending /\ e.breach = Last(s).breach
    BY <1>1 DEF Frames
<1>3. Becomes(k, ending) = t
    BY <1>1 DEF Frames, Becomes
<1> HIDE DEF e
<1>4. /\ t \in Seq(Frames) /\ Len(t) = L /\ \A i \in 1 .. L : t[i] = IF i = L THEN e ELSE s[i]
    <2>1. L \in 1 .. Len(s)
        BY <1>1
    <2> QED
        BY <1>2, <2>1, ExceptSeq
<1>5. /\ Append(Front(s), e) \in Seq(Frames) /\ Len(Append(Front(s), e)) = L
      /\ \A i \in 1 .. L : Append(Front(s), e)[i] = IF i = L THEN e ELSE s[i]
    <2>1. /\ Append(Front(s), e) \in Seq(Frames)
          /\ Len(Append(Front(s), e)) = Len(Front(s)) + 1
          /\ Append(Front(s), e)[Len(Front(s)) + 1] = e
          /\ \A i \in 1 .. Len(Front(s)) : Append(Front(s), e)[i] = Front(s)[i]
        BY <1>1, <1>2, AppendProperties
    <2> QED
        BY <1>1, <2>1
<1>6. t = Append(Front(s), e)
    BY <1>4, <1>5, SeqEqual
<1> QED
    BY <1>2, <1>3, <1>6

(* A require goes from one stage to the next.                                   *)
LEMMA StageMoves ==
    ASSUME RequireInv, loads # <<>>, Last(loads).k \in Stages,
           NEW k \in Stages, NEW ending \in {"none", "plain", "fatal"}, loads' = Becomes(k, ending),
           ending # "none" => k \in {"unmark", "leave"},
           failing \in {"fatal", "nomem"} => ending = "fatal",
           Last(loads).out = "fatal" => ending = "fatal"
    PROVE  LET b == Front(loads)
               m == Last(loads).m
           IN  /\ Shape(loads') /\ Kept(loads', "none", interrupted)
               /\ HeldBy(loads') = HeldBy(b) \cup (IF k \in Marking THEN {m} ELSE {})
               /\ HowMany(loads', Deepening) = HowMany(b, Deepening) + (IF k \in Deepening THEN 1 ELSE 0)
               /\ HowMany(loads', {"mark"}) = HowMany(b, {"mark"}) + (IF k = "mark" THEN 1 ELSE 0)
               /\ HowMany(loads', Stages) = HowMany(loads, Stages)
               /\ m \in Modules \ HeldBy(b)
<1>1. Shape(loads) /\ loads \in Seq(Frames) /\ Kept(loads, failing, interrupted)
    BY InvFacts
<1> DEFINE b == Front(loads)
           m == Last(loads).m
<1>2. /\ Shape(b) /\ b \in Seq(Frames) /\ m \in Modules \ HeldBy(b) /\ b # <<>>
      /\ b[Len(b)].k \notin Windows
    <2>1. Last(loads).k \notin {"call", "gc"}
        BY DEF Stages, Marking, Windows
    <2>2. /\ Shape(b) /\ b \in Seq(Frames) /\ m \in Modules \ HeldBy(b) /\ b # <<>>
          /\ Len(loads) > 1 /\ Len(b) = Len(loads) - 1 /\ Len(loads) \in Nat
          /\ loads[Len(loads) - 1].k \notin Windows
          /\ \A i \in 1 .. Len(loads) - 1 : b[i] = loads[i]
        BY <1>1, <2>1, Ends
    <2>3. b[Len(b)] = loads[Len(loads) - 1]
        BY <2>2
    <2> QED
        BY <2>2, <2>3
<1>3. PICK e \in Frames :
        /\ loads' = Append(b, e)
        /\ e.k = k /\ e.m = m /\ e.out = ending /\ e.breach = Last(loads).breach
    BY <1>1, Edited
<1> HIDE DEF b, m
<1>4. Shape(loads')
    <2>1. e.k # "gc" /\ k \in Stages
        BY <1>3 DEF Stages, Marking, Windows
    <2> QED
        BY <1>2, <1>3, <2>1, PushShape
<1>5. Kept(loads', "none", interrupted)
    <2>1. e.k \in Stages
        BY <1>3
    <2>2. loads' = Append(Front(loads), e)
        BY <1>3 DEF b
    <2> QED
        BY <1>1, <1>3, <2>1, <2>2, StageKept
<1>6. /\ HeldBy(loads') = HeldBy(b) \cup (IF k \in Marking THEN {m} ELSE {})
      /\ HowMany(loads', Deepening) = HowMany(b, Deepening) + (IF k \in Deepening THEN 1 ELSE 0)
      /\ HowMany(loads', {"mark"}) = HowMany(b, {"mark"}) + (IF k = "mark" THEN 1 ELSE 0)
      /\ HowMany(loads', Stages) = HowMany(b, Stages) + 1
    <2>1. /\ HeldBy(loads') = HeldBy(b) \cup (IF e.k \in Marking THEN {e.m} ELSE {})
          /\ HowMany(loads', Deepening) = HowMany(b, Deepening) + (IF e.k \in Deepening THEN 1 ELSE 0)
          /\ HowMany(loads', {"mark"}) = HowMany(b, {"mark"}) + (IF e.k = "mark" THEN 1 ELSE 0)
          /\ HowMany(loads', Stages) = HowMany(b, Stages) + (IF e.k \in Stages THEN 1 ELSE 0)
        BY <1>2, <1>3, PushedBooks
    <2> QED
        BY <1>3, <2>1
<1>7. HowMany(loads, Stages) = HowMany(b, Stages) + 1
    BY <1>1, LastBooks DEF b
<1> QED
    BY <1>2, <1>4, <1>5, <1>6, <1>7 DEF b, m

--------------------------------------------------------------------------------
(* The invariant, action by action.                                             *)

LEMMA HostCallsKeeps == ASSUME RequireInv, HostCalls PROVE RequireInv'
<1>1. /\ failing = "none"
      /\ loads # <<>> => Last(loads).k \notin Windows
    BY InvFacts DEF HostCalls, ScriptRuns, Scripted, On, Windows
<1> QED
    BY <1>1, PushKeeps DEF HostCalls

LEMMA CoroutineBeginsKeeps == ASSUME RequireInv, CoroutineBegins PROVE RequireInv'
<1>1. failing = "none" /\ loads # <<>> /\ Last(loads).k \notin Windows
    BY DEF CoroutineBegins, ScriptRuns, Scripted, On, Windows
<1> QED
    BY <1>1, PushKeeps DEF CoroutineBegins

LEMMA FinalisesKeeps == ASSUME RequireInv, Finalises PROVE RequireInv'
<1>1. failing = "none" /\ loads # <<>>
    BY DEF Finalises, ScriptRuns, Scripted, On
<1> QED
    BY <1>1, PushKeeps DEF Finalises

LEMMA HostCallEndsKeeps == ASSUME RequireInv, HostCallEnds PROVE RequireInv'
<1>1. /\ Shape(loads) /\ loads \in Seq(Frames) /\ Kept(loads, failing, interrupted)
      /\ interrupted \in BOOLEAN /\ loads # <<>> /\ Last(loads).k = "call" /\ Len(loads) \in Nat
    BY InvFacts DEF HostCallEnds, On
<1>2. Last(loads).out = "none" /\ Len(loads) \in Nat \ {0}
    BY <1>1, Ends
<1>3. interrupted' \in BOOLEAN /\ (interrupted => interrupted' \/ Len(loads) = 1)
    <2>1. interrupted' = (interrupted /\ Len(loads) > 1)
        BY DEF HostCallEnds
    <2>2. Len(loads) > 1 \/ Len(loads) = 1
        <3>1. \A n \in Nat \ {0} : n > 1 \/ n = 1
            OBVIOUS
        <3> QED
            BY <1>2, <3>1, Zenon
    <2> QED
        BY <2>1, <2>2, Zenon
<1>4. Kept(loads', failing', interrupted')
    <2>1. Kept(Front(loads), "none", interrupted')
        BY <1>1, <1>2, <1>3, PopKept
    <2> QED
        BY <2>1 DEF HostCallEnds
<1> QED
    BY <1>1, <1>3, <1>4, PopKeeps DEF HostCallEnds

LEMMA CoroutineEndsKeeps == ASSUME RequireInv, CoroutineEnds PROVE RequireInv'
<1>1. /\ Shape(loads) /\ loads \in Seq(Frames) /\ Kept(loads, failing, interrupted)
      /\ interrupted \in BOOLEAN /\ loads # <<>> /\ Last(loads).k = "co"
      /\ failing \in {"none", "plain", "fatal", "nomem"}
    BY InvFacts DEF CoroutineEnds, On
<1>2. /\ Last(loads).out = "none" /\ Len(loads) > 1
      /\ loads[Len(loads) - 1].k \notin Windows
    BY <1>1, Ends
<1>3. /\ failing' \in {"none", "plain", "fatal", "nomem"}
      /\ failing \in {"fatal", "nomem"} => failing' = "fatal"
    BY <1>1 DEF CoroutineEnds, Reraised
<1>4. Kept(Front(loads), failing', interrupted)
    BY <1>1, <1>2, <1>3, PopKept
<1> QED
    BY <1>1, <1>3, <1>4, PopKeeps DEF CoroutineEnds

LEMMA FinaliserEndsKeeps == ASSUME RequireInv, FinaliserEnds PROVE RequireInv'
<1>1. /\ Shape(loads) /\ loads \in Seq(Frames) /\ Kept(loads, failing, interrupted)
      /\ interrupted \in BOOLEAN /\ loads # <<>> /\ Last(loads).k = "gc" /\ Len(loads) \in Nat
      /\ failing \in {"none", "plain", "fatal", "nomem"}
    BY InvFacts DEF FinaliserEnds, On
<1>2. /\ Last(loads).out = "none" /\ Len(loads) > 1 /\ Last(loads) = loads[Len(loads)]
      /\ Shape(Front(loads)) /\ Front(loads) = SubSeq(loads, 1, Len(loads) - 1)
      /\ Len(Front(loads)) = Len(loads) - 1 /\ Front(loads) # <<>>
      /\ \A i \in 1 .. Len(loads) - 1 : Front(loads)[i] = loads[i]
      /\ loads[1].k = "call"
    BY <1>1, Ends
<1>3. CASE /\ loads' = Front(loads) /\ failing' = "none" /\ UNCHANGED stranded
    <2>1. Kept(Front(loads), "none", interrupted)
        BY <1>1, <1>2, PopKept
    <2> QED
        BY <1>1, <1>3, <2>1, PopKeeps DEF FinaliserEnds, booksVars
<1>4. ASSUME failing # "none", interrupted, NEW b,
             b = (IF Front(loads)[Len(Front(loads))].k \in Windows THEN Front(Front(loads))
                                                                  ELSE Front(loads)),
             Fails(b, failing), Strands(Len(b) + 1)
      PROVE  RequireInv'
    <2>1. CASE Front(loads)[Len(Front(loads))].k \notin Windows
        <3>1. b = SubSeq(loads, 1, Len(loads) - 1) /\ Len(b) = Len(loads) - 1
            BY <1>2, <1>4, <2>1
        <3> DEFINE l == Len(loads) - 1
        <3>2. l \in 1 .. Len(loads) /\ \A i \in l + 1 .. Len(loads) : loads[i].k # "call"
            BY <1>1, <1>2
        <3>3. Kept(b, failing, interrupted)
            <4>1. loads[l].k \notin Windows
                BY <1>1, <1>2, <2>1
            <4> QED
                BY <1>1, <1>2, <1>4, <2>1, <4>1, PopKept
        <3> QED
            BY <1>1, <1>4, <3>1, <3>2, <3>3, StrandKeeps DEF FinaliserEnds
    <2>2. CASE Front(loads)[Len(Front(loads))].k \in Windows
        <3> DEFINE l == Len(loads) - 2
        <3>1. /\ loads[Len(loads) - 1].k \in Windows /\ loads[Len(loads) - 1].k # "call"
              /\ Len(loads) - 1 # 1 /\ loads[Len(loads) - 1].k # "gc"
            BY <1>1, <1>2, <2>2 DEF Windows
        <3>2. l \in 1 .. Len(loads) /\ l \in 0 .. Len(loads) /\ l + 1 = Len(loads) - 1
            BY <1>1, <1>2, <3>1
        <3>3. /\ b = SubSeq(loads, 1, l) /\ b \in Seq(Frames) /\ Len(b) = l
              /\ \A i \in 1 .. l : b[i] = loads[i]
            <4>1. b = SubSeq(Front(loads), 1, Len(loads) - 2)
                BY <1>1, <1>2, <1>4, <2>2 DEF Front
            <4>2. Front(loads) \in Seq(Frames)
                BY <1>2 DEF Shape
            <4>3. /\ b \in Seq(Frames) /\ Len(b) = l /\ \A i \in 1 .. l : b[i] = Front(loads)[i]
                BY <1>1, <1>2, <3>2, <4>1, <4>2
            <4>4. /\ SubSeq(loads, 1, l) \in Seq(Frames) /\ Len(SubSeq(loads, 1, l)) = l
                  /\ \A i \in 1 .. l : SubSeq(loads, 1, l)[i] = loads[i]
                BY <1>1, <3>2
            <4>5. \A i \in 1 .. l : b[i] = SubSeq(loads, 1, l)[i]
                BY <1>1, <1>2, <4>3, <4>4
            <4>6. b = SubSeq(loads, 1, l)
                BY <4>3, <4>4, <4>5, SeqEqual
            <4> QED
                BY <4>3, <4>4, <4>6
        <3>4. \A i \in l + 1 .. Len(loads) : loads[i].k # "call"
            BY <1>1, <1>2, <3>1, <3>2
        <3>5. loads[l].k \notin Windows
            <4>1. Sits(loads, Len(loads) - 1)
                BY <1>1, <1>2 DEF Shape
            <4> QED
                BY <1>1, <3>1, <3>2, <4>1 DEF Sits
        <3>6. Kept(b, failing, interrupted)
            <4>1. ASSUME NEW n \in 1 .. l, b[n].breach PROVE b[n].k = "call"
                <5>1. n \in 1 .. Len(loads) /\ loads[n].breach
                    BY <1>1, <3>2, <3>3, <4>1
                <5> QED
                    BY <1>1, <3>3, <5>1 DEF Kept
            <4>2. b # <<>> /\ b[Len(b)].k \notin Windows
                <5>1. b # <<>>
                    <6>1. Len(b) # 0
                        BY <3>2, <3>3
                    <6> QED
                        BY <6>1, EmptySeq
                <5>2. b[l] = loads[l] /\ Len(b) = l
                    BY <3>2, <3>3
                <5> QED
                    BY <3>5, <5>1, <5>2
            <4> QED
                BY <1>4, <3>3, <4>1, <4>2 DEF Kept
        <3>7. Len(b) + 1 = l + 1
            BY <3>3
        <3> HIDE DEF l
        <3> QED
            BY <1>1, <1>4, <3>2, <3>3, <3>4, <3>6, <3>7, StrandKeeps DEF FinaliserEnds
    <2> QED
        BY <2>1, <2>2
<1> QED
    BY <1>1, <1>3, <1>4 DEF FinaliserEnds

LEMMA ClosesItselfKeeps == ASSUME RequireInv, ClosesItself PROVE RequireInv'
<1>1. /\ Shape(loads) /\ loads \in Seq(Frames) /\ Kept(loads, failing, interrupted)
      /\ interrupted \in BOOLEAN /\ Len(loads) \in Nat /\ failing = "none"
      /\ ModuleBooks(loads, marked, depth, count, stranded)
      /\ stranded \in Stranded /\ count \in Nat /\ DOMAIN loads = 1 .. Len(loads)
    BY InvFacts DEF ClosesItself, ScriptRuns
<1>2. PICK n \in Inside({"co"}) :
        /\ loads' = [b \in DOMAIN SubSeq(loads, 1, n - 1) |->
                        [SubSeq(loads, 1, n - 1)[b] EXCEPT !.breach =
                            @ /\ \A r \in n .. Len(loads) : loads[r].out = "none"]]
        /\ Strands(n)
    BY Zenon DEF ClosesItself
<1> DEFINE l == n - 1
           quiet == \A r \in n .. Len(loads) : loads[r].out = "none"
<1>3. n \in 1 .. Len(loads) /\ l \in 0 .. Len(loads) /\ l + 1 = n
    BY <1>1, <1>2 DEF Inside
<1>4. /\ SubSeq(loads, 1, l) \in Seq(Frames) /\ DOMAIN SubSeq(loads, 1, l) = 1 .. l
      /\ \A i \in 1 .. l : SubSeq(loads, 1, l)[i] = loads[i]
    BY <1>1, <1>3, PrefixShape DEF Shape
<1>5. loads' = [i \in 1 .. l |-> [loads[i] EXCEPT !.breach = @ /\ quiet]]
    BY <1>2, <1>4
<1> HIDE DEF quiet
<1>6. ASSUME NEW i \in 1 .. l
      PROVE  /\ loads'[i] \in Frames
             /\ loads'[i].k = loads[i].k /\ loads'[i].m = loads[i].m /\ loads'[i].out = loads[i].out
             /\ loads'[i].breach = (loads[i].breach /\ quiet)
    <2>1. loads[i] \in Frames
        BY <1>1, <1>3
    <2>2. loads'[i] = [loads[i] EXCEPT !.breach = @ /\ quiet]
        BY <1>5
    <2>3. (loads[i].breach /\ quiet) \in BOOLEAN
        OBVIOUS
    <2> DEFINE breach == loads[i].breach /\ quiet
    <2>4. loads'[i] = [loads[i] EXCEPT !.breach = breach]
        BY <2>2
    <2> HIDE DEF breach
    <2>5. breach \in BOOLEAN
        BY <2>3 DEF breach
    <2>6. /\ loads'[i] \in Frames
          /\ loads'[i].k = loads[i].k /\ loads'[i].m = loads[i].m /\ loads'[i].out = loads[i].out
          /\ loads'[i].breach = breach
        BY <2>1, <2>4, <2>5 DEF Frames
    <2> QED
        BY <2>6 DEF breach
<1>7. loads' \in Seq(Frames) /\ Len(loads') = l
    <2>1. loads' \in [1 .. l -> Frames]
        BY <1>5, <1>6
    <2>2. l \in Nat
        BY <1>3
    <2> QED
        BY <2>1, <2>2, IsASeq
<1> HIDE DEF l
<1>8. /\ Shape(loads') /\ stranded' \in Stranded
      /\ ModuleBooks(loads', marked, depth, count, stranded')
    BY <1>1, <1>2, <1>3, <1>6, <1>7, StrandedBooks
<1>9. ASSUME NEW i \in 1 .. Len(loads'), loads'[i].breach
      PROVE  loads'[i].k = "call" /\ (interrupted \/ Coming(loads', "none", i))
    <2>1. i \in 1 .. l /\ loads[i].breach /\ quiet /\ i \in 1 .. Len(loads)
        <3>1. i \in 1 .. l /\ i \in 1 .. Len(loads)
            BY <1>1, <1>3, <1>7
        <3>2. loads[i].breach /\ quiet
            BY <1>6, <1>9, <3>1, Zenon
        <3> QED
            BY <3>1, <3>2, Zenon
    <2>2. loads[i].k = "call" /\ (interrupted \/ Coming(loads, "none", i))
        BY <1>1, <2>1 DEF Kept
    <2>3. ASSUME NEW r \in i + 1 .. Len(loads), loads[r].out = "fatal", Clear(loads, i, r)
          PROVE  Coming(loads', "none", i)
        <3>1. r < n
            BY <1>1, <1>3, <2>1, <2>3 DEF quiet
        <3>2. r \in i + 1 .. l
            BY <1>3, <3>1
        <3>3. loads'[r].out = "fatal" /\ Clear(loads', i, r)
            BY <1>3, <1>6, <2>1, <2>3, <3>2 DEF Clear
        <3> QED
            BY <1>7, <3>2, <3>3 DEF Coming
    <2> QED
        BY <1>6, <2>1, <2>2, <2>3 DEF Coming
<1>10. Kept(loads', failing', interrupted')
    BY <1>1, <1>9 DEF Kept, ClosesItself
<1> QED
    BY <1>1, <1>8, <1>10, InvHolds DEF ClosesItself, RequireInv, RequireTypeOK, packageVars

(* Nothing on the stack moves.                                                  *)
LEMMA StillKeeps ==
    ASSUME RequireInv, UNCHANGED <<booksVars, loads>>,
           loaded' \subseteq Modules, preload' \subseteq Modules,
           failing' = failing \/ (failing = "plain" /\ failing' = "none"),
           interrupted' \in BOOLEAN, interrupted => interrupted'
    PROVE  RequireInv'
<1>1. /\ Kept(loads, failing, interrupted) /\ Shape(loads)
      /\ ModuleBooks(loads, marked, depth, count, stranded)
    BY InvFacts
<1>2. Kept(loads', failing', interrupted')
    BY <1>1 DEF Kept, Coming
<1>3. Shape(loads') /\ ModuleBooks(loads', marked', depth', count', stranded')
    BY <1>1 DEF booksVars
<1> QED
    BY <1>2, <1>3, InvHolds DEF RequireInv, RequireTypeOK, booksVars

(* The check of both limits is what bounds the overshoot: below a script at     *)
(* most one require is ending of the depth and not counted.                        *)
LEMMA RequireBeginsKeeps ==
    ASSUME RequireInv, NEW m \in Modules, RequireBegins(m) PROVE RequireInv'
<1>1. /\ Shape(loads) /\ loads \in Seq(Frames) /\ Kept(loads, failing, interrupted)
      /\ interrupted \in BOOLEAN /\ failing = "none" /\ stranded \in Stranded
      /\ ModuleBooks(loads, marked, depth, count, stranded) /\ depth \in Nat /\ count \in Nat
      /\ HeldBy(loads) \subseteq marked
      /\ depth < MaxRequireDepth /\ count < MaxModules /\ m \notin marked
      /\ loads # <<>> /\ Last(loads).k \notin Windows
    BY InvFacts DEF RequireBegins, ScriptRuns, Scripted, On, Windows
<1> DEFINE e == Load("mark", m)
<1>2. /\ e \in Frames /\ e.k = "mark" /\ e.m = m /\ e.breach = FALSE /\ e.out = "none"
      /\ loads' = Append(loads, e)
    BY DEF Load, Frames, Stages, Windows, RequireBegins
<1>3. /\ "mark" \in Stages /\ "mark" \notin Marking /\ "mark" \notin Deepening
    BY DEF Stages, Marking, Windows, Deepening
<1> HIDE DEF e
<1>4. Shape(loads')
    <2>1. loads[Len(loads)].k \notin Windows
        BY <1>1 DEF Last
    <2> QED
        BY <1>1, <1>2, <1>3, <2>1, PushShape
<1>5. Kept(loads', "none", interrupted)
    BY <1>1, <1>2, PushKept
<1>6. /\ HeldBy(loads') = HeldBy(loads)
      /\ HowMany(loads', Deepening) = HowMany(loads, Deepening)
      /\ HowMany(loads', {"mark"}) = HowMany(loads, {"mark"}) + 1
      /\ HowMany(loads', Stages) = HowMany(loads, Stages) + 1
    <2>1. /\ HeldBy(loads') = HeldBy(loads) \cup (IF e.k \in Marking THEN {e.m} ELSE {})
          /\ HowMany(loads', Deepening) = HowMany(loads, Deepening) + (IF e.k \in Deepening THEN 1 ELSE 0)
          /\ HowMany(loads', {"mark"}) = HowMany(loads, {"mark"}) + (IF e.k = "mark" THEN 1 ELSE 0)
          /\ HowMany(loads', Stages) = HowMany(loads, Stages) + (IF e.k \in Stages THEN 1 ELSE 0)
          /\ HowMany(loads, Deepening) \in Nat
        BY <1>1, <1>2, PushedBooks
    <2> QED
        BY <1>2, <1>3, <2>1
<1> DEFINE Out == {"mark", "unmark", "leave"}
<1>7. /\ HowMany(loads, {"mark"}) <= 1 /\ HowMany(loads, {"mark"}) \in Nat
      /\ HowMany(loads, Out) <= 1 /\ HowMany(loads, Out) \in Nat
    <2>1. {"mark"} \subseteq Windows /\ Out \subseteq Windows
        BY DEF Windows
    <2> QED
        BY <1>1, <2>1, OneWindow, WhereFinite
<1>8. HowMany(loads, Stages) = HowMany(loads, Deepening) + HowMany(loads, Out)
    <2>1. /\ IsFiniteSet(Where(loads, Deepening)) /\ IsFiniteSet(Where(loads, Out))
          /\ HowMany(loads, Deepening) \in Nat
        BY <1>1, WhereFinite
    <2>2. /\ Where(loads, Stages) = Where(loads, Deepening) \cup Where(loads, Out)
          /\ Where(loads, Deepening) \cap Where(loads, Out) = {}
        BY DEF Where, Stages, Marking, Windows, Deepening
    <2>3. Cardinality(Where(loads, Deepening) \cup Where(loads, Out))
            = Cardinality(Where(loads, Deepening)) + Cardinality(Where(loads, Out))
                - Cardinality(Where(loads, Deepening) \cap Where(loads, Out))
        BY <2>1, FS_Union
    <2>4. Cardinality(Where(loads, Deepening) \cap Where(loads, Out)) = 0
        BY <2>2, FS_EmptySet
    <2> HIDE DEF Out
    <2> QED
        BY <1>7, <2>1, <2>2, <2>3, <2>4 DEF HowMany
<1>9. HowMany(loads, Deepening) \in Nat /\ HowMany(loads, Deepening) <= depth
    <2>1. HowMany(loads, Deepening) \in Nat /\ stranded.depth \in Nat
        BY <1>1, WhereFinite DEF Stranded
    <2> QED
        BY <1>1, <2>1 DEF ModuleBooks
<1> HIDE DEF Out
<1>10. ModuleBooks(loads', marked, depth, count, stranded)
    <2>1. marked = HeldBy(loads') \cup stranded.marks /\ depth = HowMany(loads', Deepening) + stranded.depth
        BY <1>1, <1>6 DEF ModuleBooks
    <2>2. depth + HowMany(loads', {"mark"}) <= MaxRequireDepth + 1
        BY <1>1, <1>6, <1>7, RequireAssumption
    <2>3. count + HowMany(loads', Stages) <= MaxModules + MaxRequireDepth
        BY <1>1, <1>6, <1>7, <1>8, <1>9, RequireAssumption
    <2> QED
        BY <2>1, <2>2, <2>3 DEF ModuleBooks
<1> QED
    BY <1>1, <1>4, <1>5, <1>10, InvHolds DEF RequireInv, RequireTypeOK, RequireBegins, booksVars, packageVars

LEMMA WindowFailsKeeps == ASSUME RequireInv, WindowFails PROVE RequireInv'
<1>1. /\ Shape(loads) /\ loads \in Seq(Frames) /\ Kept(loads, failing, interrupted)
      /\ interrupted \in BOOLEAN /\ failing = "none"
      /\ loads # <<>> /\ Last(loads).k \in Windows
    BY InvFacts DEF WindowFails, On
<1>2. Last(loads).k \notin {"call", "gc"}
    BY <1>1 DEF Windows
<1>3. /\ Len(loads) > 1 /\ Len(loads) \in Nat /\ loads[Len(loads) - 1].k \notin Windows
      /\ Last(loads) = loads[Len(loads)]
      /\ Front(loads) = SubSeq(loads, 1, Len(loads) - 1)
    BY <1>1, <1>2, Ends
<1>4. Kept(Front(loads), "nomem", interrupted)
    BY <1>1, <1>3, PopKept
<1> DEFINE l == Len(loads) - 1
           b == Front(loads)
<1>5. /\ l \in 1 .. Len(loads) /\ l + 1 = Len(loads) /\ b = SubSeq(loads, 1, l)
      /\ \A i \in l + 1 .. Len(loads) : loads[i].k # "call"
    BY <1>2, <1>3
<1>6. Fails(b, "nomem") /\ Strands(l + 1) /\ Kept(b, "nomem", interrupted)
    BY <1>4, <1>5 DEF WindowFails
<1> HIDE DEF l, b
<1> QED
    BY <1>5, <1>6, StrandKeeps DEF WindowFails

(* Marked and counted: the mark and the depth are the frame's.                  *)
LEMMA MarksKeeps == ASSUME RequireInv, Marks PROVE RequireInv'
<1>1. /\ Shape(loads) /\ loads \in Seq(Frames) /\ interrupted \in BOOLEAN /\ failing = "none"
      /\ ModuleBooks(loads, marked, depth, count, stranded) /\ stranded \in Stranded
      /\ loads # <<>> /\ Last(loads).k = "mark" /\ count \in Nat /\ depth \in Nat
    BY InvFacts DEF Marks, On
<1> DEFINE b == Front(loads)
           m == Last(loads).m
<1>2. /\ "mark" \in Stages /\ "push" \in Stages
      /\ "mark" \notin Marking /\ "mark" \notin Deepening
      /\ "push" \in Marking /\ "push" \in Deepening
    BY DEF Stages, Marking, Windows, Deepening
<1>3. Last(loads).out = "none"
    BY <1>1, Ends
<1>4. /\ Shape(loads') /\ Kept(loads', "none", interrupted)
      /\ HeldBy(loads') = HeldBy(b) \cup {m}
      /\ HowMany(loads', Deepening) = HowMany(b, Deepening) + 1
      /\ HowMany(loads', {"mark"}) = HowMany(b, {"mark"})
      /\ HowMany(loads', Stages) = HowMany(loads, Stages)
      /\ m \in Modules
      /\ HowMany(b, {"mark"}) \in Nat
    <2>1. /\ Shape(loads') /\ Kept(loads', "none", interrupted)
          /\ HeldBy(loads') = HeldBy(b) \cup (IF "push" \in Marking THEN {m} ELSE {})
          /\ HowMany(loads', Deepening) = HowMany(b, Deepening) + (IF "push" \in Deepening THEN 1 ELSE 0)
          /\ HowMany(loads', {"mark"}) = HowMany(b, {"mark"}) + (IF "push" = "mark" THEN 1 ELSE 0)
          /\ HowMany(loads', Stages) = HowMany(loads, Stages)
          /\ m \in Modules \ HeldBy(b)
        BY <1>1, <1>2, <1>3, StageMoves DEF Marks
    <2>2. HowMany(b, {"mark"}) \in Nat
        BY <1>1, LastBooks
    <2> HIDE DEF b, m
    <2> QED
        BY <1>2, <2>1, <2>2
<1>5. /\ HeldBy(loads) = HeldBy(b)
      /\ HowMany(loads, Deepening) = HowMany(b, Deepening)
      /\ HowMany(loads, {"mark"}) = HowMany(b, {"mark"}) + 1
      /\ HowMany(b, Deepening) \in Nat
    <2>1. /\ HeldBy(loads) = HeldBy(b) \cup (IF Last(loads).k \in Marking THEN {m} ELSE {})
          /\ HowMany(loads, Deepening) = HowMany(b, Deepening) + (IF Last(loads).k \in Deepening THEN 1 ELSE 0)
          /\ HowMany(loads, {"mark"}) = HowMany(b, {"mark"}) + (IF Last(loads).k = "mark" THEN 1 ELSE 0)
          /\ HowMany(b, Deepening) \in Nat /\ HowMany(b, {"mark"}) \in Nat
        BY <1>1, LastBooks
    <2> HIDE DEF b, m
    <2> QED
        BY <1>1, <1>2, <2>1
<1>6. /\ marked' = marked \cup {m} /\ depth' = depth + 1
      /\ UNCHANGED <<count, stranded, packageVars, failing, interrupted>>
    BY DEF Marks
<1> HIDE DEF b, m
<1>7. ModuleBooks(loads', marked', depth', count', stranded')
    <2>1. marked' = HeldBy(loads') \cup stranded'.marks
        BY <1>1, <1>4, <1>5, <1>6 DEF ModuleBooks
    <2>2. depth' = HowMany(loads', Deepening) + stranded'.depth
        BY <1>1, <1>4, <1>5, <1>6 DEF ModuleBooks, Stranded
    <2>3. depth' + HowMany(loads', {"mark"}) <= MaxRequireDepth + 1
        BY <1>1, <1>4, <1>5, <1>6, RequireAssumption DEF ModuleBooks
    <2>4. count' + HowMany(loads', Stages) <= MaxModules + MaxRequireDepth
        BY <1>1, <1>4, <1>6 DEF ModuleBooks
    <2> QED
        BY <2>1, <2>2, <2>3, <2>4 DEF ModuleBooks
<1> QED
    BY <1>1, <1>4, <1>6, <1>7, InvHolds DEF RequireInv, RequireTypeOK, packageVars

(* From stage to stage the mark and the depth stay.                             *)
LEMMA SearchesKeep ==
    ASSUME RequireInv, loads # <<>>, failing = "none",
           NEW from \in {"push", "ask", "found"}, Last(loads).k = from,
           NEW to \in {"ask", "found", "load"}, loads' = Becomes(to, "none"),
           UNCHANGED <<booksVars, packageVars, failing, interrupted>>
    PROVE  RequireInv'
<1>1. /\ Shape(loads) /\ loads \in Seq(Frames) /\ interrupted \in BOOLEAN
      /\ ModuleBooks(loads, marked, depth, count, stranded)
    BY InvFacts
<1> DEFINE b == Front(loads)
           m == Last(loads).m
<1>2. /\ from \in Stages /\ from \in Marking /\ from \in Deepening /\ from # "mark"
      /\ to \in Stages /\ to \in Marking /\ to \in Deepening /\ to # "mark"
    BY DEF Stages, Marking, Windows, Deepening
<1>3. Last(loads).out = "none"
    BY <1>1, Ends
<1>4. /\ Shape(loads') /\ Kept(loads', "none", interrupted)
      /\ HeldBy(loads') = HeldBy(b) \cup (IF to \in Marking THEN {m} ELSE {})
      /\ HowMany(loads', Deepening) = HowMany(b, Deepening) + (IF to \in Deepening THEN 1 ELSE 0)
      /\ HowMany(loads', {"mark"}) = HowMany(b, {"mark"}) + (IF to = "mark" THEN 1 ELSE 0)
      /\ HowMany(loads', Stages) = HowMany(loads, Stages)
    BY <1>1, <1>2, <1>3, StageMoves
<1>5. /\ HeldBy(loads) = HeldBy(b) \cup (IF Last(loads).k \in Marking THEN {m} ELSE {})
      /\ HowMany(loads, Deepening) = HowMany(b, Deepening) + (IF Last(loads).k \in Deepening THEN 1 ELSE 0)
      /\ HowMany(loads, {"mark"}) = HowMany(b, {"mark"}) + (IF Last(loads).k = "mark" THEN 1 ELSE 0)
    BY <1>1, LastBooks
<1> HIDE DEF b, m
<1>6. ModuleBooks(loads', marked', depth', count', stranded')
    BY <1>1, <1>2, <1>4, <1>5 DEF ModuleBooks, booksVars
<1> QED
    BY <1>1, <1>4, <1>6, InvHolds DEF RequireInv, RequireTypeOK, packageVars, booksVars

LEMMA SearchesKeeps == ASSUME RequireInv, Searches PROVE RequireInv'
<1>1. /\ loads # <<>> /\ failing = "none" /\ Last(loads).k = "push"
      /\ loads' = Becomes("found", "none") \/ loads' = Becomes("ask", "none")
    BY DEF Searches, On
<1> QED
    BY <1>1, SearchesKeep DEF Searches

LEMMA RequireFindsKeeps == ASSUME RequireInv, RequireFinds PROVE RequireInv'
<1>1. loads # <<>> /\ failing = "none" /\ Last(loads).k = "ask"
    BY DEF RequireFinds, On
<1> QED
    BY <1>1, SearchesKeep DEF RequireFinds

LEMMA LoaderBeginsKeeps == ASSUME RequireInv, LoaderBegins PROVE RequireInv'
<1>1. loads # <<>> /\ failing = "none" /\ Last(loads).k = "found"
    BY DEF LoaderBegins, On
<1> QED
    BY <1>1, SearchesKeep DEF LoaderBegins

(* The search or the loader ends: out of the depth, still marked, the error     *)
(* taken along.                                                                 *)
LEMMA SurfacesKeeps ==
    ASSUME RequireInv, loads # <<>>, NEW from \in {"ask", "load"}, Last(loads).k = from,
           NEW e \in {"none", "plain", "fatal", "nomem"},
           failing # "none" => e = failing, Surfaces(e)
    PROVE  RequireInv'
<1>1. /\ Shape(loads) /\ loads \in Seq(Frames) /\ interrupted \in BOOLEAN
      /\ ModuleBooks(loads, marked, depth, count, stranded) /\ stranded \in Stranded
      /\ count \in Nat /\ depth \in Nat
    BY InvFacts
<1> DEFINE b == Front(loads)
           m == Last(loads).m
           ending == Reraised(e)
<1>2. /\ from \in Stages /\ from \in Marking /\ from \in Deepening /\ from # "mark"
      /\ "unmark" \in Stages /\ "unmark" \in Marking /\ "unmark" \notin Deepening
    BY DEF Stages, Marking, Windows, Deepening
<1>3. Last(loads).out = "none"
    BY <1>1, Ends
<1>4. /\ ending \in {"none", "plain", "fatal"}
      /\ failing \in {"fatal", "nomem"} => ending = "fatal"
    BY DEF Reraised
<1>5. /\ Shape(loads') /\ Kept(loads', "none", interrupted)
      /\ HeldBy(loads') = HeldBy(b) \cup (IF "unmark" \in Marking THEN {m} ELSE {})
      /\ HowMany(loads', Deepening) = HowMany(b, Deepening) + (IF "unmark" \in Deepening THEN 1 ELSE 0)
      /\ HowMany(loads', {"mark"}) = HowMany(b, {"mark"}) + (IF "unmark" = "mark" THEN 1 ELSE 0)
      /\ HowMany(loads', Stages) = HowMany(loads, Stages)
    <2>1. loads' = Becomes("unmark", ending)
        BY DEF Surfaces
    <2> HIDE DEF ending
    <2> QED
        BY <1>1, <1>2, <1>3, <1>4, <2>1, StageMoves
<1>6. /\ HeldBy(loads) = HeldBy(b) \cup (IF Last(loads).k \in Marking THEN {m} ELSE {})
      /\ HowMany(loads, Deepening) = HowMany(b, Deepening) + (IF Last(loads).k \in Deepening THEN 1 ELSE 0)
      /\ HowMany(loads, {"mark"}) = HowMany(b, {"mark"}) + (IF Last(loads).k = "mark" THEN 1 ELSE 0)
      /\ HowMany(b, Deepening) \in Nat /\ HowMany(b, {"mark"}) \in Nat
    BY <1>1, LastBooks
<1>7. /\ depth' = depth - 1 /\ failing' = "none"
      /\ UNCHANGED <<marked, count, stranded, packageVars, interrupted>>
    BY DEF Surfaces
<1> HIDE DEF b, m
<1>8. ModuleBooks(loads', marked', depth', count', stranded')
    <2>1. marked' = HeldBy(loads') \cup stranded'.marks
        BY <1>1, <1>2, <1>5, <1>6, <1>7 DEF ModuleBooks
    <2>2. depth' = HowMany(loads', Deepening) + stranded'.depth
        BY <1>1, <1>2, <1>5, <1>6, <1>7 DEF ModuleBooks, Stranded
    <2>3. depth' + HowMany(loads', {"mark"}) <= MaxRequireDepth + 1
        BY <1>1, <1>2, <1>5, <1>6, <1>7, RequireAssumption DEF ModuleBooks
    <2>4. count' + HowMany(loads', Stages) <= MaxModules + MaxRequireDepth
        BY <1>1, <1>5, <1>7 DEF ModuleBooks
    <2> QED
        BY <2>1, <2>2, <2>3, <2>4 DEF ModuleBooks
<1> QED
    BY <1>1, <1>5, <1>7, <1>8, InvHolds DEF RequireInv, RequireTypeOK, packageVars

LEMMA SearchFailsKeeps == ASSUME RequireInv, SearchFails PROVE RequireInv'
<1>1. loads # <<>> /\ Last(loads).k = "ask" /\ failing \in {"none", "plain", "fatal", "nomem"}
    BY InvFacts DEF SearchFails, On
<1>2. PICK e \in IF failing = "none" THEN {"plain", "fatal", "nomem"} ELSE {failing} : Surfaces(e)
    BY DEF SearchFails
<1>3. e \in {"none", "plain", "fatal", "nomem"} /\ (failing # "none" => e = failing)
    BY <1>1, <1>2
<1> QED
    BY <1>1, <1>2, <1>3, SurfacesKeeps

LEMMA LoaderEndsKeeps == ASSUME RequireInv, LoaderEnds PROVE RequireInv'
<1>1. /\ loads # <<>> /\ Last(loads).k = "load" /\ Surfaces(failing)
      /\ failing \in {"none", "plain", "fatal", "nomem"}
    BY InvFacts DEF LoaderEnds, On
<1> QED
    BY <1>1, SurfacesKeeps

(* The mark goes, and with it what a require of the same module stranded.       *)
LEMMA UnmarksKeeps == ASSUME RequireInv, Unmarks PROVE RequireInv'
<1>1. /\ Shape(loads) /\ loads \in Seq(Frames) /\ interrupted \in BOOLEAN /\ failing = "none"
      /\ ModuleBooks(loads, marked, depth, count, stranded) /\ stranded \in Stranded
      /\ loads # <<>> /\ Last(loads).k = "unmark" /\ count \in Nat /\ depth \in Nat
    BY InvFacts DEF Unmarks, On
<1> DEFINE b == Front(loads)
           m == Last(loads).m
           ending == Last(loads).out
<1>2. /\ "unmark" \in Stages /\ "unmark" \in Marking /\ "unmark" \notin Deepening
      /\ "leave" \in Stages /\ "leave" \notin Marking /\ "leave" \notin Deepening
    BY DEF Stages, Marking, Windows, Deepening
<1>3. ending \in {"none", "plain", "fatal"}
    BY <1>1, Ends DEF Frames
<1>4. /\ Shape(loads') /\ Kept(loads', "none", interrupted)
      /\ HeldBy(loads') = HeldBy(b) \cup (IF "leave" \in Marking THEN {m} ELSE {})
      /\ HowMany(loads', Deepening) = HowMany(b, Deepening) + (IF "leave" \in Deepening THEN 1 ELSE 0)
      /\ HowMany(loads', {"mark"}) = HowMany(b, {"mark"}) + (IF "leave" = "mark" THEN 1 ELSE 0)
      /\ HowMany(loads', Stages) = HowMany(loads, Stages)
      /\ m \in Modules \ HeldBy(b)
    <2>1. loads' = Becomes("leave", ending)
        BY DEF Unmarks
    <2> QED
        BY <1>1, <1>2, <1>3, <2>1, StageMoves
<1>5. /\ HeldBy(loads) = HeldBy(b) \cup (IF Last(loads).k \in Marking THEN {m} ELSE {})
      /\ HowMany(loads, Deepening) = HowMany(b, Deepening) + (IF Last(loads).k \in Deepening THEN 1 ELSE 0)
      /\ HowMany(loads, {"mark"}) = HowMany(b, {"mark"}) + (IF Last(loads).k = "mark" THEN 1 ELSE 0)
      /\ HowMany(b, Deepening) \in Nat /\ HowMany(b, {"mark"}) \in Nat
    BY <1>1, LastBooks
<1>6. /\ marked' = marked \ {m} /\ stranded' = [stranded EXCEPT !.marks = @ \ {m}]
      /\ UNCHANGED <<depth, count, packageVars, failing, interrupted>>
    BY DEF Unmarks
<1> HIDE DEF b, m, ending
<1>7. /\ stranded' \in Stranded /\ stranded'.depth = stranded.depth
      /\ stranded'.marks = stranded.marks \ {m}
    BY <1>1, <1>6 DEF Stranded
<1>8. ModuleBooks(loads', marked', depth', count', stranded')
    <2>1. HeldBy(loads) = HeldBy(b) \cup {m} /\ HeldBy(loads') = HeldBy(b) /\ m \notin HeldBy(b)
        BY <1>1, <1>2, <1>4, <1>5
    <2>2. marked' = HeldBy(loads') \cup stranded'.marks
        BY <1>1, <1>6, <1>7, <2>1 DEF ModuleBooks
    <2>3. depth' = HowMany(loads', Deepening) + stranded'.depth
        BY <1>1, <1>2, <1>4, <1>5, <1>6, <1>7 DEF ModuleBooks
    <2>4. depth' + HowMany(loads', {"mark"}) <= MaxRequireDepth + 1
        BY <1>1, <1>2, <1>4, <1>5, <1>6 DEF ModuleBooks
    <2>5. count' + HowMany(loads', Stages) <= MaxModules + MaxRequireDepth
        BY <1>1, <1>4, <1>6 DEF ModuleBooks
    <2> QED
        BY <2>2, <2>3, <2>4, <2>5 DEF ModuleBooks
<1> QED
    BY <1>1, <1>4, <1>6, <1>7, <1>8, InvHolds DEF RequireInv, RequireTypeOK, packageVars

(* The last of a require: its frame goes, with an error or with a module.       *)
LEMMA LeaveBooks ==
    ASSUME RequireInv, loads # <<>>, Last(loads).k = "leave", NEW t \in Seq(Frames),
           Len(t) = Len(Front(loads)),
           \A i \in 1 .. Len(t) : /\ t[i].k = Front(loads)[i].k /\ t[i].m = Front(loads)[i].m
                                  /\ t[i].out = Front(loads)[i].out,
           NEW c \in {count, count + 1}
    PROVE  Shape(t) /\ ModuleBooks(t, marked, depth, c, stranded)
<1>1. /\ Shape(loads) /\ loads \in Seq(Frames) /\ count \in Nat
      /\ ModuleBooks(loads, marked, depth, count, stranded)
    BY InvFacts
<1> DEFINE b == Front(loads)
<1>2. "leave" \in Stages /\ "leave" \notin Marking /\ "leave" \notin Deepening
    BY DEF Stages, Marking, Windows, Deepening
<1>3. /\ HeldBy(loads) = HeldBy(b) \cup (IF Last(loads).k \in Marking THEN {Last(loads).m} ELSE {})
      /\ HowMany(loads, Deepening) = HowMany(b, Deepening) + (IF Last(loads).k \in Deepening THEN 1 ELSE 0)
      /\ HowMany(loads, {"mark"}) = HowMany(b, {"mark"}) + (IF Last(loads).k = "mark" THEN 1 ELSE 0)
      /\ HowMany(loads, Stages) = HowMany(b, Stages) + (IF Last(loads).k \in Stages THEN 1 ELSE 0)
      /\ HowMany(b, Deepening) \in Nat /\ HowMany(b, {"mark"}) \in Nat /\ HowMany(b, Stages) \in Nat
    BY <1>1, LastBooks
<1>4. Shape(b) /\ b \in Seq(Frames)
    BY <1>1, Ends
<1> HIDE DEF b
<1>5. /\ Shape(t) /\ HeldBy(t) = HeldBy(b)
      /\ \A ks : HowMany(t, ks) = HowMany(b, ks)
    BY <1>4, SameStack DEF b
<1>6. count + HowMany(t, Stages) + 1 <= MaxModules + MaxRequireDepth
    BY <1>1, <1>2, <1>3, <1>5 DEF ModuleBooks
<1>7. c + HowMany(t, Stages) <= MaxModules + MaxRequireDepth
    <2>1. HowMany(t, Stages) \in Nat
        BY <1>3, <1>5
    <2> QED
        BY <1>1, <1>6, <2>1, RequireAssumption
<1> QED
    BY <1>1, <1>2, <1>3, <1>5, <1>7 DEF ModuleBooks

LEMMA RequireReturnsKeeps == ASSUME RequireInv, RequireReturns PROVE RequireInv'
<1>1. /\ Shape(loads) /\ loads \in Seq(Frames) /\ interrupted \in BOOLEAN /\ failing = "none"
      /\ Kept(loads, failing, interrupted) /\ count \in Nat
      /\ loads # <<>> /\ Last(loads).k = "leave" /\ Last(loads).out = "none"
    BY InvFacts DEF RequireReturns, On
<1>2. Front(loads) \in Seq(Frames) /\ Last(loads).m \in Modules
    BY <1>1, Ends DEF Stages, Windows
<1>3. Shape(loads') /\ ModuleBooks(loads', marked, depth, count', stranded)
    BY <1>1, <1>2, LeaveBooks DEF RequireReturns
<1>4. Kept(Front(loads), "none", interrupted)
    BY <1>1, PopKept
<1> QED
    BY <1>1, <1>2, <1>3, <1>4, InvHolds DEF RequireReturns, RequireInv, RequireTypeOK

LEMMA RequireRaisesKeeps == ASSUME RequireInv, RequireRaises PROVE RequireInv'
<1>1. /\ Shape(loads) /\ loads \in Seq(Frames) /\ interrupted \in BOOLEAN /\ failing = "none"
      /\ Kept(loads, failing, interrupted) /\ count \in Nat
      /\ loads # <<>> /\ Last(loads).k = "leave" /\ Last(loads).out # "none"
    BY InvFacts DEF RequireRaises, On
<1> DEFINE l == Len(loads) - 1
           b == Front(loads)
           e == Last(loads).out
<1>2. /\ b \in Seq(Frames) /\ Last(loads) \in Frames /\ Len(b) = l
      /\ Len(loads) > 1 /\ Len(loads) \in Nat /\ loads[Len(loads) - 1].k \notin Windows
      /\ Last(loads) = loads[Len(loads)]
      /\ Front(loads) = SubSeq(loads, 1, Len(loads) - 1)
    BY <1>1, Ends
<1>3. e \in {"plain", "fatal"}
    BY <1>1, <1>2 DEF Frames
<1>4. Kept(b, e, interrupted)
    BY <1>1, <1>2, <1>3, PopKept
<1>5. /\ l \in 1 .. Len(loads) /\ b = SubSeq(loads, 1, l)
      /\ \A i \in l + 1 .. Len(loads) : loads[i].k # "call"
    BY <1>1, <1>2
<1>6. /\ failing' = e
      /\ loads' \in Seq(Frames) /\ Len(loads') = l
      /\ \A i \in 1 .. l : /\ loads'[i].k = b[i].k /\ loads'[i].m = b[i].m
                           /\ loads'[i].out = b[i].out
      /\ Kept(loads', e, interrupted)
    <2>1. Fails(b, e)
        BY DEF RequireRaises
    <2> HIDE DEF l, b, e
    <2> QED
        BY <1>1, <1>3, <1>4, <1>5, <2>1, FailsKept
<1>7. Shape(loads') /\ ModuleBooks(loads', marked, depth, count, stranded)
    BY <1>1, <1>2, <1>6, LeaveBooks
<1> HIDE DEF l, b, e
<1> QED
    BY <1>1, <1>3, <1>6, <1>7, InvHolds DEF RequireRaises, RequireInv, RequireTypeOK, booksVars, packageVars

LEMMA RequireStarts == RequireInit => RequireInv
<1> SUFFICES ASSUME RequireInit PROVE RequireInv
    OBVIOUS
<1>1. /\ <<>> \in Seq(Frames) /\ Len(<<>>) = 0 /\ loads = <<>>
    BY EmptySeq DEF RequireInit
<1>2. Shape(loads) /\ Kept(loads, failing, interrupted)
    BY <1>1 DEF Shape, Kept, RequireInit
<1>3. \A ks : Where(loads, ks) = {}
    BY <1>1 DEF Where
<1>4. ModuleBooks(loads, marked, depth, count, stranded)
    <2>1. HeldBy(loads) = {} /\ \A ks : HowMany(loads, ks) = 0
        BY <1>3, FS_EmptySet DEF HeldBy, HowMany
    <2> QED
        BY <2>1, RequireAssumption DEF ModuleBooks, RequireInit
<1>5. stranded \in Stranded /\ stranded.depth = 0 /\ stranded.marks = {}
    BY DEF RequireInit, Stranded
<1>6. RequireTypeOK
    <2>1. 0 \in 0 .. MaxRequireDepth + 1
        BY RequireAssumption
    <2> QED
        BY <1>5, <2>1 DEF RequireTypeOK, RequireInit
<1> QED
    BY <1>2, <1>4, <1>5, <1>6 DEF RequireInv

LEMMA RequireSteps == RequireInv /\ [RequireNext]_requireVars => RequireInv'
<1> SUFFICES ASSUME RequireInv, [RequireNext]_requireVars PROVE RequireInv'
    OBVIOUS
<1>1. CASE UNCHANGED requireVars
    BY <1>1, StillKeeps DEF requireVars, booksVars, RequireInv, RequireTypeOK
<1>2. CASE Interrupts
    BY <1>2, StillKeeps DEF Interrupts, packageVars, RequireInv, RequireTypeOK
<1>3. CASE ScriptCatches
    BY <1>3, StillKeeps DEF ScriptCatches, packageVars, RequireInv, RequireTypeOK
<1>4. CASE ScriptRaises
    BY <1>4, RaiseKeeps DEF ScriptRaises
<1>5. ASSUME NEW m \in Modules, WritesPackage(m) PROVE RequireInv'
    <2>1. loaded' \subseteq Modules /\ preload' \subseteq Modules
        BY <1>5 DEF WritesPackage, RequireInv, RequireTypeOK
    <2> QED
        BY <1>5, <2>1, StillKeeps DEF WritesPackage, RequireInv, RequireTypeOK
<1>6. ASSUME NEW m \in Modules, RequireRefused(m) PROVE RequireInv'
    <2>1. \E e \in {"plain", "fatal"} : Fails(loads, e)
        BY <1>6 DEF RequireRefused
    <2> QED
        BY <1>6, <2>1, RaiseKeeps DEF RequireRefused
<1>7. ASSUME NEW m \in Modules, RequireBegins(m) PROVE RequireInv'
    BY <1>7, RequireBeginsKeeps
<1>8. CASE HostCalls
    BY <1>8, HostCallsKeeps
<1>9. CASE HostCallEnds
    BY <1>9, HostCallEndsKeeps
<1>10. CASE CoroutineBegins
    BY <1>10, CoroutineBeginsKeeps
<1>11. CASE CoroutineEnds
    BY <1>11, CoroutineEndsKeeps
<1>12. CASE ClosesItself
    BY <1>12, ClosesItselfKeeps
<1>13. CASE Finalises
    BY <1>13, FinalisesKeeps
<1>14. CASE FinaliserEnds
    BY <1>14, FinaliserEndsKeeps
<1>15. CASE WindowFails
    BY <1>15, WindowFailsKeeps
<1>16. CASE Marks
    BY <1>16, MarksKeeps
<1>17. CASE Searches
    BY <1>17, SearchesKeeps
<1>18. CASE RequireFinds
    BY <1>18, RequireFindsKeeps
<1>19. CASE SearchFails
    BY <1>19, SearchFailsKeeps
<1>20. CASE LoaderEnds
    BY <1>20, LoaderEndsKeeps
<1>21. CASE Unmarks
    BY <1>21, UnmarksKeeps
<1>22. CASE RequireRaises
    BY <1>22, RequireRaisesKeeps
<1>23. CASE RequireReturns
    BY <1>23, RequireReturnsKeeps
<1>24. CASE LoaderBegins
    BY <1>24, LoaderBeginsKeeps
<1> QED
    BY <1>1, <1>2, <1>3, <1>4, <1>5, <1>6, <1>7, <1>8, <1>9, <1>10, <1>11, <1>12, <1>13, <1>14,
       <1>15, <1>16, <1>17, <1>18, <1>19, <1>20, <1>21, <1>22, <1>23, <1>24 DEF RequireNext

(* The invariant holds in every reachable state: the stack is one that calls of *)
(* the host's, coroutines, finalisers and requires in their stages can have     *)
(* built, and the books agree with it (luaext_require.c:686-856).               *)
THEOREM RequireInvariant == RequireSpec => []RequireInv
<1> QED
    BY RequireStarts, RequireSteps, PTL DEF RequireSpec

(* Types (luaext_require.c): the depth never goes below zero, nor past its      *)
(* limit by more than a finaliser's require between another's check and its     *)
(* mark, whatever is stranded.                                                  *)
THEOREM RequireTypeCorrect == RequireSpec => []RequireTypeOK
<1>1. RequireInv => RequireTypeOK
    BY DEF RequireInv
<1> QED
    BY <1>1, RequireInvariant, PTL

LEMMA InvHoldsLimits == RequireInv => RequireHoldsItsLimits
<1> SUFFICES ASSUME RequireInv PROVE RequireHoldsItsLimits
    OBVIOUS
<1>1. /\ Shape(loads) /\ loads \in Seq(Frames) /\ Len(loads) \in Nat
      /\ DOMAIN loads = 1 .. Len(loads)
      /\ Kept(loads, failing, interrupted)
      /\ ModuleBooks(loads, marked, depth, count, stranded) /\ count \in Nat
      /\ stranded \in Stranded
      /\ \A ks : Inside(ks) = Where(loads, ks)
      /\ \A ks : HowMany(loads, ks) \in Nat
    BY InvFacts
<1>2. MarksFollowTheFrames
    <2>1. ASSUME NEW n \in Inside(Marking), NEW o \in Inside(Marking), n # o
          PROVE  loads[n].m # loads[o].m
        <3>1. /\ n \in 1 .. Len(loads) /\ o \in 1 .. Len(loads)
              /\ loads[n].k \in Marking /\ loads[o].k \in Marking
              /\ loads[n].k \in Stages /\ loads[o].k \in Stages
            BY <1>1 DEF Where, Stages
        <3>2. Sits(loads, n) /\ Sits(loads, o)
            BY <1>1, <3>1 DEF Shape
        <3>3. n \in 1 .. o - 1 \/ o \in 1 .. n - 1
            BY <1>1, <2>1, <3>1
        <3> QED
            BY <3>1, <3>2, <3>3 DEF Sits
    <2>2. marked = {loads[n].m : n \in Inside(Marking)} \cup stranded.marks
        BY <1>1 DEF ModuleBooks, HeldBy
    <2>3. depth = Cardinality(Inside(Deepening)) + stranded.depth
        BY <1>1 DEF ModuleBooks, HowMany
    <2> QED
        BY <2>1, <2>2, <2>3 DEF MarksFollowTheFrames
<1>3. OvershootIsBounded
    <2>1. HowMany(loads, Stages) \in Nat
        BY <1>1
    <2> QED
        BY <1>1, <2>1, RequireAssumption DEF ModuleBooks, OvershootIsBounded
<1>4. BreachEndsTheCall
    <2>1. ASSUME NEW n \in DOMAIN loads, loads[n].breach,
                 failing \in {"fatal", "nomem"}, Clear(loads, n, Len(loads)), loads[n].k = "call"
          PROVE  n = Base
        <3>1. n \in 1 .. Len(loads) /\ \A i \in n + 1 .. Len(loads) : loads[i].k # "call"
            BY <1>1, <2>1 DEF Clear
        <3>2. /\ Base \in 1 .. n /\ loads[Base].k = "call"
              /\ \A i \in Base + 1 .. Len(loads) : loads[i].k # "call"
            BY <1>1, <3>1, BaseIsBelow
        <3> QED
            BY <1>1, <2>1, <3>1, <3>2
    <2>2. ASSUME NEW n \in DOMAIN loads, loads[n].breach
          PROVE  \/ n = Base /\ failing \in {"fatal", "nomem"}
                 \/ \E r \in n + 1 .. Len(loads) : loads[r].out = "fatal"
                 \/ interrupted
        <3>1. loads[n].k = "call" /\ (interrupted \/ Coming(loads, failing, n))
            BY <1>1, <2>2 DEF Kept
        <3> QED
            BY <2>1, <2>2, <3>1 DEF Coming
    <2> QED
        BY <2>2 DEF BreachEndsTheCall
<1> QED
    BY <1>2, <1>3, <1>4 DEF RequireHoldsItsLimits

(* What run ledgers checks on two modules and five frames: marks follow the     *)
(* frames, maxModules is passed by maxRequireDepth at most, and a               *)
(* limit that struck ends the call it struck under, through every search,       *)
(* loader, coroutine and finaliser in between (luaext_require.c:686-856).       *)
THEOREM RequireLimitsHold == RequireSpec => []RequireHoldsItsLimits
<1> QED
    BY RequireInvariant, InvHoldsLimits, PTL

=============================================================================
