---- MODULE LifecycleProofs ----
(* That Lifecycle keeps what Custody promises, for any sandboxes, objects and   *)
(* handles, and any depth of the C stack.                                       *)
(*                                                                              *)
(* The steps that matter are giving back, destroying and abandoning; each needs *)
(* to know that nothing executes in the interpreter, or that something was      *)
(* jumped over in it.  The code decides by counters (in_lua) and by flags       *)
(* (closed, panicked) set long before, so the invariant says what each frame of *)
(* the C stack may rely on while it waits for what it called: a call that its   *)
(* interpreter is up and open, a close that nobody opens again what it closed,  *)
(* a drain that what it detached is still its own, a destructor that its object *)
(* went for good.  Three more stand on it: that handles and registries are each *)
(* other's inverse, that whatever is left is on its way to an end, and that the *)
(* counters are those of the frames.                                            *)
EXTENDS Lifecycle, FiniteSetTheorems, TLAPS

BoxRecord == [made : {"unborn", "made", "freed"},
              lua : {"none", "up", "destroyed", "abandoned"},
              closed : BOOLEAN, panicked : BOOLEAN, var : BOOLEAN, wreck : BOOLEAN,
              inLua : Nat, inPhp : Int]
ItemRecord == [at : {"host", "lua", "queue", "detached", "dying", "released", "leaked"},
               of : Boxes \cup {Nothing}, refs : Boxes \cup {Nothing}, proxy : BOOLEAN]

LuaFrames(s, b) == {n \in 1 .. Len(s) : s[n].k = "lua" /\ s[n].b = b}
Depth(s, b)     == Cardinality(LuaFrames(s, b))

(* What the code under a frame relies on.                                       *)
LuaFits(f, bx)   == bx[f.b].lua = "up" /\ ~bx[f.b].closed
CloseFits(f, bx, it) ==
    /\ bx[f.b].closed
    /\ f.stage \in {"own", "lua", "abandon"} => f.pass = 0
    /\ f.stage = "abandon" => bx[f.b].lua = "abandoned"
    /\ f.stage \in {"drain", "finish"} => bx[f.b].lua # "up"
    /\ f.stage = "drain" /\ f.pass > 0 => \A i \in Items : ~(it[i].at = "queue" /\ it[i].of = f.b)
DrainFits(f, bx, it) ==
    /\ \A i \in f.left : it[i].at = "detached" /\ it[i].of = f.b
    /\ f.by = "close" => bx[f.b].closed /\ bx[f.b].lua # "up"
DtorFits(f, it)  == f.i # Nothing => it[f.i].at \in {"dying", "released"}

Fits(f, bx, it) ==
    /\ f.k = "lua"   => LuaFits(f, bx)
    /\ f.k = "close" => CloseFits(f, bx, it)
    /\ f.k = "drain" => DrainFits(f, bx, it)
    /\ f.k = "dtor"  => DtorFits(f, it)

(* How frames stand to each other.                                              *)
Placed(s) ==
    /\ s \in Seq(Frames)
    /\ \A n \in 1 .. Len(s) : s[n].k = "sweep" => n = 1
    /\ \A n \in 1 .. Len(s) : s[n].k = "drain" /\ s[n].by = "call" =>
            \A m \in 1 .. n : ~(s[m].k = "lua" /\ s[m].b = s[n].b)
    /\ \A n, m \in 1 .. Len(s) :
            n # m /\ s[n].k = "drain" /\ s[m].k = "drain" => s[n].left \cap s[m].left = {}

Born(bx, live) ==
    /\ live \in Seq(Boxes)
    /\ \A n \in 1 .. Len(live) : bx[live[n]].made # "unborn"
    /\ \A b \in Boxes : bx[b].made = "unborn" => bx[b].lua = "none" /\ ~bx[b].closed

(* While the request runs, in_lua counts the frames; after a jump it counts     *)
(* those that were jumped over, and nothing runs any more.                      *)
Counted(s, bx, rq) ==
    /\ rq \in {"running", "ending", "crashed", "over"}
    /\ rq \in {"running", "ending"} =>
            \A b \in Boxes : bx[b].inLua = Depth(s, b) /\ ~bx[b].wreck /\ ~bx[b].panicked
    /\ rq = "crashed" => \A n \in 1 .. Len(s) :
            s[n].k \notin {"lua", "php"} /\ ~(s[n].k = "drain" /\ s[n].by = "call")
    /\ \A b \in Boxes : bx[b].wreck => bx[b].lua \in {"up", "abandoned"}
    /\ rq = "crashed" => \A b \in Boxes : bx[b].wreck = (bx[b].panicked \/ bx[b].inLua > 0)

(* Changes the frames that wait do not notice.  Items in X are nobody's.        *)
BoxesCalm(bx, new) ==
    \A b \in Boxes : bx[b].closed => /\ new[b].closed
                                     /\ bx[b].lua # "up" => new[b].lua = bx[b].lua
ItemsCalm(bx, it, new, X) ==
    \A i \in Items :
        /\ it[i].at = "detached" /\ i \notin X => new[i].at = "detached" /\ new[i].of = it[i].of
        /\ it[i].at \in {"dying", "released"} => new[i].at \in {"dying", "released"}
        /\ new[i].at = "queue" => \/ it[i].at = "queue" /\ new[i].of = it[i].of
                                  \/ bx[new[i].of].lua = "up"

Waits(s, bx, it) == Placed(s) /\ \A n \in 1 .. Len(s) : Fits(s[n], bx, it)

Inv ==
    /\ boxes \in [Boxes -> BoxRecord]
    /\ items \in [Items -> ItemRecord]
    /\ Waits(stack, boxes, items)
    /\ Born(boxes, liveList)
    /\ Counted(stack, boxes, request)
    /\ request = "over" => stack = <<>> /\ Dying = {}

--------------------------------------------------------------------------------
(* Stacks.                                                                      *)

LEMMA TopAndBelow ==
    ASSUME NEW s \in Seq(Frames), s # <<>>
    PROVE  /\ Len(s) \in Nat /\ Len(s) > 0
           /\ Last(s) = s[Len(s)] /\ Last(s) \in Frames
           /\ Front(s) \in Seq(Frames) /\ Len(Front(s)) = Len(s) - 1
           /\ \A n \in 1 .. Len(s) - 1 : Front(s)[n] = s[n]
<1>1. Len(s) \in Nat /\ Len(s) > 0
    OBVIOUS
<1>2. Last(s) = s[Len(s)] /\ s[Len(s)] \in Frames
    BY <1>1 DEF Last
<1>3. /\ Front(s) \in Seq(Frames) /\ Len(Front(s)) = Len(s) - 1
      /\ \A n \in 1 .. Len(s) - 1 : Front(s)[n] = s[n]
    <2> DEFINE l == Len(s) - 1
    <2>1. l \in 0 .. Len(s) /\ Front(s) = SubSeq(s, 1, l)
        BY <1>1 DEF Front
    <2> HIDE DEF l
    <2>2. /\ SubSeq(s, 1, l) \in Seq(Frames) /\ Len(SubSeq(s, 1, l)) = l
          /\ \A n \in 1 .. l : SubSeq(s, 1, l)[n] = s[n]
        BY <1>1, <2>1
    <2> QED
        BY <2>1, <2>2 DEF l
<1> QED
    BY <1>1, <1>2, <1>3

LEMMA OneMore ==
    ASSUME NEW s \in Seq(Frames), NEW f \in Frames
    PROVE  /\ Append(s, f) \in Seq(Frames) /\ Len(Append(s, f)) = Len(s) + 1
           /\ Append(s, f)[Len(s) + 1] = f
           /\ \A n \in 1 .. Len(s) : Append(s, f)[n] = s[n]
    OBVIOUS

LEMMA TwoMore ==
    ASSUME NEW s \in Seq(Frames), NEW f \in Frames, NEW g \in Frames
    PROVE  s \o <<f, g>> = Append(Append(s, f), g)
    OBVIOUS

LEMMA FitsCalm ==
    ASSUME NEW f \in Frames, NEW bx, NEW it, Fits(f, bx, it),
           NEW bx2, NEW it2, NEW X, BoxesCalm(bx, bx2), ItemsCalm(bx, it, it2, X),
           f.k = "lua" => LuaFits(f, bx2),
           f.k = "drain" => f.left \cap X = {}
    PROVE  Fits(f, bx2, it2)
<1>1. CASE f.k = "lua"
    BY <1>1 DEF Fits
<1>2. CASE f.k = "close"
    <2>1. f.b \in Boxes
        BY <1>2 DEF Frames
    <2>2. CloseFits(f, bx, it)
        BY <1>2 DEF Fits
    <2>3. bx2[f.b].closed /\ (bx[f.b].lua # "up" => bx2[f.b].lua = bx[f.b].lua)
        BY <2>1, <2>2 DEF CloseFits, BoxesCalm
    <2>4. ASSUME f.stage = "drain", f.pass > 0, NEW i \in Items, it2[i].at = "queue"
          PROVE  it2[i].of # f.b
        BY <2>2, <2>4 DEF CloseFits, ItemsCalm
    <2>5. CloseFits(f, bx2, it2)
        BY <2>2, <2>3, <2>4 DEF CloseFits
    <2> QED
        BY <1>2, <2>5 DEF Fits
<1>3. CASE f.k = "drain"
    <2>1. f.b \in Boxes /\ f.left \subseteq Items
        BY <1>3 DEF Frames
    <2>2. DrainFits(f, bx, it)
        BY <1>3 DEF Fits
    <2>3. \A i \in f.left : i \notin X
        BY <1>3
    <2>4. \A i \in f.left : it2[i].at = "detached" /\ it2[i].of = f.b
        BY <2>1, <2>2, <2>3 DEF DrainFits, ItemsCalm
    <2>5. DrainFits(f, bx2, it2)
        BY <2>1, <2>2, <2>4 DEF DrainFits, BoxesCalm
    <2> QED
        BY <1>3, <2>5 DEF Fits
<1>4. CASE f.k = "dtor"
    <2>1. f.i \in Items \cup {Nothing}
        BY <1>4 DEF Frames
    <2>2. DtorFits(f, it2)
        BY <1>4, <2>1 DEF Fits, DtorFits, ItemsCalm
    <2> QED
        BY <1>4, <2>2 DEF Fits
<1>5. CASE f.k \notin {"lua", "close", "drain", "dtor"}
    BY <1>5 DEF Fits
<1> QED
    BY <1>1, <1>2, <1>3, <1>4, <1>5

(* Data change under a stack that stays.                                        *)
LEMMA DataCalm ==
    ASSUME NEW s, NEW bx, NEW it, Waits(s, bx, it),
           NEW bx2, NEW it2, NEW X, BoxesCalm(bx, bx2), ItemsCalm(bx, it, it2, X),
           \A n \in 1 .. Len(s) : s[n].k = "lua" => LuaFits(s[n], bx2),
           \A n \in 1 .. Len(s) : s[n].k = "drain" => s[n].left \cap X = {}
    PROVE  Waits(s, bx2, it2)
<1>1. s \in Seq(Frames)
    BY DEF Waits, Placed
<1>2. ASSUME NEW n \in 1 .. Len(s) PROVE Fits(s[n], bx2, it2)
    <2>1. s[n] \in Frames
        BY <1>1
    <2>2. Fits(s[n], bx, it)
        BY DEF Waits
    <2> QED
        BY <2>1, <2>2, FitsCalm
<1> QED
    BY <1>2 DEF Waits

LEMMA PrefixWaits ==
    ASSUME NEW s, NEW bx, NEW it, Waits(s, bx, it),
           NEW t \in Seq(Frames), Len(t) <= Len(s), \A n \in 1 .. Len(t) : t[n] = s[n]
    PROVE  Waits(t, bx, it)
<1>1. s \in Seq(Frames) /\ Len(s) \in Nat /\ Len(t) \in Nat
    BY DEF Waits, Placed
<1>2. \A n \in 1 .. Len(t) : n \in 1 .. Len(s) /\ t[n] = s[n]
    BY <1>1
<1>3. \A n \in 1 .. Len(t) : Fits(t[n], bx, it)
    BY <1>2 DEF Waits
<1>4. \A n \in 1 .. Len(t) : t[n].k = "sweep" => n = 1
    BY <1>2 DEF Waits, Placed
<1>5. ASSUME NEW n \in 1 .. Len(t), t[n].k = "drain", t[n].by = "call", NEW m \in 1 .. n
      PROVE  ~(t[m].k = "lua" /\ t[m].b = t[n].b)
    <2>1. m \in 1 .. Len(t)
        BY <1>1
    <2> QED
        BY <1>2, <1>5, <2>1 DEF Waits, Placed
<1>6. ASSUME NEW n \in 1 .. Len(t), NEW m \in 1 .. Len(t), n # m,
             t[n].k = "drain", t[m].k = "drain"
      PROVE  t[n].left \cap t[m].left = {}
    BY <1>2, <1>6 DEF Waits, Placed
<1> QED
    BY <1>3, <1>4, <1>5, <1>6 DEF Waits, Placed

LEMMA PushWaits ==
    ASSUME NEW s, NEW bx, NEW it, Waits(s, bx, it), NEW f \in Frames,
           NEW t \in Seq(Frames), Len(t) = Len(s) + 1, t[Len(s) + 1] = f,
           \A n \in 1 .. Len(s) : t[n] = s[n],
           Fits(f, bx, it),
           f.k = "sweep" => Len(s) = 0,
           f.k = "drain" => /\ f.by = "call" => \A n \in 1 .. Len(s) : ~(s[n].k = "lua" /\ s[n].b = f.b)
                            /\ \A n \in 1 .. Len(s) : s[n].k = "drain" => s[n].left \cap f.left = {}
    PROVE  Waits(t, bx, it)
<1>1. s \in Seq(Frames) /\ Len(s) \in Nat
    BY DEF Waits, Placed
<1> DEFINE l == Len(s)
<1>2. \A n \in 1 .. l + 1 : n \in 1 .. l \/ n = l + 1
    BY <1>1
<1>3. /\ Len(t) = l + 1 /\ t[l + 1] = f
      /\ \A n \in 1 .. l : t[n] = s[n]
      /\ l \in Nat
    BY <1>1
<1>4. \A n \in 1 .. l + 1 : Fits(t[n], bx, it)
    BY <1>2, <1>3 DEF Waits
<1>5. \A n \in 1 .. l + 1 : t[n].k = "sweep" => n = 1
    BY <1>2, <1>3 DEF Waits, Placed
<1>6. ASSUME NEW n \in 1 .. l + 1, t[n].k = "drain", t[n].by = "call", NEW m \in 1 .. n
      PROVE  ~(t[m].k = "lua" /\ t[m].b = t[n].b)
    <2>1. CASE n \in 1 .. l
        <3>1. m \in 1 .. l
            BY <1>3, <2>1
        <3>2. ~(s[m].k = "lua" /\ s[m].b = s[n].b)
            BY <1>3, <1>6, <2>1 DEF Waits, Placed
        <3> QED
            BY <1>3, <2>1, <3>1, <3>2
    <2>2. CASE n = l + 1
        <3>1. CASE m = l + 1
            BY <1>3, <1>6, <2>2, <3>1
        <3>2. CASE m \in 1 .. l
            BY <1>3, <1>6, <2>2, <3>2
        <3> QED
            BY <1>3, <2>2, <3>1, <3>2
    <2> QED
        BY <1>2, <2>1, <2>2
<1>7. ASSUME NEW n \in 1 .. l + 1, NEW m \in 1 .. l + 1, n # m,
             t[n].k = "drain", t[m].k = "drain"
      PROVE  t[n].left \cap t[m].left = {}
    <2>1. CASE n \in 1 .. l /\ m \in 1 .. l
        BY <1>3, <1>7, <2>1 DEF Waits, Placed
    <2>2. CASE n = l + 1 /\ m \in 1 .. l
        BY <1>3, <1>7, <2>2
    <2>3. CASE m = l + 1 /\ n \in 1 .. l
        BY <1>3, <1>7, <2>3
    <2> QED
        BY <1>2, <1>7, <2>1, <2>2, <2>3
<1>8. Placed(t)
    BY <1>3, <1>5, <1>6, <1>7 DEF Placed
<1> QED
    BY <1>3, <1>4, <1>8 DEF Waits

--------------------------------------------------------------------------------
(* How deep an interpreter is.                                                  *)

LEMMA DepthIsNat ==
    ASSUME NEW s \in Seq(Frames), NEW b
    PROVE  /\ IsFiniteSet(LuaFrames(s, b)) /\ Depth(s, b) \in Nat
           /\ Depth(s, b) = 0 <=> \A n \in 1 .. Len(s) : ~(s[n].k = "lua" /\ s[n].b = b)
<1>1. IsFiniteSet(1 .. Len(s))
    BY FS_Interval
<1>2. LuaFrames(s, b) \subseteq 1 .. Len(s)
    BY DEF LuaFrames
<1>3. IsFiniteSet(LuaFrames(s, b))
    BY <1>1, <1>2, FS_Subset
<1>4. Depth(s, b) \in Nat
    BY <1>3, FS_CardinalityType DEF Depth
<1>5. Depth(s, b) = 0 <=> LuaFrames(s, b) = {}
    BY <1>3, FS_EmptySet DEF Depth
<1> QED
    BY <1>3, <1>4, <1>5 DEF LuaFrames

LEMMA DepthPush ==
    ASSUME NEW s \in Seq(Frames), NEW t \in Seq(Frames), Len(t) = Len(s) + 1,
           \A n \in 1 .. Len(s) : t[n] = s[n], NEW b
    PROVE  /\ t[Len(t)].k = "lua" /\ t[Len(t)].b = b => Depth(t, b) = Depth(s, b) + 1
           /\ ~(t[Len(t)].k = "lua" /\ t[Len(t)].b = b) => Depth(t, b) = Depth(s, b)
<1> DEFINE l == Len(s)
<1>1. l \in Nat /\ Len(t) = l + 1
    OBVIOUS
<1>2. \A n \in 1 .. l + 1 : n \in 1 .. l \/ n = l + 1
    BY <1>1
<1>3. CASE t[l + 1].k = "lua" /\ t[l + 1].b = b
    <2>1. LuaFrames(t, b) = LuaFrames(s, b) \cup {l + 1}
        BY <1>1, <1>2, <1>3 DEF LuaFrames
    <2>2. l + 1 \notin LuaFrames(s, b)
        BY <1>1 DEF LuaFrames
    <2>3. IsFiniteSet(LuaFrames(s, b))
        BY DepthIsNat
    <2>4. Cardinality(LuaFrames(s, b) \cup {l + 1}) = Cardinality(LuaFrames(s, b)) + 1
        BY <2>2, <2>3, FS_AddElement
    <2> QED
        BY <1>1, <1>3, <2>1, <2>4 DEF Depth
<1>4. CASE ~(t[l + 1].k = "lua" /\ t[l + 1].b = b)
    <2>1. LuaFrames(t, b) = LuaFrames(s, b)
        BY <1>1, <1>2, <1>4 DEF LuaFrames
    <2> QED
        BY <1>1, <1>4, <2>1 DEF Depth
<1> QED
    BY <1>1, <1>3, <1>4

--------------------------------------------------------------------------------
(* The rest of the invariant, where little changes.                             *)

LEMMA BornSame ==
    ASSUME NEW bx, NEW bx2, NEW live, Born(bx, live),
           \A b \in Boxes : bx2[b].made = "unborn" =>
               bx[b].made = "unborn" /\ bx2[b].lua = bx[b].lua /\ bx2[b].closed = bx[b].closed
    PROVE  Born(bx2, live)
<1>1. live \in Seq(Boxes)
    BY DEF Born
<1>2. \A n \in 1 .. Len(live) : live[n] \in Boxes
    BY <1>1
<1> QED
    BY <1>1, <1>2 DEF Born

LEMMA CountedSame ==
    ASSUME NEW s, NEW bx, NEW rq, Counted(s, bx, rq), NEW t, NEW bx2,
           rq \in {"running", "ending"} => \A b \in Boxes : Depth(t, b) = Depth(s, b),
           rq = "crashed" => \A n \in 1 .. Len(t) :
                t[n].k \notin {"lua", "php"} /\ ~(t[n].k = "drain" /\ t[n].by = "call"),
           \A b \in Boxes : /\ bx2[b].inLua = bx[b].inLua
                            /\ bx2[b].wreck = bx[b].wreck
                            /\ bx2[b].panicked = bx[b].panicked
                            /\ bx[b].wreck => bx2[b].lua \in {"up", "abandoned"}
    PROVE  Counted(t, bx2, rq)
    BY DEF Counted

LEMMA Shapes ==
    ASSUME Inv
    PROVE  /\ stack \in Seq(Frames)
           /\ stack # <<>> => /\ Len(stack) \in Nat /\ Len(stack) > 0
                              /\ Here = stack[Len(stack)] /\ Here \in Frames
                              /\ Below \in Seq(Frames) /\ Len(Below) = Len(stack) - 1
                              /\ \A n \in 1 .. Len(stack) - 1 : Below[n] = stack[n]
                              /\ Waits(Below, boxes, items)
                              /\ Fits(Here, boxes, items)
<1>1. stack \in Seq(Frames)
    BY DEF Inv, Waits, Placed
<1>2. ASSUME stack # <<>>
      PROVE  /\ Len(stack) \in Nat /\ Len(stack) > 0
             /\ Here = stack[Len(stack)] /\ Here \in Frames
             /\ Below \in Seq(Frames) /\ Len(Below) = Len(stack) - 1
             /\ \A n \in 1 .. Len(stack) - 1 : Below[n] = stack[n]
    BY <1>1, <1>2, TopAndBelow DEF Here, Below
<1>3. ASSUME stack # <<>> PROVE Waits(Below, boxes, items)
    <2>1. Len(Below) <= Len(stack) /\ \A n \in 1 .. Len(Below) : Below[n] = stack[n]
        BY <1>2, <1>3
    <2>2. Waits(stack, boxes, items)
        BY DEF Inv
    <2> QED
        BY <1>2, <1>3, <2>1, <2>2, PrefixWaits
<1>4. ASSUME stack # <<>> PROVE Fits(Here, boxes, items)
    <2>1. Len(stack) \in 1 .. Len(stack)
        BY <1>2, <1>4
    <2> QED
        BY <1>2, <1>4, <2>1 DEF Inv, Waits
<1> QED
    BY <1>1, <1>2, <1>3, <1>4

(* The end of the request is the end.                                           *)
LEMMA NotOver ==
    ASSUME Inv, LifecycleNext
    PROVE  request # "over"
<1> SUFFICES ASSUME request = "over" PROVE FALSE
    OBVIOUS
<1>1. stack = <<>> /\ Dying = {}
    BY DEF Inv
<1>2. \A k : ~HereIs(k)
    BY <1>1 DEF HereIs
<1>3. ~HostRuns
    BY <1>2 DEF HostRuns
<1>4. ~LifecycleEngine
    BY <1>1, <1>2 DEF LifecycleEngine, CallReturns, HostReturns, DrainOne, DrainDone,
        SweepClosesHead, SweepReleases, SweepOver, Free, CloseDropsItsOwn, CloseDestroys,
        CloseHasNothing, CloseAbandons, ReleaseAbandoned, CloseDrains, CloseUnlinks, Stage
<1> QED
    BY <1>2, <1>3, <1>4 DEF LifecycleNext, CallOut, EndRequest, Bailout, Finalised, DropHandle,
        Construct, ConstructFails, DropVariable, CallIn, CloseMethod, CollectCycle, Panic,
        MakeHandleFails, HandOver, MakeHandle

(* Nothing runs Lua once the request was jumped out of.                         *)
LEMMA HostRunsEarly ==
    ASSUME Inv, HostRuns \/ HereIs("lua")
    PROVE  request \in {"running", "ending"}
<1>1. request \in {"running", "ending", "crashed", "over"}
    BY DEF Inv, Counted
<1>2. ASSUME request = "over" PROVE FALSE
    BY <1>2 DEF Inv, HostRuns, HereIs
<1>3. ASSUME request = "crashed" PROVE FALSE
    <2>1. stack # <<>> /\ Here.k \in {"lua", "php"}
        BY <1>3 DEF HostRuns, HereIs
    <2>2. Len(stack) \in 1 .. Len(stack) /\ Here = stack[Len(stack)]
        BY <2>1, Shapes
    <2> QED
        BY <1>3, <2>1, <2>2 DEF Inv, Counted
<1> QED
    BY <1>1, <1>2, <1>3

--------------------------------------------------------------------------------
(* Steps that leave the stack alone.                                            *)

LEMMA DataStep ==
    ASSUME Inv, stack' = stack, request' = request, request # "over",
           boxes' \in [Boxes -> BoxRecord], items' \in [Items -> ItemRecord],
           Born(boxes', liveList'), ItemsCalm(boxes, items, items', {}),
           \A b \in Boxes : /\ boxes'[b].inLua = boxes[b].inLua
                            /\ boxes'[b].wreck = boxes[b].wreck
                            /\ boxes'[b].panicked = boxes[b].panicked
                            /\ boxes'[b].closed = boxes[b].closed
                            /\ boxes'[b].lua = boxes[b].lua
                               \/ boxes[b].made = "unborn"
    PROVE  Inv'
<1>1. \A b \in Boxes : boxes[b].made = "unborn" => boxes[b].lua = "none" /\ ~boxes[b].closed
    BY DEF Inv, Born
<1>2. BoxesCalm(boxes, boxes')
    BY <1>1 DEF BoxesCalm
<1>3. stack \in Seq(Frames)
    BY Shapes
<1>4. ASSUME NEW n \in 1 .. Len(stack), stack[n].k = "lua" PROVE LuaFits(stack[n], boxes')
    <2>1. stack[n] \in Frames
        BY <1>3
    <2>2. stack[n].b \in Boxes
        BY <1>4, <2>1 DEF Frames
    <2>3. LuaFits(stack[n], boxes)
        BY <1>4 DEF Inv, Waits, Fits
    <2> QED
        BY <1>1, <2>2, <2>3 DEF LuaFits
<1>5. Waits(stack, boxes, items)
    BY DEF Inv
<1>6. Waits(stack, boxes', items')
    BY <1>2, <1>4, <1>5, DataCalm
<1>7. Counted(stack, boxes, request)
    BY DEF Inv
<1>8. Counted(stack, boxes', request)
    <2>1. \A b \in Boxes : boxes[b].wreck => boxes'[b].lua \in {"up", "abandoned"}
        BY <1>1, <1>7 DEF Counted
    <2>2. request = "crashed" => \A n \in 1 .. Len(stack) :
            stack[n].k \notin {"lua", "php"} /\ ~(stack[n].k = "drain" /\ stack[n].by = "call")
        BY <1>7 DEF Counted
    <2> QED
        BY <1>7, <2>1, <2>2, CountedSame
<1> QED
    BY <1>6, <1>8 DEF Inv

LEMMA ConstructKeeps ==
    ASSUME Inv, NEW b \in Boxes, Construct(b), request # "over" PROVE Inv'
<1>1. /\ boxes' \in [Boxes -> BoxRecord]
      /\ \A c \in Boxes : /\ boxes'[c].inLua = boxes[c].inLua
                          /\ boxes'[c].wreck = boxes[c].wreck
                          /\ boxes'[c].panicked = boxes[c].panicked
                          /\ boxes'[c].closed = boxes[c].closed
                          /\ c # b => boxes'[c] = boxes[c]
      /\ boxes'[b].made = "made" /\ boxes[b].made = "unborn"
    <2> DEFINE r == [boxes[b] EXCEPT !.made = "made", !.lua = "up", !.var = TRUE]
    <2>1. boxes \in [Boxes -> BoxRecord] /\ boxes[b] \in BoxRecord
        BY DEF Inv
    <2>2. boxes' = [boxes EXCEPT ![b] = r] /\ boxes[b].made = "unborn"
        BY DEF Construct
    <2>3. /\ r \in BoxRecord /\ r.inLua = boxes[b].inLua /\ r.wreck = boxes[b].wreck
          /\ r.panicked = boxes[b].panicked /\ r.closed = boxes[b].closed /\ r.made = "made"
        BY <2>1 DEF BoxRecord
    <2> HIDE DEF r
    <2> QED
        BY <2>1, <2>2, <2>3
<1>2. items' = items /\ stack' = stack /\ request' = request /\ liveList' = <<b>> \o liveList
    BY DEF Construct
<1>3. Born(boxes', liveList')
    <2>1. liveList \in Seq(Boxes) /\ \A n \in 1 .. Len(liveList) : boxes[liveList[n]].made # "unborn"
        BY DEF Inv, Born
    <2>2. /\ liveList' \in Seq(Boxes) /\ Len(liveList') = Len(liveList) + 1 /\ liveList'[1] = b
          /\ \A n \in 2 .. Len(liveList) + 1 : liveList'[n] = liveList[n - 1]
        BY <1>2, <2>1
    <2>3. ASSUME NEW n \in 1 .. Len(liveList') PROVE boxes'[liveList'[n]].made # "unborn"
        <3>1. CASE n = 1
            BY <1>1, <2>2, <3>1
        <3>2. CASE n # 1
            <4>1. n \in 2 .. Len(liveList) + 1 /\ n - 1 \in 1 .. Len(liveList)
                BY <2>1, <2>2, <3>2
            <4>2. liveList'[n] = liveList[n - 1] /\ liveList[n - 1] \in Boxes
                BY <2>1, <2>2, <4>1
            <4>3. boxes[liveList[n - 1]].made # "unborn"
                BY <2>1, <4>1
            <4> QED
                BY <1>1, <4>2, <4>3
        <3> QED
            BY <3>1, <3>2
    <2>4. \A c \in Boxes : boxes'[c].made = "unborn" => boxes'[c].lua = "none" /\ ~boxes'[c].closed
        BY <1>1 DEF Inv, Born
    <2> QED
        BY <2>2, <2>3, <2>4 DEF Born
<1>4. ItemsCalm(boxes, items, items', {})
    BY <1>2 DEF ItemsCalm
<1>5. items' \in [Items -> ItemRecord]
    BY <1>2 DEF Inv
<1> QED
    BY <1>1, <1>2, <1>3, <1>4, <1>5, DataStep

(* What does not touch the sandboxes but for a variable of the host's.          *)
LEMMA SmallDataKeeps ==
    ASSUME Inv, request # "over",
           \/ \E b \in Boxes : ConstructFails(b) \/ DropVariable(b) \/ MakeHandleFails(b)
           \/ \E b \in Boxes, h \in Handles : MakeHandle(b, h)
           \/ \E h \in Handles : DropHandle(h)
    PROVE  Inv'
<1>1. /\ boxes' \in [Boxes -> BoxRecord]
      /\ \A c \in Boxes : /\ boxes'[c].inLua = boxes[c].inLua
                          /\ boxes'[c].wreck = boxes[c].wreck
                          /\ boxes'[c].panicked = boxes[c].panicked
                          /\ boxes'[c].closed = boxes[c].closed
                          /\ boxes'[c] = boxes[c] \/ boxes[c].made = "unborn" \/
                             (boxes'[c].lua = boxes[c].lua /\ boxes'[c].made = boxes[c].made)
                          /\ boxes'[c].made = "unborn" => boxes[c].made = "unborn" /\ boxes'[c].lua = boxes[c].lua
    <2>1. ASSUME NEW b \in Boxes, ConstructFails(b) PROVE <1>1!:
        <3>1. PICK lua \in {"none", "up"} :
                boxes' = [boxes EXCEPT ![b] = [boxes[b] EXCEPT !.made = "made", !.lua = lua]]
            BY <2>1 DEF ConstructFails
        <3> DEFINE r == [boxes[b] EXCEPT !.made = "made", !.lua = lua]
        <3>2. boxes \in [Boxes -> BoxRecord] /\ boxes[b] \in BoxRecord /\ boxes[b].made = "unborn"
            BY <2>1 DEF Inv, ConstructFails
        <3>3. /\ r \in BoxRecord /\ r.inLua = boxes[b].inLua /\ r.wreck = boxes[b].wreck
              /\ r.panicked = boxes[b].panicked /\ r.closed = boxes[b].closed /\ r.made = "made"
            BY <3>2 DEF BoxRecord
        <3>4. boxes' = [boxes EXCEPT ![b] = r]
            BY <3>1
        <3> HIDE DEF r
        <3> QED
            BY <3>2, <3>3, <3>4
    <2>2. ASSUME NEW b \in Boxes, DropVariable(b) PROVE <1>1!:
        BY <2>2 DEF DropVariable, Inv, BoxRecord
    <2>3. ASSUME boxes' = boxes PROVE <1>1!:
        BY <2>3 DEF Inv
    <2> QED
        BY <2>1, <2>2, <2>3 DEF MakeHandleFails, MakeHandle, DropHandle
<1>2. items' = items /\ stack' = stack /\ request' = request /\ liveList' = liveList
    BY DEF ConstructFails, DropVariable, MakeHandleFails, MakeHandle, DropHandle
<1>3. Born(boxes', liveList')
    <2>1. Born(boxes, liveList)
        BY DEF Inv
    <2> QED
        BY <1>1, <1>2, <2>1, BornSame
<1>4. ItemsCalm(boxes, items, items', {})
    BY <1>2 DEF ItemsCalm
<1>5. items' \in [Items -> ItemRecord]
    BY <1>2 DEF Inv
<1> QED
    BY <1>1, <1>2, <1>3, <1>4, <1>5, DataStep

LEMMA HandOverKeeps ==
    ASSUME Inv, request # "over", NEW b \in Boxes, NEW i \in Items, HandOver(b, i) PROVE Inv'
<1>1. PICK refs \in Boxes \cup {Nothing}, proxy \in BOOLEAN :
        items' = [items EXCEPT ![i] = [at |-> "lua", of |-> b, refs |-> refs, proxy |-> proxy]]
    BY DEF HandOver
<1>2. items \in [Items -> ItemRecord] /\ items[i].at = "host"
    BY DEF HandOver, Inv
<1>3. /\ items' \in [Items -> ItemRecord] /\ items'[i].at = "lua"
      /\ \A j \in Items : j # i => items'[j] = items[j]
    BY <1>1, <1>2 DEF ItemRecord
<1>4. ItemsCalm(boxes, items, items', {})
    BY <1>2, <1>3 DEF ItemsCalm
<1>5. boxes' = boxes /\ stack' = stack /\ request' = request /\ liveList' = liveList
    BY DEF HandOver
<1>6. boxes' \in [Boxes -> BoxRecord] /\ Born(boxes', liveList')
    BY <1>5 DEF Inv
<1> QED
    BY <1>3, <1>4, <1>5, <1>6, DataStep

LEMMA FinalisedKeeps ==
    ASSUME Inv, request # "over", NEW i \in Items, Finalised(i) PROVE Inv'
<1>1. items \in [Items -> ItemRecord] /\ items[i].at = "lua" /\ items[i].of = Here.b
    BY DEF Finalised, Inv, At
<1>2. items' = [items EXCEPT ![i].at = "queue"]
    BY DEF Finalised
<1>3. /\ items' \in [Items -> ItemRecord] /\ items'[i].at = "queue" /\ items'[i].of = Here.b
      /\ \A j \in Items : j # i => items'[j] = items[j]
    BY <1>1, <1>2 DEF ItemRecord
<1>4. boxes[Here.b].lua = "up"
    <2>1. stack # <<>> /\ Here.k = "lua"
        BY DEF Finalised, HereIs
    <2>2. Fits(Here, boxes, items)
        BY <2>1, Shapes
    <2> QED
        BY <2>1, <2>2 DEF Fits, LuaFits
<1>5. ItemsCalm(boxes, items, items', {})
    BY <1>1, <1>3, <1>4 DEF ItemsCalm
<1>6. boxes' = boxes /\ stack' = stack /\ request' = request /\ liveList' = liveList
    BY DEF Finalised
<1>7. boxes' \in [Boxes -> BoxRecord] /\ Born(boxes', liveList')
    BY <1>6 DEF Inv
<1> QED
    BY <1>3, <1>5, <1>6, <1>7, DataStep

--------------------------------------------------------------------------------
(* Steps that push and pop.                                                     *)

LEMMA CalmUnder ==
    ASSUME Inv, NEW u, u = stack \/ (stack # <<>> /\ u = Below), NEW X,
           NEW bx, NEW it, BoxesCalm(boxes, bx), ItemsCalm(boxes, items, it, X),
           \A c \in Boxes : \/ bx[c].lua = boxes[c].lua /\ bx[c].closed = boxes[c].closed
                            \/ \A n \in 1 .. Len(u) : ~(u[n].k = "lua" /\ u[n].b = c),
           \A n \in 1 .. Len(u) : u[n].k = "drain" => u[n].left \cap X = {}
    PROVE  Waits(u, bx, it)
<1>1. Waits(u, boxes, items)
    BY Shapes DEF Inv
<1>2. u \in Seq(Frames)
    BY <1>1 DEF Waits, Placed
<1>3. ASSUME NEW n \in 1 .. Len(u), u[n].k = "lua" PROVE LuaFits(u[n], bx)
    <2>1. u[n] \in Frames
        BY <1>2
    <2>2. u[n].b \in Boxes
        BY <1>3, <2>1 DEF Frames
    <2>3. LuaFits(u[n], boxes)
        BY <1>1, <1>3 DEF Waits, Fits
    <2> QED
        BY <1>3, <2>2, <2>3 DEF LuaFits
<1> QED
    BY <1>1, <1>3, DataCalm

LEMMA AppendWaits ==
    ASSUME NEW s, NEW bx, NEW it, Waits(s, bx, it), NEW f \in Frames, Fits(f, bx, it),
           f.k = "sweep" => Len(s) = 0,
           f.k = "drain" => /\ f.by = "call" => \A n \in 1 .. Len(s) : ~(s[n].k = "lua" /\ s[n].b = f.b)
                            /\ \A n \in 1 .. Len(s) : s[n].k = "drain" => s[n].left \cap f.left = {}
    PROVE  Waits(Append(s, f), bx, it)
<1>1. s \in Seq(Frames)
    BY DEF Waits, Placed
<1> DEFINE t == Append(s, f)
<1>2. /\ t \in Seq(Frames) /\ Len(t) = Len(s) + 1 /\ t[Len(s) + 1] = f
      /\ \A n \in 1 .. Len(s) : t[n] = s[n]
    BY <1>1, OneMore
<1> HIDE DEF t
<1>3. Waits(t, bx, it)
    BY <1>2, PushWaits
<1> QED
    BY <1>3 DEF t

LEMMA CountedAppend ==
    ASSUME NEW s \in Seq(Frames), NEW bx, NEW rq, Counted(s, bx, rq), NEW f \in Frames,
           f.k # "lua",
           rq = "crashed" => f.k # "php" /\ ~(f.k = "drain" /\ f.by = "call")
    PROVE  Counted(Append(s, f), bx, rq)
<1> DEFINE t == Append(s, f)
<1>1. /\ t \in Seq(Frames) /\ Len(t) = Len(s) + 1 /\ t[Len(s) + 1] = f
      /\ \A n \in 1 .. Len(s) : t[n] = s[n]
    BY OneMore
<1> HIDE DEF t
<1>2. \A b \in Boxes : Depth(t, b) = Depth(s, b)
    BY <1>1, DepthPush
<1>3. \A n \in 1 .. Len(t) : n \in 1 .. Len(s) \/ n = Len(s) + 1
    BY <1>1
<1>4. rq = "crashed" => \A n \in 1 .. Len(t) :
            t[n].k \notin {"lua", "php"} /\ ~(t[n].k = "drain" /\ t[n].by = "call")
    BY <1>1, <1>3 DEF Counted
<1>5. \A b \in Boxes : bx[b].wreck => bx[b].lua \in {"up", "abandoned"}
    BY DEF Counted
<1>6. Counted(t, bx, rq)
    BY <1>2, <1>4, <1>5, CountedSame
<1> QED
    BY <1>6 DEF t

LEMMA CountedFront ==
    ASSUME NEW s \in Seq(Frames), s # <<>>, NEW bx, NEW rq, Counted(s, bx, rq), Last(s).k # "lua"
    PROVE  Counted(Front(s), bx, rq)
<1> DEFINE t == Front(s)
<1>1. /\ t \in Seq(Frames) /\ Len(s) = Len(t) + 1 /\ s[Len(s)].k # "lua" /\ Len(t) \in Nat
      /\ \A n \in 1 .. Len(t) : t[n] = s[n]
    BY TopAndBelow
<1> HIDE DEF t
<1>2. \A b \in Boxes : Depth(t, b) = Depth(s, b)
    BY <1>1, DepthPush
<1>3. \A n \in 1 .. Len(t) : n \in 1 .. Len(s)
    BY <1>1
<1>4. rq = "crashed" => \A n \in 1 .. Len(t) :
            t[n].k \notin {"lua", "php"} /\ ~(t[n].k = "drain" /\ t[n].by = "call")
    BY <1>1, <1>3 DEF Counted
<1>5. \A b \in Boxes : bx[b].wreck => bx[b].lua \in {"up", "abandoned"}
    BY DEF Counted
<1>6. Counted(t, bx, rq)
    BY <1>2, <1>4, <1>5, CountedSame
<1> QED
    BY <1>6 DEF t

LEMMA CallInKeeps ==
    ASSUME Inv, request # "over", NEW b \in Boxes, CallIn(b) PROVE Inv'
<1> DEFINE f == [k |-> "lua", b |-> b]
<1>1. /\ HostRuns /\ Usable(b) /\ stack' = Append(stack, f)
      /\ boxes' = [boxes EXCEPT ![b].inLua = boxes[b].inLua + 1]
      /\ items' = items /\ request' = request /\ liveList' = liveList
    BY DEF CallIn, PushFrame
<1>2. f \in Frames /\ f.k = "lua" /\ f.b = b
    BY DEF Frames
<1> HIDE DEF f
<1>3. /\ boxes' \in [Boxes -> BoxRecord]
      /\ \A c \in Boxes : /\ boxes'[c].wreck = boxes[c].wreck
                          /\ boxes'[c].panicked = boxes[c].panicked
                          /\ boxes'[c].closed = boxes[c].closed
                          /\ boxes'[c].lua = boxes[c].lua
                          /\ boxes'[c].made = boxes[c].made
                          /\ c # b => boxes'[c] = boxes[c]
      /\ boxes'[b].inLua = boxes[b].inLua + 1
    <2> DEFINE r == [boxes[b] EXCEPT !.inLua = boxes[b].inLua + 1]
    <2>1. boxes \in [Boxes -> BoxRecord] /\ boxes[b] \in BoxRecord
        BY DEF Inv
    <2>2. boxes' = [boxes EXCEPT ![b] = r]
        BY <1>1
    <2>3. /\ r \in BoxRecord /\ r.inLua = boxes[b].inLua + 1 /\ r.wreck = boxes[b].wreck
          /\ r.panicked = boxes[b].panicked /\ r.closed = boxes[b].closed
          /\ r.lua = boxes[b].lua /\ r.made = boxes[b].made
        BY <2>1 DEF BoxRecord
    <2> HIDE DEF r
    <2> QED
        BY <2>1, <2>2, <2>3
<1>4. items' \in [Items -> ItemRecord] /\ ItemsCalm(boxes, items, items', {})
    BY <1>1 DEF Inv, ItemsCalm
<1>5. Waits(stack, boxes', items')
    <2>1. BoxesCalm(boxes, boxes')
        BY <1>3 DEF BoxesCalm
    <2> QED
        BY <1>3, <1>4, <2>1, CalmUnder
<1>6. Fits(f, boxes', items')
    BY <1>1, <1>2, <1>3 DEF Fits, LuaFits, Usable
<1>7. Waits(stack', boxes', items')
    BY <1>1, <1>2, <1>5, <1>6, AppendWaits
<1>8. Born(boxes', liveList')
    <2>1. Born(boxes, liveList) /\ liveList' = liveList
        BY <1>1 DEF Inv
    <2>2. \A c \in Boxes : boxes'[c].made = "unborn" =>
            boxes[c].made = "unborn" /\ boxes'[c].lua = boxes[c].lua /\ boxes'[c].closed = boxes[c].closed
        BY <1>3
    <2> QED
        BY <2>1, <2>2, BornSame
<1>9. Counted(stack', boxes', request)
    <2>1. request \in {"running", "ending"}
        BY <1>1, HostRunsEarly
    <2>2. stack \in Seq(Frames)
        BY Shapes
    <2>3. /\ stack' \in Seq(Frames) /\ Len(stack') = Len(stack) + 1 /\ stack'[Len(stack) + 1] = f
          /\ \A n \in 1 .. Len(stack) : stack'[n] = stack[n]
        BY <1>1, <1>2, <2>2, OneMore
    <2>4. /\ Depth(stack', b) = Depth(stack, b) + 1
          /\ \A c \in Boxes : c # b => Depth(stack', c) = Depth(stack, c)
        BY <1>2, <2>2, <2>3, DepthPush
    <2>5. Counted(stack, boxes, request)
        BY DEF Inv
    <2> QED
        BY <1>3, <2>1, <2>4, <2>5 DEF Counted
<1> QED
    BY <1>1, <1>3, <1>4, <1>7, <1>8, <1>9 DEF Inv

LEMMA CallOutKeeps ==
    ASSUME Inv, request # "over", CallOut PROVE Inv'
<1> DEFINE f == [k |-> "php", b |-> Here.b]
           b == Here.b
<1>1. /\ stack # <<>> /\ Here.k = "lua" /\ stack' = Append(stack, f)
      /\ boxes' = [boxes EXCEPT ![b].inPhp = boxes[b].inPhp + 1]
      /\ items' = items /\ request' = request /\ liveList' = liveList
    BY DEF CallOut, PushFrame, HereIs
<1>2. Here \in Frames /\ HereIs("lua")
    BY <1>1, Shapes DEF CallOut
<1>3. b \in Boxes
    BY <1>1, <1>2 DEF Frames
<1>4. f \in Frames /\ f.k = "php"
    BY <1>3 DEF Frames
<1> HIDE DEF f, b
<1>5. /\ boxes' \in [Boxes -> BoxRecord]
      /\ \A c \in Boxes : /\ boxes'[c].wreck = boxes[c].wreck
                          /\ boxes'[c].panicked = boxes[c].panicked
                          /\ boxes'[c].closed = boxes[c].closed
                          /\ boxes'[c].lua = boxes[c].lua
                          /\ boxes'[c].made = boxes[c].made
                          /\ boxes'[c].inLua = boxes[c].inLua
    <2> DEFINE r == [boxes[b] EXCEPT !.inPhp = boxes[b].inPhp + 1]
    <2>1. boxes \in [Boxes -> BoxRecord] /\ boxes[b] \in BoxRecord
        BY <1>3 DEF Inv
    <2>2. boxes' = [boxes EXCEPT ![b] = r]
        BY <1>1
    <2>3. /\ r \in BoxRecord /\ r.inLua = boxes[b].inLua /\ r.wreck = boxes[b].wreck
          /\ r.panicked = boxes[b].panicked /\ r.closed = boxes[b].closed
          /\ r.lua = boxes[b].lua /\ r.made = boxes[b].made
        BY <2>1 DEF BoxRecord
    <2> HIDE DEF r
    <2> QED
        BY <1>3, <2>1, <2>2, <2>3
<1>6. items' \in [Items -> ItemRecord] /\ ItemsCalm(boxes, items, items', {})
    BY <1>1 DEF Inv, ItemsCalm
<1>7. Waits(stack, boxes', items')
    <2>1. BoxesCalm(boxes, boxes')
        BY <1>5 DEF BoxesCalm
    <2> QED
        BY <1>5, <1>6, <2>1, CalmUnder
<1>8. Fits(f, boxes', items')
    BY <1>4 DEF Fits
<1>9. Waits(stack', boxes', items')
    BY <1>1, <1>4, <1>7, <1>8, AppendWaits
<1>10. Born(boxes', liveList')
    <2>1. Born(boxes, liveList) /\ liveList' = liveList
        BY <1>1 DEF Inv
    <2>2. \A c \in Boxes : boxes'[c].made = "unborn" =>
            boxes[c].made = "unborn" /\ boxes'[c].lua = boxes[c].lua /\ boxes'[c].closed = boxes[c].closed
        BY <1>5
    <2> QED
        BY <2>1, <2>2, BornSame
<1>11. Counted(stack', boxes', request)
    <2>1. request \in {"running", "ending"}
        BY <1>2, HostRunsEarly
    <2>2. stack \in Seq(Frames) /\ Counted(stack, boxes, request)
        BY Shapes DEF Inv
    <2>3. Counted(stack', boxes, request)
        BY <1>1, <1>4, <2>1, <2>2, CountedAppend
    <2>4. \A c \in Boxes : boxes[c].wreck => boxes'[c].lua \in {"up", "abandoned"}
        BY <1>5, <2>2 DEF Counted
    <2> QED
        BY <1>5, <2>1, <2>3, <2>4, CountedSame
<1> QED
    BY <1>1, <1>5, <1>6, <1>9, <1>10, <1>11 DEF Inv

--------------------------------------------------------------------------------
(* Steps that return.                                                           *)

Alike(bx, new) ==
    \A c \in Boxes : /\ new[c].made = bx[c].made
                     /\ new[c].inLua = bx[c].inLua
                     /\ new[c].wreck = bx[c].wreck
                     /\ new[c].panicked = bx[c].panicked
                     /\ new[c].closed = bx[c].closed
                     /\ new[c].lua = bx[c].lua

LEMMA AlikeStep ==
    ASSUME Inv, request' = request, request # "over", liveList' = liveList,
           boxes' \in [Boxes -> BoxRecord], Alike(boxes, boxes'),
           items' \in [Items -> ItemRecord], Waits(stack', boxes', items'),
           Counted(stack', boxes, request)
    PROVE  Inv'
<1>1. Born(boxes', liveList')
    <2>1. Born(boxes, liveList) /\ liveList' = liveList
        BY DEF Inv
    <2>2. \A c \in Boxes : boxes'[c].made = "unborn" =>
            boxes[c].made = "unborn" /\ boxes'[c].lua = boxes[c].lua /\ boxes'[c].closed = boxes[c].closed
        BY DEF Alike
    <2> QED
        BY <2>1, <2>2, BornSame
<1>2. Counted(stack', boxes', request)
    <2>1. \A c \in Boxes : boxes[c].wreck => boxes'[c].lua \in {"up", "abandoned"}
        BY DEF Counted, Alike
    <2>2. request = "crashed" => \A n \in 1 .. Len(stack') :
            stack'[n].k \notin {"lua", "php"} /\ ~(stack'[n].k = "drain" /\ stack'[n].by = "call")
        BY DEF Counted
    <2>3. \A b \in Boxes : /\ boxes'[b].inLua = boxes[b].inLua
                           /\ boxes'[b].wreck = boxes[b].wreck
                           /\ boxes'[b].panicked = boxes[b].panicked
        BY DEF Alike
    <2> QED
        BY <2>1, <2>2, <2>3, CountedSame
<1> QED
    BY <1>1, <1>2 DEF Inv

LEMMA UnderAlike ==
    ASSUME Inv, NEW u, u = stack \/ (stack # <<>> /\ u = Below), NEW X,
           NEW bx, NEW it, Alike(boxes, bx), ItemsCalm(boxes, items, it, X),
           \A n \in 1 .. Len(u) : u[n].k = "drain" => u[n].left \cap X = {}
    PROVE  Waits(u, bx, it)
<1>1. BoxesCalm(boxes, bx)
    BY DEF BoxesCalm, Alike
<1>2. \A c \in Boxes : bx[c].lua = boxes[c].lua /\ bx[c].closed = boxes[c].closed
    BY DEF Alike
<1> QED
    BY <1>1, <1>2, CalmUnder

LEMMA SameAlike == Alike(boxes, boxes)
    BY DEF Alike

LEMMA SameCalm == ItemsCalm(boxes, items, items, {})
    BY DEF ItemsCalm

LEMMA CountedBelow ==
    ASSUME Inv, stack # <<>>, Here.k # "lua"
    PROVE  Counted(Below, boxes, request) /\ Below \in Seq(Frames)
<1>1. Counted(stack, boxes, request) /\ stack \in Seq(Frames)
    BY Shapes DEF Inv
<1>2. Last(stack).k # "lua"
    BY DEF Here
<1>3. Counted(Front(stack), boxes, request)
    BY <1>1, <1>2, CountedFront
<1> QED
    BY <1>3, Shapes DEF Below

LEMMA HostReturnsKeeps ==
    ASSUME Inv, request # "over", HostReturns PROVE Inv'
<1>1. stack # <<>> /\ stack' = Below /\ request' = request /\ liveList' = liveList
    BY DEF HostReturns, HereIs
<1>2. Here \in Frames /\ Fits(Here, boxes, items)
    BY <1>1, Shapes
<1>3. boxes \in [Boxes -> BoxRecord] /\ items \in [Items -> ItemRecord]
    BY DEF Inv
<1>4. CASE Here.k = "php"
    <2> DEFINE b == Here.b
               r == [boxes[b] EXCEPT !.inPhp = boxes[b].inPhp - 1]
    <2>1. b \in Boxes
        BY <1>2, <1>4 DEF Frames
    <2>2. boxes' = [boxes EXCEPT ![b] = r] /\ items' = items
        BY <1>4 DEF HostReturns, HereIs
    <2>3. boxes[b] \in BoxRecord
        BY <1>3, <2>1
    <2>4. /\ r \in BoxRecord /\ r.inLua = boxes[b].inLua /\ r.wreck = boxes[b].wreck
          /\ r.panicked = boxes[b].panicked /\ r.closed = boxes[b].closed
          /\ r.lua = boxes[b].lua /\ r.made = boxes[b].made
        BY <2>3 DEF BoxRecord
    <2> HIDE DEF r, b
    <2>5. boxes' \in [Boxes -> BoxRecord] /\ Alike(boxes, boxes')
        BY <1>3, <2>1, <2>2, <2>4 DEF Alike
    <2>6. Waits(Below, boxes', items')
        BY <1>1, <2>2, <2>5, SameCalm, UnderAlike
    <2>7. Counted(Below, boxes, request)
        BY <1>1, <1>4, CountedBelow
    <2>8. items' \in [Items -> ItemRecord]
        BY <1>3, <2>2
    <2> QED
        BY <1>1, <2>5, <2>6, <2>7, <2>8, AlikeStep
<1>5. CASE Here.k = "dtor"
    <2> DEFINE i == Here.i
               r == [items[i] EXCEPT !.at = "released", !.refs = Nothing]
    <2>1. i \in Items \cup {Nothing}
        BY <1>2, <1>5 DEF Frames
    <2>2. boxes' = boxes /\ items' = IF i = Nothing THEN items ELSE [items EXCEPT ![i] = r]
        BY <1>5 DEF HostReturns, HereIs
    <2>3. items' \in [Items -> ItemRecord] /\ ItemsCalm(boxes, items, items', {})
        <3>1. CASE i = Nothing
            BY <1>3, <2>2, <3>1, SameCalm
        <3>2. CASE i # Nothing
            <4>1. i \in Items /\ items[i] \in ItemRecord
                BY <1>3, <2>1, <3>2
            <4>2. items[i].at \in {"dying", "released"}
                BY <1>2, <1>5, <3>2 DEF Fits, DtorFits
            <4>3. r \in ItemRecord /\ r.at = "released" /\ r.of = items[i].of
                BY <4>1 DEF ItemRecord
            <4>4. items' = [items EXCEPT ![i] = r]
                BY <2>2, <3>2
            <4> HIDE DEF r, i
            <4>5. /\ items' \in [Items -> ItemRecord] /\ items'[i] = r
                  /\ \A j \in Items : j # i => items'[j] = items[j]
                BY <1>3, <4>1, <4>3, <4>4
            <4> QED
                BY <4>2, <4>3, <4>5 DEF ItemsCalm
        <3> QED
            BY <3>1, <3>2
    <2> HIDE DEF r, i
    <2>4. Alike(boxes, boxes') /\ boxes' \in [Boxes -> BoxRecord]
        BY <1>3, <2>2, SameAlike
    <2>5. Waits(Below, boxes', items')
        BY <1>1, <2>3, <2>4, UnderAlike
    <2>6. Counted(Below, boxes, request)
        BY <1>1, <1>5, CountedBelow
    <2> QED
        BY <1>1, <2>3, <2>4, <2>5, <2>6, AlikeStep
<1> QED
    BY <1>4, <1>5 DEF HostReturns, HereIs

LEMMA TopDrain ==
    ASSUME Inv, stack # <<>>, Here.k = "drain"
    PROVE  /\ Here \in [k : {"drain"}, b : Boxes, by : {"call", "close"}, left : SUBSET Items]
           /\ DrainFits(Here, boxes, items)
           /\ Here.by = "call" => \A n \in 1 .. Len(Below) : ~(Below[n].k = "lua" /\ Below[n].b = Here.b)
           /\ \A n \in 1 .. Len(Below) : Below[n].k = "drain" => Below[n].left \cap Here.left = {}
<1> DEFINE l == Len(stack)
<1>1. /\ l \in Nat /\ l > 0 /\ Here = stack[l] /\ Here \in Frames /\ Len(Below) = l - 1
      /\ \A n \in 1 .. l - 1 : Below[n] = stack[n]
      /\ Fits(Here, boxes, items)
    BY Shapes
<1>2. Placed(stack)
    BY DEF Inv, Waits
<1>3. Here \in [k : {"drain"}, b : Boxes, by : {"call", "close"}, left : SUBSET Items]
    BY <1>1 DEF Frames
<1>4. DrainFits(Here, boxes, items)
    BY <1>1 DEF Fits
<1>5. ASSUME Here.by = "call", NEW n \in 1 .. l - 1 PROVE ~(stack[n].k = "lua" /\ stack[n].b = Here.b)
    <2>1. l \in 1 .. l /\ n \in 1 .. l
        BY <1>1
    <2> QED
        BY <1>1, <1>2, <1>5, <2>1 DEF Placed
<1>6. ASSUME NEW n \in 1 .. l - 1, stack[n].k = "drain" PROVE stack[n].left \cap Here.left = {}
    <2>1. l \in 1 .. l /\ n \in 1 .. l /\ n # l
        BY <1>1
    <2> QED
        BY <1>1, <1>2, <1>6, <2>1 DEF Placed
<1> QED
    BY <1>1, <1>3, <1>4, <1>5, <1>6

LEMMA DrainDoneKeeps ==
    ASSUME Inv, request # "over", DrainDone PROVE Inv'
<1>1. /\ stack # <<>> /\ Here.k = "drain" /\ stack' = Below /\ request' = request
      /\ liveList' = liveList /\ boxes' = boxes /\ items' = items
    BY DEF DrainDone, HereIs
<1>2. Waits(stack', boxes', items')
    BY <1>1, Shapes
<1>3. Counted(stack', boxes, request)
    BY <1>1, CountedBelow
<1>4. boxes' \in [Boxes -> BoxRecord] /\ items' \in [Items -> ItemRecord] /\ Alike(boxes, boxes')
    BY <1>1, SameAlike DEF Inv
<1> QED
    BY <1>1, <1>2, <1>3, <1>4, AlikeStep

LEMMA DrainOneKeeps ==
    ASSUME Inv, request # "over", DrainOne PROVE Inv'
<1>1. /\ stack # <<>> /\ Here.k = "drain" /\ request' = request
      /\ liveList' = liveList /\ boxes' = boxes
    BY DEF DrainOne, HereIs
<1>2. PICK i \in Here.left :
        /\ items' = [items EXCEPT ![i].at = "dying"]
        /\ stack' = Append(Append(Below, [Here EXCEPT !.left = @ \ {i}]), Destructor(i))
    BY DEF DrainOne
<1> DEFINE f == [Here EXCEPT !.left = @ \ {i}]
           g == Destructor(i)
<1>3. /\ Here \in [k : {"drain"}, b : Boxes, by : {"call", "close"}, left : SUBSET Items]
      /\ DrainFits(Here, boxes, items)
      /\ Here.by = "call" => \A n \in 1 .. Len(Below) : ~(Below[n].k = "lua" /\ Below[n].b = Here.b)
      /\ \A n \in 1 .. Len(Below) : Below[n].k = "drain" => Below[n].left \cap Here.left = {}
    BY <1>1, TopDrain
<1>4. /\ f \in [k : {"drain"}, b : Boxes, by : {"call", "close"}, left : SUBSET Items]
      /\ f.k = "drain" /\ f.b = Here.b /\ f.by = Here.by /\ f.left = Here.left \ {i}
    BY <1>3
<1>5. f \in Frames
    BY <1>4 DEF Frames
<1>6. i \in Items
    BY <1>3
<1>7. g \in Frames /\ g.k = "dtor" /\ g.i = i
    BY <1>6 DEF Destructor, Frames
<1>8. stack' = Append(Append(Below, f), g)
    BY <1>2
<1> HIDE DEF f, g
<1>9. items[i].at = "detached" /\ items \in [Items -> ItemRecord]
    BY <1>3 DEF DrainFits, Inv
<1>10. /\ items' \in [Items -> ItemRecord] /\ items'[i].at = "dying"
       /\ \A j \in Items : j # i => items'[j] = items[j]
    BY <1>2, <1>6, <1>9 DEF ItemRecord
<1>11. ItemsCalm(boxes, items, items', {i})
    BY <1>6, <1>9, <1>10 DEF ItemsCalm
<1>12. Alike(boxes, boxes') /\ boxes' \in [Boxes -> BoxRecord]
    BY <1>1, SameAlike DEF Inv
<1>13. Waits(Below, boxes', items')
    <2>1. \A n \in 1 .. Len(Below) : Below[n].k = "drain" => Below[n].left \cap {i} = {}
        BY <1>3
    <2> QED
        BY <1>1, <1>11, <1>12, <2>1, UnderAlike
<1>14. Fits(f, boxes', items')
    BY <1>1, <1>3, <1>4, <1>10 DEF Fits, DrainFits
<1>15. Waits(Append(Below, f), boxes', items')
    <2>1. \A n \in 1 .. Len(Below) : Below[n].k = "drain" => Below[n].left \cap f.left = {}
        BY <1>3, <1>4
    <2> QED
        BY <1>3, <1>4, <1>5, <1>13, <1>14, <2>1, AppendWaits
<1>16. Fits(g, boxes', items')
    BY <1>7, <1>10 DEF Fits, DtorFits
<1>17. Waits(stack', boxes', items')
    BY <1>7, <1>8, <1>15, <1>16, AppendWaits
<1>18. Counted(stack', boxes, request)
    <2>1. Counted(Below, boxes, request) /\ Below \in Seq(Frames)
        BY <1>1, CountedBelow
    <2>2. request = "crashed" => ~(f.k = "drain" /\ f.by = "call")
        <3>1. Len(stack) \in 1 .. Len(stack) /\ Here = stack[Len(stack)]
            BY <1>1, Shapes
        <3> QED
            BY <1>1, <1>4, <3>1 DEF Inv, Counted
    <2>3. Counted(Append(Below, f), boxes, request)
        BY <1>4, <1>5, <2>1, <2>2, CountedAppend
    <2>4. Append(Below, f) \in Seq(Frames)
        BY <1>5, <2>1
    <2> QED
        BY <1>7, <1>8, <2>3, <2>4, CountedAppend
<1> QED
    BY <1>1, <1>10, <1>12, <1>17, <1>18, AlikeStep

LEMMA DetachedItems ==
    ASSUME Inv, NEW b \in Boxes
    PROVE  /\ Detached(b) \in [Items -> ItemRecord]
           /\ ItemsCalm(boxes, items, Detached(b), {})
           /\ \A i \in At("queue", b) : Detached(b)[i].at = "detached" /\ Detached(b)[i].of = b
           /\ \A i \in Items : ~(Detached(b)[i].at = "queue" /\ Detached(b)[i].of = b)
           /\ At("queue", b) \subseteq Items
<1> DEFINE it == Detached(b)
<1>1. items \in [Items -> ItemRecord]
    BY DEF Inv
<1>2. \A i \in Items : it[i] = IF i \in At("queue", b) THEN [items[i] EXCEPT !.at = "detached"] ELSE items[i]
    BY DEF Detached
<1>3. \A i \in At("queue", b) : i \in Items /\ items[i].at = "queue" /\ items[i].of = b
    BY DEF At
<1>4. ASSUME NEW i \in At("queue", b)
      PROVE  it[i] \in ItemRecord /\ it[i].at = "detached" /\ it[i].of = b
    <2>1. i \in Items /\ items[i] \in ItemRecord /\ items[i].of = b
        BY <1>1, <1>3
    <2>2. it[i] = [items[i] EXCEPT !.at = "detached"]
        BY <1>2, <2>1
    <2> HIDE DEF it
    <2> QED
        BY <2>1, <2>2 DEF ItemRecord
<1>5. \A i \in Items : i \notin At("queue", b) => it[i] = items[i] /\ it[i] \in ItemRecord
    BY <1>1, <1>2
<1>6. DOMAIN it = Items /\ it = [i \in Items |-> it[i]]
    BY DEF Detached
<1> HIDE DEF it
<1>7. it \in [Items -> ItemRecord]
    BY <1>3, <1>4, <1>5, <1>6
<1>8. ItemsCalm(boxes, items, it, {})
    BY <1>3, <1>4, <1>5 DEF ItemsCalm
<1>9. \A i \in Items : ~(it[i].at = "queue" /\ it[i].of = b)
    BY <1>3, <1>4, <1>5 DEF At
<1> QED
    BY <1>3, <1>4, <1>7, <1>8, <1>9 DEF it

LEMMA QueueIsNobodys ==
    ASSUME Inv, NEW u, u = stack \/ (stack # <<>> /\ u = Below), NEW b
    PROVE  \A n \in 1 .. Len(u) : u[n].k = "drain" => u[n].left \cap At("queue", b) = {}
<1>1. Waits(u, boxes, items)
    BY Shapes DEF Inv
<1>2. ASSUME NEW n \in 1 .. Len(u), u[n].k = "drain", NEW i \in u[n].left
      PROVE  i \notin At("queue", b)
    BY <1>1, <1>2 DEF Waits, Fits, DrainFits, At
<1> QED
    BY <1>2

LEMMA CallReturnsKeeps ==
    ASSUME Inv, request # "over", CallReturns PROVE Inv'
<1> DEFINE b == Here.b
           r == [boxes[b] EXCEPT !.inLua = boxes[b].inLua - 1]
<1>1. /\ stack # <<>> /\ Here.k = "lua" /\ HereIs("lua")
      /\ boxes' = [boxes EXCEPT ![b] = r]
      /\ request' = request /\ liveList' = liveList
      /\ \/ /\ boxes'[b].inLua = 0
            /\ items' = Detached(b)
            /\ stack' = Append(Below, DrainFrame(b, "call"))
         \/ items' = items /\ stack' = Below
    BY DEF CallReturns, HereIs
<1>2. /\ Here \in Frames /\ Len(stack) \in Nat /\ Len(stack) > 0 /\ Here = stack[Len(stack)]
      /\ Below \in Seq(Frames) /\ Len(Below) = Len(stack) - 1 /\ stack \in Seq(Frames)
      /\ \A n \in 1 .. Len(stack) - 1 : Below[n] = stack[n]
    BY <1>1, Shapes
<1>3. b \in Boxes
    BY <1>1, <1>2 DEF Frames
<1>4. request \in {"running", "ending"}
    BY <1>1, HostRunsEarly
<1>5. /\ Depth(stack, b) = Depth(Below, b) + 1 /\ Depth(Below, b) \in Nat
      /\ \A c \in Boxes : c # b => Depth(Below, c) = Depth(stack, c)
    <2>1. Len(stack) = Len(Below) + 1 /\ \A n \in 1 .. Len(Below) : stack[n] = Below[n]
        BY <1>2
    <2>2. Depth(stack, b) = Depth(Below, b) + 1
        BY <1>1, <1>2, <2>1, DepthPush
    <2>3. \A c \in Boxes : c # b => Depth(Below, c) = Depth(stack, c)
        BY <1>1, <1>2, <2>1, DepthPush
    <2> QED
        BY <1>2, <2>2, <2>3, DepthIsNat
<1>6. /\ boxes[b].inLua = Depth(Below, b) + 1
      /\ \A c \in Boxes : boxes[c].inLua = Depth(stack, c) /\ ~boxes[c].wreck /\ ~boxes[c].panicked
    BY <1>3, <1>4, <1>5 DEF Inv, Counted
<1>7. boxes \in [Boxes -> BoxRecord] /\ items \in [Items -> ItemRecord] /\ boxes[b] \in BoxRecord
    BY <1>3 DEF Inv
<1>8. /\ r \in BoxRecord /\ r.inLua = Depth(Below, b) /\ r.wreck = boxes[b].wreck
      /\ r.panicked = boxes[b].panicked /\ r.closed = boxes[b].closed
      /\ r.lua = boxes[b].lua /\ r.made = boxes[b].made
    <2>1. boxes[b].inLua - 1 = Depth(Below, b) /\ Depth(Below, b) \in Nat
        BY <1>5, <1>6
    <2> QED
        BY <1>7, <2>1 DEF BoxRecord
<1> HIDE DEF r, b
<1>9. /\ boxes' \in [Boxes -> BoxRecord]
      /\ \A c \in Boxes : /\ boxes'[c].made = boxes[c].made
                          /\ boxes'[c].wreck = boxes[c].wreck
                          /\ boxes'[c].panicked = boxes[c].panicked
                          /\ boxes'[c].closed = boxes[c].closed
                          /\ boxes'[c].lua = boxes[c].lua
                          /\ c # b => boxes'[c] = boxes[c]
      /\ boxes'[b].inLua = Depth(Below, b)
    BY <1>1, <1>3, <1>7, <1>8
<1>10. BoxesCalm(boxes, boxes')
    BY <1>9 DEF BoxesCalm
<1>11. Born(boxes', liveList')
    <2>1. Born(boxes, liveList) /\ liveList' = liveList
        BY <1>1 DEF Inv
    <2>2. \A c \in Boxes : boxes'[c].made = "unborn" =>
            boxes[c].made = "unborn" /\ boxes'[c].lua = boxes[c].lua /\ boxes'[c].closed = boxes[c].closed
        BY <1>9
    <2> QED
        BY <2>1, <2>2, BornSame
<1>12. Counted(Below, boxes', request)
    BY <1>4, <1>5, <1>6, <1>9 DEF Counted
<1>13. CASE boxes'[b].inLua = 0 /\ items' = Detached(b) /\ stack' = Append(Below, DrainFrame(b, "call"))
    <2> DEFINE f == DrainFrame(b, "call")
    <2>1. /\ items' \in [Items -> ItemRecord] /\ ItemsCalm(boxes, items, items', {})
          /\ \A i \in At("queue", b) : items'[i].at = "detached" /\ items'[i].of = b
          /\ At("queue", b) \subseteq Items
        BY <1>3, <1>13, DetachedItems
    <2>2. f \in Frames /\ f.k = "drain" /\ f.b = b /\ f.by = "call" /\ f.left = At("queue", b)
        BY <1>3, <2>1 DEF DrainFrame, Frames
    <2> HIDE DEF f
    <2>3. Waits(Below, boxes', items')
        BY <1>1, <1>9, <1>10, <2>1, CalmUnder
    <2>4. Fits(f, boxes', items')
        BY <2>1, <2>2 DEF Fits, DrainFits
    <2>5. \A n \in 1 .. Len(Below) : ~(Below[n].k = "lua" /\ Below[n].b = f.b)
        BY <1>2, <1>9, <1>13, <2>2, DepthIsNat
    <2>6. \A n \in 1 .. Len(Below) : Below[n].k = "drain" => Below[n].left \cap f.left = {}
        BY <1>1, <2>2, QueueIsNobodys
    <2>7. Waits(stack', boxes', items')
        BY <1>13, <2>2, <2>3, <2>4, <2>5, <2>6, AppendWaits DEF f
    <2>8. Counted(stack', boxes', request)
        BY <1>2, <1>4, <1>12, <1>13, <2>2, CountedAppend DEF f
    <2> QED
        BY <1>1, <1>9, <1>11, <2>1, <2>7, <2>8 DEF Inv
<1>14. CASE items' = items /\ stack' = Below
    <2>1. Waits(Below, boxes', items')
        BY <1>1, <1>9, <1>10, <1>14, SameCalm, CalmUnder
    <2> QED
        BY <1>1, <1>7, <1>9, <1>11, <1>12, <1>14, <2>1 DEF Inv
<1> QED
    BY <1>1, <1>13, <1>14

--------------------------------------------------------------------------------
(* Closing.                                                                     *)

CloseFrames == [k : {"close"}, b : Boxes, by : {"method", "free", "sweep"}, pass : 0 .. MaxPasses,
                stage : {"own", "lua", "abandon", "drain", "finish"}]

NoLua(s, b) == \A n \in 1 .. Len(s) : ~(s[n].k = "lua" /\ s[n].b = b)

(* A closed sandbox, and one whose interpreter is not up, has no call under way. *)
LEMMA ClosedIsIdle ==
    ASSUME Inv, NEW u, u = stack \/ (stack # <<>> /\ u = Below), NEW b \in Boxes,
           boxes[b].closed \/ boxes[b].lua # "up"
    PROVE  NoLua(u, b)
<1>1. Waits(u, boxes, items)
    BY Shapes DEF Inv
<1> QED
    BY <1>1 DEF NoLua, Waits, Fits, LuaFits

LEMMA BornKept ==
    ASSUME Born(boxes, liveList), liveList' = liveList,
           \A c \in Boxes : boxes'[c].made = "unborn" =>
               /\ boxes[c].made = "unborn" /\ boxes'[c].lua = boxes[c].lua
               /\ boxes'[c].closed = boxes[c].closed
    PROVE  Born(boxes', liveList')
<1>1. Born(boxes', liveList)
    BY BornSame
<1> QED
    BY <1>1

(* Setting `closed` where nothing of the sandbox runs.                          *)
LEMMA ClosingMarks ==
    ASSUME Inv, NEW u, u = stack \/ (stack # <<>> /\ u = Below), NEW b \in Boxes, NoLua(u, b),
           boxes[b].made # "unborn", boxes' = [boxes EXCEPT ![b].closed = TRUE],
           items' = items, liveList' = liveList
    PROVE  /\ boxes' \in [Boxes -> BoxRecord] /\ boxes'[b].closed
           /\ Born(boxes', liveList')
           /\ Waits(u, boxes', items')
           /\ \A t : Counted(t, boxes, request) => Counted(t, boxes', request)
<1> DEFINE r == [boxes[b] EXCEPT !.closed = TRUE]
<1>1. boxes \in [Boxes -> BoxRecord] /\ boxes[b] \in BoxRecord /\ boxes' = [boxes EXCEPT ![b] = r]
    BY DEF Inv
<1>2. /\ r \in BoxRecord /\ r.inLua = boxes[b].inLua /\ r.wreck = boxes[b].wreck
      /\ r.panicked = boxes[b].panicked /\ r.closed /\ r.lua = boxes[b].lua
      /\ r.made = boxes[b].made
    BY <1>1 DEF BoxRecord
<1> HIDE DEF r
<1>3. /\ boxes' \in [Boxes -> BoxRecord]
      /\ \A c \in Boxes : /\ boxes'[c].inLua = boxes[c].inLua
                          /\ boxes'[c].wreck = boxes[c].wreck
                          /\ boxes'[c].panicked = boxes[c].panicked
                          /\ boxes'[c].lua = boxes[c].lua
                          /\ boxes'[c].made = boxes[c].made
                          /\ c # b => boxes'[c] = boxes[c]
      /\ boxes'[b].closed
    BY <1>1, <1>2
<1>4. BoxesCalm(boxes, boxes')
    BY <1>3 DEF BoxesCalm
<1>5. Waits(u, boxes', items')
    <2>1. \A c \in Boxes : \/ boxes'[c].lua = boxes[c].lua /\ boxes'[c].closed = boxes[c].closed
                           \/ \A n \in 1 .. Len(u) : ~(u[n].k = "lua" /\ u[n].b = c)
        <3> SUFFICES ASSUME NEW c \in Boxes
                     PROVE  \/ boxes'[c].lua = boxes[c].lua /\ boxes'[c].closed = boxes[c].closed
                            \/ \A n \in 1 .. Len(u) : ~(u[n].k = "lua" /\ u[n].b = c)
            OBVIOUS
        <3>1. CASE c = b
            BY <3>1 DEF NoLua
        <3>2. CASE c # b
            BY <1>3, <3>2
        <3> QED
            BY <3>1, <3>2
    <2>2. ItemsCalm(boxes, items, items', {})
        BY SameCalm
    <2>3. \A n \in 1 .. Len(u) : u[n].k = "drain" => u[n].left \cap {} = {}
        OBVIOUS
    <2> QED
        BY <1>4, <2>1, <2>2, <2>3, CalmUnder
<1>6. Born(boxes', liveList')
    <2>1. Born(boxes, liveList)
        BY DEF Inv
    <2>2. \A c \in Boxes : boxes'[c].made = "unborn" =>
            boxes[c].made = "unborn" /\ boxes'[c].lua = boxes[c].lua /\ boxes'[c].closed = boxes[c].closed
        <3> SUFFICES ASSUME NEW c \in Boxes, boxes'[c].made = "unborn"
                     PROVE  /\ boxes[c].made = "unborn" /\ boxes'[c].lua = boxes[c].lua
                            /\ boxes'[c].closed = boxes[c].closed
            OBVIOUS
        <3>1. boxes'[c].made = boxes[c].made
            BY <1>3
        <3>2. c # b
            BY <3>1
        <3> QED
            BY <1>3, <3>1, <3>2
    <2> QED
        BY <2>1, <2>2, BornKept
<1>7. ASSUME NEW t, Counted(t, boxes, request) PROVE Counted(t, boxes', request)
    <2>1. \A c \in Boxes : boxes[c].wreck => boxes'[c].lua \in {"up", "abandoned"}
        BY <1>3, <1>7 DEF Counted
    <2>2. request = "crashed" => \A n \in 1 .. Len(t) :
            t[n].k \notin {"lua", "php"} /\ ~(t[n].k = "drain" /\ t[n].by = "call")
        BY <1>7 DEF Counted
    <2> QED
        BY <1>3, <1>7, <2>1, <2>2, CountedSame
<1> QED
    BY <1>3, <1>5, <1>6, <1>7

LEMMA NewCloseFrame ==
    ASSUME NEW b \in Boxes, NEW by \in {"method", "free", "sweep"}, NEW bx, NEW it, bx[b].closed
    PROVE  /\ CloseFrame(b, by) \in Frames /\ CloseFrame(b, by).k = "close"
           /\ Fits(CloseFrame(b, by), bx, it)
<1> DEFINE f == CloseFrame(b, by)
<1>1. MaxPasses \in Nat
    BY LifecycleAssumption
<1>2. f \in CloseFrames /\ f.k = "close" /\ f.b = b /\ f.stage = "own" /\ f.pass = 0
    BY <1>1 DEF CloseFrame, CloseFrames
<1> HIDE DEF f
<1>3. f \in Frames
    BY <1>2 DEF Frames, CloseFrames
<1>4. Fits(f, bx, it)
    BY <1>2 DEF Fits, CloseFits
<1> QED
    BY <1>2, <1>3, <1>4 DEF f

LEMMA CloseBeginsKeeps ==
    ASSUME Inv, request # "over", request' = request, items' = items, liveList' = liveList,
           NEW b \in Boxes, NEW by \in {"method", "free"}, CloseBegins(b, by),
           NoLua(stack, b), boxes[b].made # "unborn"
    PROVE  Inv'
<1> DEFINE f == CloseFrame(b, by)
<1>1. boxes' = [boxes EXCEPT ![b].closed = TRUE] /\ stack' = Append(stack, f)
    BY DEF CloseBegins
<1>2. /\ boxes' \in [Boxes -> BoxRecord] /\ boxes'[b].closed
      /\ Born(boxes', liveList')
      /\ Waits(stack, boxes', items')
      /\ Counted(stack, boxes, request) => Counted(stack, boxes', request)
    BY <1>1, ClosingMarks
<1>3. f \in Frames /\ f.k = "close" /\ Fits(f, boxes', items')
    BY <1>2, NewCloseFrame
<1> HIDE DEF f
<1>4. Waits(stack', boxes', items')
    BY <1>1, <1>2, <1>3, AppendWaits
<1>5. Counted(stack', boxes', request)
    <2>1. Counted(stack, boxes, request) /\ stack \in Seq(Frames)
        BY Shapes DEF Inv
    <2> QED
        BY <1>1, <1>2, <1>3, <2>1, CountedAppend
<1>6. items' \in [Items -> ItemRecord]
    BY DEF Inv
<1> QED
    BY <1>2, <1>4, <1>5, <1>6 DEF Inv

LEMMA CloseMethodKeeps ==
    ASSUME Inv, request # "over", NEW b \in Boxes, CloseMethod(b) PROVE Inv'
<1>1. /\ HostRuns /\ boxes[b].made = "made" /\ boxes[b].inLua = 0 /\ CloseBegins(b, "method")
      /\ items' = items /\ request' = request /\ liveList' = liveList
    BY DEF CloseMethod
<1>2. stack \in Seq(Frames) /\ request \in {"running", "ending"}
    BY <1>1, Shapes, HostRunsEarly
<1>3. Depth(stack, b) = 0
    BY <1>1, <1>2 DEF Inv, Counted
<1>4. NoLua(stack, b)
    BY <1>2, <1>3, DepthIsNat DEF NoLua
<1> QED
    BY <1>1, <1>4, CloseBeginsKeeps

LEMMA CollectCycleKeeps ==
    ASSUME Inv, request # "over", NEW b \in Boxes, CollectCycle(b) PROVE Inv'
<1>1. /\ boxes[b].made = "made" /\ ~OnStack("lua", b) /\ CloseBegins(b, "method")
      /\ items' = items /\ request' = request /\ liveList' = liveList
    BY DEF CollectCycle
<1>2. stack \in Seq(Frames)
    BY Shapes
<1>3. NoLua(stack, b)
    BY <1>1, <1>2 DEF NoLua, OnStack
<1> QED
    BY <1>1, <1>3, CloseBeginsKeeps

LEMMA FreeKeeps ==
    ASSUME Inv, request # "over", NEW b \in Boxes, Free(b) PROVE Inv'
<1>1. /\ boxes[b].made = "made" /\ ~Referenced(b)
      /\ items' = items /\ request' = request /\ liveList' = liveList
    BY DEF Free, Dying
<1>2. stack \in Seq(Frames)
    BY Shapes
<1>3. NoLua(stack, b)
    BY <1>1, <1>2 DEF NoLua, Referenced
<1>4. CASE CloseBegins(b, "free")
    BY <1>1, <1>3, <1>4, CloseBeginsKeeps
<1>5. CASE boxes' = [boxes EXCEPT ![b].made = "freed"] /\ stack' = stack
    <2>1. /\ boxes' \in [Boxes -> BoxRecord] /\ boxes'[b].made = "freed"
          /\ \A c \in Boxes : /\ boxes'[c].inLua = boxes[c].inLua
                              /\ boxes'[c].wreck = boxes[c].wreck
                              /\ boxes'[c].panicked = boxes[c].panicked
                              /\ boxes'[c].closed = boxes[c].closed
                              /\ boxes'[c].lua = boxes[c].lua
                              /\ c # b => boxes'[c] = boxes[c]
        BY <1>5 DEF Inv, BoxRecord
    <2>2. Born(boxes', liveList')
        <3>1. Born(boxes, liveList) /\ liveList' = liveList
            BY <1>1 DEF Inv
        <3>2. \A c \in Boxes : boxes'[c].made = "unborn" =>
                boxes[c].made = "unborn" /\ boxes'[c].lua = boxes[c].lua /\ boxes'[c].closed = boxes[c].closed
            BY <2>1
        <3> QED
            BY <3>1, <3>2, BornSame
    <2>3. items' \in [Items -> ItemRecord] /\ ItemsCalm(boxes, items, items', {})
        BY <1>1, SameCalm DEF Inv
    <2> QED
        BY <1>1, <1>5, <2>1, <2>2, <2>3, DataStep
<1> QED
    BY <1>4, <1>5 DEF Free

(* The frame of the close that is on top, and what it becomes.                  *)
LEMMA TopClose ==
    ASSUME Inv, NEW b, NEW name, Stage(b, name)
    PROVE  /\ stack # <<>> /\ Here \in CloseFrames /\ Here.k = "close" /\ Here.b = b
           /\ Here.stage = name /\ b \in Boxes /\ CloseFits(Here, boxes, items)
           /\ Below \in Seq(Frames) /\ Counted(Below, boxes, request)
           /\ NoLua(Below, b)
<1>1. stack # <<>> /\ Here.k = "close" /\ Here.b = b /\ Here.stage = name
    BY DEF Stage, HereIs
<1>2. Here \in Frames /\ Fits(Here, boxes, items) /\ Below \in Seq(Frames)
    BY <1>1, Shapes
<1>3. Here \in CloseFrames
    BY <1>1, <1>2 DEF Frames, CloseFrames
<1>4. b \in Boxes
    BY <1>1, <1>3 DEF CloseFrames
<1>5. CloseFits(Here, boxes, items)
    BY <1>1, <1>2 DEF Fits
<1>6. Counted(Below, boxes, request)
    BY <1>1, CountedBelow
<1>7. NoLua(Below, b)
    BY <1>1, <1>4, <1>5, ClosedIsIdle DEF CloseFits
<1> QED
    BY <1>1, <1>2, <1>3, <1>4, <1>5, <1>6, <1>7

LEMMA NextStage ==
    ASSUME NEW h \in CloseFrames, NEW name \in {"own", "lua", "abandon", "drain", "finish"}
    PROVE  /\ [h EXCEPT !.stage = name] \in Frames
           /\ [h EXCEPT !.stage = name].k = "close"
           /\ [h EXCEPT !.stage = name].b = h.b
           /\ [h EXCEPT !.stage = name].pass = h.pass
           /\ [h EXCEPT !.stage = name].stage = name
<1> DEFINE f == [h EXCEPT !.stage = name]
<1>1. f \in CloseFrames /\ f.k = "close" /\ f.b = h.b /\ f.pass = h.pass /\ f.stage = name
    BY DEF CloseFrames
<1> HIDE DEF f
<1>2. f \in Frames
    BY <1>1 DEF Frames, CloseFrames
<1> QED
    BY <1>1, <1>2 DEF f

LEMMA Turned ==
    ASSUME Inv, NEW b, NEW name, Stage(b, name), NEW bx, NEW it,
           Waits(Below, bx, it), Counted(Below, bx, request),
           NEW f \in CloseFrames, CloseFits(f, bx, it)
    PROVE  /\ Append(Below, f) \in Seq(Frames) /\ Len(Append(Below, f)) = Len(Below) + 1
           /\ Append(Below, f)[Len(Below) + 1] = f
           /\ \A n \in 1 .. Len(Below) : Append(Below, f)[n] = Below[n]
           /\ Waits(Append(Below, f), bx, it)
           /\ Counted(Append(Below, f), bx, request)
<1>1. Below \in Seq(Frames)
    BY TopClose
<1>2. f \in Frames /\ f.k = "close"
    BY DEF Frames, CloseFrames
<1>3. Fits(f, bx, it)
    BY <1>2 DEF Fits
<1>4. Waits(Append(Below, f), bx, it)
    BY <1>2, <1>3, AppendWaits
<1>5. Counted(Append(Below, f), bx, request)
    BY <1>1, <1>2, CountedAppend
<1> QED
    BY <1>1, <1>2, <1>4, <1>5, OneMore

LEMMA DtorOnTop ==
    ASSUME NEW s \in Seq(Frames), NEW bx, NEW it, NEW rq, Waits(s, bx, it), Counted(s, bx, rq),
           NEW i \in Items \cup {Nothing}, i # Nothing => it[i].at \in {"dying", "released"}
    PROVE  /\ Waits(Append(s, Destructor(i)), bx, it)
           /\ Counted(Append(s, Destructor(i)), bx, rq)
<1> DEFINE g == Destructor(i)
<1>1. g \in Frames /\ g.k = "dtor" /\ g.i = i
    BY DEF Destructor, Frames
<1> HIDE DEF g
<1>2. Fits(g, bx, it)
    BY <1>1 DEF Fits, DtorFits
<1>3. Waits(Append(s, g), bx, it)
    BY <1>1, <1>2, AppendWaits
<1>4. Counted(Append(s, g), bx, rq)
    BY <1>1, CountedAppend
<1> QED
    BY <1>3, <1>4 DEF g

LEMMA CloseDropsItsOwnKeeps ==
    ASSUME Inv, request # "over", NEW b \in Boxes, CloseDropsItsOwn(b) PROVE Inv'
<1> DEFINE f == [Here EXCEPT !.stage = "lua"]
<1>1. /\ Stage(b, "own") /\ boxes' = boxes /\ items' = items
      /\ request' = request /\ liveList' = liveList
      /\ \/ stack' = Append(Below, f)
         \/ stack' = Below \o <<f, Destructor(Nothing)>>
    BY DEF CloseDropsItsOwn, Onward
<1>2. /\ Here \in CloseFrames /\ Here.b = b /\ Here.stage = "own" /\ stack # <<>>
      /\ CloseFits(Here, boxes, items) /\ Counted(Below, boxes, request)
      /\ Below \in Seq(Frames)
    BY <1>1, TopClose
<1>3. f \in CloseFrames /\ f.b = b /\ f.pass = Here.pass /\ f.stage = "lua"
    BY <1>2 DEF CloseFrames
<1> HIDE DEF f
<1>4. CloseFits(f, boxes, items)
    BY <1>2, <1>3 DEF CloseFits
<1>5. Waits(Below, boxes, items)
    BY <1>2, Shapes
<1>6. /\ Append(Below, f) \in Seq(Frames)
      /\ Waits(Append(Below, f), boxes, items)
      /\ Counted(Append(Below, f), boxes, request)
    BY <1>1, <1>2, <1>3, <1>4, <1>5, Turned
<1>7. /\ Waits(Append(Append(Below, f), Destructor(Nothing)), boxes, items)
      /\ Counted(Append(Append(Below, f), Destructor(Nothing)), boxes, request)
    BY <1>6, DtorOnTop
<1>8. Waits(stack', boxes, items) /\ Counted(stack', boxes, request)
    <2>1. f \in Frames /\ Destructor(Nothing) \in Frames
        BY <1>3 DEF Destructor, Frames, CloseFrames
    <2> QED
        BY <1>1, <1>2, <1>6, <1>7, <2>1, TwoMore
<1>9. boxes' \in [Boxes -> BoxRecord] /\ items' \in [Items -> ItemRecord] /\ Alike(boxes, boxes')
    BY <1>1, SameAlike DEF Inv
<1> QED
    BY <1>1, <1>8, <1>9, AlikeStep

LEMMA CloseHasNothingKeeps ==
    ASSUME Inv, request # "over", NEW b \in Boxes, CloseHasNothing(b) PROVE Inv'
<1> DEFINE f == [Here EXCEPT !.stage = "drain"]
<1>1. /\ Stage(b, "lua") /\ boxes' = boxes /\ items' = items /\ boxes[b].lua = "none"
      /\ request' = request /\ liveList' = liveList /\ stack' = Append(Below, f)
    BY DEF CloseHasNothing, Onward
<1>2. /\ Here \in CloseFrames /\ Here.b = b /\ Here.stage = "lua" /\ stack # <<>>
      /\ CloseFits(Here, boxes, items) /\ Counted(Below, boxes, request)
    BY <1>1, TopClose
<1>3. f \in CloseFrames /\ f.b = b /\ f.pass = Here.pass /\ f.stage = "drain"
    BY <1>2 DEF CloseFrames
<1> HIDE DEF f
<1>4. CloseFits(f, boxes, items)
    BY <1>1, <1>2, <1>3 DEF CloseFits
<1>5. Waits(Below, boxes, items)
    BY <1>2, Shapes
<1>6. Waits(stack', boxes, items) /\ Counted(stack', boxes, request)
    BY <1>1, <1>2, <1>3, <1>4, <1>5, Turned
<1>7. boxes' \in [Boxes -> BoxRecord] /\ items' \in [Items -> ItemRecord] /\ Alike(boxes, boxes')
    BY <1>1, SameAlike DEF Inv
<1> QED
    BY <1>1, <1>6, <1>7, AlikeStep

(* Objects of Lua's that are moved together.                                    *)
Moved(S, place) ==
    [i \in Items |-> IF i \in S THEN [items[i] EXCEPT !.at = place] ELSE items[i]]

LEMMA MovedItems ==
    ASSUME Inv, NEW S \in SUBSET Items, NEW place \in {"queue", "leaked"}, NEW it,
           it = Moved(S, place),
           \A i \in S : items[i].at \in {"lua", "queue"},
           place = "queue" => \A i \in S : boxes[items[i].of].lua = "up"
    PROVE  /\ it \in [Items -> ItemRecord]
           /\ ItemsCalm(boxes, items, it, {})
           /\ \A i \in S : it[i].at = place /\ it[i].of = items[i].of
           /\ \A i \in Items : i \notin S => it[i] = items[i]
<1>1. items \in [Items -> ItemRecord]
    BY DEF Inv
<1>2. /\ \A i \in Items : it[i] = IF i \in S THEN [items[i] EXCEPT !.at = place] ELSE items[i]
      /\ it = [i \in Items |-> it[i]]
    BY DEF Moved
<1>3. ASSUME NEW i \in S
      PROVE  it[i] \in ItemRecord /\ it[i].at = place /\ it[i].of = items[i].of
    <2>1. i \in Items /\ items[i] \in ItemRecord
        BY <1>1
    <2>2. it[i] = [items[i] EXCEPT !.at = place]
        BY <1>2, <2>1
    <2> QED
        BY <2>1, <2>2 DEF ItemRecord
<1>4. \A i \in Items : i \notin S => it[i] = items[i] /\ it[i] \in ItemRecord
    BY <1>1, <1>2
<1>5. \A i \in Items : it[i] \in ItemRecord
    BY <1>3, <1>4
<1>6. it \in [Items -> ItemRecord]
    BY <1>2, <1>5
<1>7. ItemsCalm(boxes, items, it, {})
    <2> SUFFICES ASSUME NEW i \in Items
                 PROVE  /\ items[i].at = "detached" => it[i].at = "detached" /\ it[i].of = items[i].of
                        /\ items[i].at \in {"dying", "released"} => it[i].at \in {"dying", "released"}
                        /\ it[i].at = "queue" => \/ items[i].at = "queue" /\ it[i].of = items[i].of
                                                 \/ boxes[it[i].of].lua = "up"
        BY DEF ItemsCalm
    <2>1. CASE i \in S
        BY <1>3, <2>1
    <2>2. CASE i \notin S
        BY <1>4, <2>2
    <2> QED
        BY <2>1, <2>2
<1> QED
    BY <1>3, <1>4, <1>6, <1>7

(* The interpreter goes, one way or the other.                                  *)
LEMMA StateGoes ==
    ASSUME Inv, request # "over", NEW b \in Boxes, Stage(b, "lua"), boxes[b].lua = "up",
           NEW state \in {"destroyed", "abandoned"}, boxes' = [boxes EXCEPT ![b].lua = state],
           liveList' = liveList, boxes[b].wreck => state = "abandoned",
           ItemsCalm(boxes, items, items', {})
    PROVE  /\ boxes' \in [Boxes -> BoxRecord] /\ boxes'[b].closed /\ boxes'[b].lua = state
           /\ \A c \in Boxes : /\ boxes'[c].wreck = boxes[c].wreck
                               /\ c # b => boxes'[c] = boxes[c]
           /\ Born(boxes', liveList')
           /\ Waits(Below, boxes', items')
           /\ Counted(Below, boxes', request)
<1> DEFINE r == [boxes[b] EXCEPT !.lua = state]
<1>1. boxes \in [Boxes -> BoxRecord] /\ boxes[b] \in BoxRecord /\ boxes' = [boxes EXCEPT ![b] = r]
    BY DEF Inv
<1>2. /\ r \in BoxRecord /\ r.inLua = boxes[b].inLua /\ r.wreck = boxes[b].wreck
      /\ r.panicked = boxes[b].panicked /\ r.closed = boxes[b].closed /\ r.lua = state
      /\ r.made = boxes[b].made
    BY <1>1 DEF BoxRecord
<1> HIDE DEF r
<1>3. /\ boxes' \in [Boxes -> BoxRecord]
      /\ \A c \in Boxes : /\ boxes'[c].inLua = boxes[c].inLua
                          /\ boxes'[c].wreck = boxes[c].wreck
                          /\ boxes'[c].panicked = boxes[c].panicked
                          /\ boxes'[c].closed = boxes[c].closed
                          /\ boxes'[c].made = boxes[c].made
                          /\ c # b => boxes'[c] = boxes[c]
      /\ boxes'[b].lua = state
    BY <1>1, <1>2
<1>4. /\ Here \in CloseFrames /\ stack # <<>> /\ Counted(Below, boxes, request)
      /\ boxes[b].closed /\ NoLua(Below, b)
    BY TopClose DEF CloseFits
<1>5. BoxesCalm(boxes, boxes')
    <2> SUFFICES ASSUME NEW c \in Boxes, boxes[c].closed
                 PROVE  /\ boxes'[c].closed
                        /\ boxes[c].lua # "up" => boxes'[c].lua = boxes[c].lua
        BY DEF BoxesCalm
    <2>1. CASE c = b
        BY <1>3, <2>1
    <2>2. CASE c # b
        BY <1>3, <2>2
    <2> QED
        BY <2>1, <2>2
<1>6. Waits(Below, boxes', items')
    <2>1. \A c \in Boxes : \/ boxes'[c].lua = boxes[c].lua /\ boxes'[c].closed = boxes[c].closed
                           \/ \A n \in 1 .. Len(Below) : ~(Below[n].k = "lua" /\ Below[n].b = c)
        <3> SUFFICES ASSUME NEW c \in Boxes
                     PROVE  \/ boxes'[c].lua = boxes[c].lua /\ boxes'[c].closed = boxes[c].closed
                            \/ \A n \in 1 .. Len(Below) : ~(Below[n].k = "lua" /\ Below[n].b = c)
            OBVIOUS
        <3>1. CASE c = b
            BY <1>4, <3>1 DEF NoLua
        <3>2. CASE c # b
            BY <1>3, <3>2
        <3> QED
            BY <3>1, <3>2
    <2>2. \A n \in 1 .. Len(Below) : Below[n].k = "drain" => Below[n].left \cap {} = {}
        OBVIOUS
    <2> QED
        BY <1>4, <1>5, <2>1, <2>2, CalmUnder
<1>7. Born(boxes', liveList')
    <2>1. Born(boxes, liveList)
        BY DEF Inv
    <2>2. boxes[b].made # "unborn"
        BY <2>1 DEF Born
    <2>3. \A c \in Boxes : boxes'[c].made = "unborn" =>
            boxes[c].made = "unborn" /\ boxes'[c].lua = boxes[c].lua /\ boxes'[c].closed = boxes[c].closed
        <3> SUFFICES ASSUME NEW c \in Boxes, boxes'[c].made = "unborn"
                     PROVE  /\ boxes[c].made = "unborn" /\ boxes'[c].lua = boxes[c].lua
                            /\ boxes'[c].closed = boxes[c].closed
            OBVIOUS
        <3>1. boxes'[c].made = boxes[c].made
            BY <1>3
        <3>2. c # b
            BY <2>2, <3>1
        <3> QED
            BY <1>3, <3>1, <3>2
    <2> QED
        BY <2>1, <2>3, BornKept
<1>8. Counted(Below, boxes', request)
    <2>1. \A c \in Boxes : boxes[c].wreck => boxes'[c].lua \in {"up", "abandoned"}
        <3> SUFFICES ASSUME NEW c \in Boxes, boxes[c].wreck
                     PROVE  boxes'[c].lua \in {"up", "abandoned"}
            OBVIOUS
        <3>1. CASE c = b
            BY <1>3, <3>1
        <3>2. CASE c # b
            BY <1>3, <1>4, <3>2 DEF Counted
        <3> QED
            BY <3>1, <3>2
    <2>2. request = "crashed" => \A n \in 1 .. Len(Below) :
            Below[n].k \notin {"lua", "php"} /\ ~(Below[n].k = "drain" /\ Below[n].by = "call")
        BY <1>4 DEF Counted
    <2>3. \A c \in Boxes : /\ boxes'[c].inLua = boxes[c].inLua
                           /\ boxes'[c].wreck = boxes[c].wreck
                           /\ boxes'[c].panicked = boxes[c].panicked
        BY <1>3
    <2> QED
        BY <1>4, <2>1, <2>2, <2>3, CountedSame
<1> QED
    BY <1>3, <1>4, <1>6, <1>7, <1>8

LEMMA NothingWrecked ==
    ASSUME Inv, request # "over", NEW b \in Boxes, boxes[b].inLua = 0, ~boxes[b].panicked
    PROVE  ~boxes[b].wreck
<1>1. request \in {"running", "ending", "crashed", "over"}
    BY DEF Inv, Counted
<1>2. CASE request \in {"running", "ending"}
    BY <1>2 DEF Inv, Counted
<1>3. CASE request = "crashed"
    <2>1. ~(boxes[b].inLua > 0)
        BY SMT
    <2>2. boxes[b].wreck = (boxes[b].panicked \/ boxes[b].inLua > 0)
        BY <1>3 DEF Inv, Counted
    <2> QED
        BY <2>1, <2>2, Zenon
<1> QED
    BY <1>1, <1>2, <1>3

LEMMA CloseDestroysKeeps ==
    ASSUME Inv, request # "over", NEW b \in Boxes, CloseDestroys(b) PROVE Inv'
<1> DEFINE f == [Here EXCEPT !.stage = "drain"]
<1>1. /\ Stage(b, "lua") /\ boxes[b].lua = "up" /\ boxes[b].inLua = 0 /\ ~boxes[b].panicked
      /\ boxes' = [boxes EXCEPT ![b].lua = "destroyed"]
      /\ items' = [i \in Items |-> IF i \in At("lua", b)
                                   THEN [items[i] EXCEPT !.at = "queue"] ELSE items[i]]
      /\ request' = request /\ liveList' = liveList /\ stack' = Append(Below, f)
    BY DEF CloseDestroys, Onward
<1>2. /\ Here \in CloseFrames /\ Here.b = b /\ Here.stage = "lua"
      /\ CloseFits(Here, boxes, items)
    BY <1>1, TopClose
<1>3. f \in CloseFrames /\ f.b = b /\ f.pass = Here.pass /\ f.stage = "drain"
    BY <1>2 DEF CloseFrames
<1> HIDE DEF f
<1>4. At("lua", b) \in SUBSET Items /\ \A i \in At("lua", b) : items[i].at = "lua" /\ items[i].of = b
    BY DEF At
<1>5. items' \in [Items -> ItemRecord] /\ ItemsCalm(boxes, items, items', {})
    <2>1. items' = Moved(At("lua", b), "queue")
        BY <1>1 DEF Moved
    <2>2. \A i \in At("lua", b) : boxes[items[i].of].lua = "up"
        BY <1>1, <1>4
    <2> QED
        BY <1>4, <2>1, <2>2, MovedItems
<1>6. ~boxes[b].wreck
    BY <1>1, NothingWrecked
<1>7. /\ boxes' \in [Boxes -> BoxRecord] /\ boxes'[b].closed /\ boxes'[b].lua = "destroyed"
      /\ Born(boxes', liveList') /\ Waits(Below, boxes', items') /\ Counted(Below, boxes', request)
    BY <1>1, <1>5, <1>6, StateGoes
<1>8. CloseFits(f, boxes', items')
    BY <1>2, <1>3, <1>7 DEF CloseFits
<1>9. Waits(stack', boxes', items') /\ Counted(stack', boxes', request)
    BY <1>1, <1>3, <1>7, <1>8, Turned
<1> QED
    BY <1>1, <1>5, <1>7, <1>9 DEF Inv

LEMMA CloseAbandonsKeeps ==
    ASSUME Inv, request # "over", NEW b \in Boxes, CloseAbandons(b) PROVE Inv'
<1> DEFINE f == [Here EXCEPT !.stage = "abandon"]
           S == {i \in At("lua", b) : ~items[i].proxy}
<1>1. /\ Stage(b, "lua") /\ boxes[b].lua = "up"
      /\ boxes' = [boxes EXCEPT ![b].lua = "abandoned"]
      /\ items' = [i \in Items |-> IF i \in At("lua", b) /\ ~items[i].proxy
                                   THEN [items[i] EXCEPT !.at = "leaked"] ELSE items[i]]
      /\ request' = request /\ liveList' = liveList /\ stack' = Append(Below, f)
    BY DEF CloseAbandons, Onward
<1>2. /\ Here \in CloseFrames /\ Here.b = b /\ Here.stage = "lua"
      /\ CloseFits(Here, boxes, items)
    BY <1>1, TopClose
<1>3. f \in CloseFrames /\ f.b = b /\ f.pass = Here.pass /\ f.stage = "abandon"
    BY <1>2 DEF CloseFrames
<1>4. /\ S \in SUBSET Items /\ \A i \in S : items[i].at = "lua"
      /\ items' = Moved(S, "leaked")
    BY <1>1 DEF At, Moved
<1> HIDE DEF f, S
<1>5. items' \in [Items -> ItemRecord] /\ ItemsCalm(boxes, items, items', {})
    BY <1>4, MovedItems
<1>6. /\ boxes' \in [Boxes -> BoxRecord] /\ boxes'[b].closed /\ boxes'[b].lua = "abandoned"
      /\ Born(boxes', liveList') /\ Waits(Below, boxes', items') /\ Counted(Below, boxes', request)
    BY <1>1, <1>5, StateGoes
<1>7. CloseFits(f, boxes', items')
    BY <1>2, <1>3, <1>6 DEF CloseFits
<1>8. Waits(stack', boxes', items') /\ Counted(stack', boxes', request)
    BY <1>1, <1>3, <1>6, <1>7, Turned
<1> QED
    BY <1>1, <1>5, <1>6, <1>8 DEF Inv

(* An object a destructor now runs for.                                         *)
LEMMA ItemDies ==
    ASSUME Inv, NEW i \in Items, items[i].at = "lua", items' = [items EXCEPT ![i].at = "dying"]
    PROVE  /\ items' \in [Items -> ItemRecord] /\ items'[i].at = "dying"
           /\ ItemsCalm(boxes, items, items', {})
<1>1. items \in [Items -> ItemRecord]
    BY DEF Inv
<1>2. /\ items' \in [Items -> ItemRecord] /\ items'[i].at = "dying"
      /\ \A j \in Items : j # i => items'[j] = items[j]
    BY <1>1 DEF ItemRecord
<1>3. ItemsCalm(boxes, items, items', {})
    BY <1>2 DEF ItemsCalm
<1> QED
    BY <1>2, <1>3

LEMMA ReleaseAbandonedKeeps ==
    ASSUME Inv, request # "over", NEW b \in Boxes, ReleaseAbandoned(b) PROVE Inv'
<1> DEFINE f == [Here EXCEPT !.stage = "drain"]
<1>1. /\ Stage(b, "abandon") /\ boxes' = boxes /\ request' = request /\ liveList' = liveList
      /\ \/ stack' = Append(Below, f) /\ items' = items
         \/ \E i \in At("lua", b) : /\ items' = [items EXCEPT ![i].at = "dying"]
                                    /\ stack' = Append(stack, Destructor(i))
    BY DEF ReleaseAbandoned, Onward
<1>2. /\ Here \in CloseFrames /\ Here.b = b /\ Here.stage = "abandon" /\ stack # <<>>
      /\ CloseFits(Here, boxes, items) /\ Counted(Below, boxes, request)
    BY <1>1, TopClose
<1>3. f \in CloseFrames /\ f.b = b /\ f.pass = Here.pass /\ f.stage = "drain"
    BY <1>2 DEF CloseFrames
<1> HIDE DEF f
<1>4. boxes' \in [Boxes -> BoxRecord] /\ Alike(boxes, boxes') /\ items \in [Items -> ItemRecord]
    BY <1>1, SameAlike DEF Inv
<1>5. CASE stack' = Append(Below, f) /\ items' = items
    <2>1. Waits(Below, boxes, items)
        BY <1>2, Shapes
    <2>2. CloseFits(f, boxes, items)
        BY <1>2, <1>3 DEF CloseFits
    <2>3. Waits(stack', boxes, items) /\ Counted(stack', boxes, request)
        BY <1>1, <1>2, <1>3, <1>5, <2>1, <2>2, Turned
    <2> QED
        BY <1>1, <1>4, <1>5, <2>3, AlikeStep
<1>6. ASSUME NEW i \in At("lua", b), items' = [items EXCEPT ![i].at = "dying"],
             stack' = Append(stack, Destructor(i))
      PROVE  Inv'
    <2>1. i \in Items /\ items[i].at = "lua"
        BY DEF At
    <2>2. /\ items' \in [Items -> ItemRecord] /\ items'[i].at = "dying"
          /\ ItemsCalm(boxes, items, items', {})
        BY <1>6, <2>1, ItemDies
    <2>3. Waits(stack, boxes, items')
        <3>1. \A n \in 1 .. Len(stack) : stack[n].k = "drain" => stack[n].left \cap {} = {}
            OBVIOUS
        <3> QED
            BY <1>1, <1>4, <2>2, <3>1, UnderAlike
    <2>4. stack \in Seq(Frames) /\ Counted(stack, boxes, request)
        BY Shapes DEF Inv
    <2>5. Waits(stack', boxes, items') /\ Counted(stack', boxes, request)
        BY <1>6, <2>1, <2>2, <2>3, <2>4, DtorOnTop
    <2> QED
        BY <1>1, <1>4, <2>2, <2>5, AlikeStep
<1> QED
    BY <1>1, <1>5, <1>6

LEMMA CloseDrainsKeeps ==
    ASSUME Inv, request # "over", NEW b \in Boxes, CloseDrains(b) PROVE Inv'
<1> DEFINE f == [Here EXCEPT !.pass = @ + 1]
           e == [Here EXCEPT !.stage = "finish"]
           g == DrainFrame(b, "close")
<1>1. /\ Stage(b, "drain") /\ boxes' = boxes /\ request' = request /\ liveList' = liveList
      /\ \/ Here.pass < MaxPasses /\ items' = Detached(b) /\ stack' = Below \o <<f, g>>
         \/ /\ items' = [i \in Items |-> IF i \in At("queue", b)
                                         THEN [items[i] EXCEPT !.at = "leaked"] ELSE items[i]]
            /\ stack' = Append(Below, e)
    BY DEF CloseDrains, Onward
<1>2. /\ Here \in CloseFrames /\ Here.b = b /\ Here.stage = "drain" /\ stack # <<>>
      /\ CloseFits(Here, boxes, items) /\ Counted(Below, boxes, request) /\ Below \in Seq(Frames)
    BY <1>1, TopClose
<1>3. e \in CloseFrames /\ e.b = b /\ e.stage = "finish"
    BY <1>2 DEF CloseFrames
<1>4. Here.pass < MaxPasses =>
        f \in CloseFrames /\ f.b = b /\ f.stage = "drain" /\ f.pass = Here.pass + 1
    BY <1>2, LifecycleAssumption DEF CloseFrames
<1>5. At("queue", b) \in SUBSET Items
    BY DEF At
<1>6. g \in Frames /\ g.k = "drain" /\ g.b = b /\ g.by = "close" /\ g.left = At("queue", b)
    BY <1>5 DEF DrainFrame, Frames
<1> HIDE DEF e, f, g
<1>7. boxes' \in [Boxes -> BoxRecord] /\ Alike(boxes, boxes')
    BY <1>1, SameAlike DEF Inv
<1>8. boxes[b].closed /\ boxes[b].lua # "up"
    BY <1>2 DEF CloseFits
<1>9. CASE Here.pass < MaxPasses /\ items' = Detached(b) /\ stack' = Below \o <<f, g>>
    <2>1. /\ items' \in [Items -> ItemRecord] /\ ItemsCalm(boxes, items, items', {})
          /\ \A i \in At("queue", b) : items'[i].at = "detached" /\ items'[i].of = b
          /\ \A i \in Items : ~(items'[i].at = "queue" /\ items'[i].of = b)
        BY <1>9, DetachedItems
    <2>2. Waits(Below, boxes, items')
        <3>1. \A n \in 1 .. Len(Below) : Below[n].k = "drain" => Below[n].left \cap {} = {}
            OBVIOUS
        <3> QED
            BY <1>1, <1>2, <1>7, <2>1, <3>1, UnderAlike
    <2>3. CloseFits(f, boxes, items')
        BY <1>4, <1>8, <1>9, <2>1 DEF CloseFits
    <2> DEFINE t == Append(Below, f)
    <2>4. /\ t \in Seq(Frames) /\ Len(t) = Len(Below) + 1 /\ t[Len(Below) + 1] = f
          /\ \A n \in 1 .. Len(Below) : t[n] = Below[n]
          /\ Waits(t, boxes, items') /\ Counted(t, boxes, request)
        BY <1>1, <1>2, <1>4, <1>9, <2>2, <2>3, Turned
    <2>5. f.k = "close"
        BY <1>4, <1>9 DEF CloseFrames
    <2> HIDE DEF t
    <2>6. \A n \in 1 .. Len(t) : t[n].k = "drain" => t[n].left \cap g.left = {}
        <3>1. \A n \in 1 .. Len(t) : n \in 1 .. Len(Below) \/ n = Len(Below) + 1
            BY <1>2, <2>4
        <3>2. \A n \in 1 .. Len(Below) : Below[n].k = "drain" => Below[n].left \cap g.left = {}
            BY <1>2, <1>6, QueueIsNobodys
        <3> QED
            BY <2>4, <2>5, <3>1, <3>2
    <2>7. Fits(g, boxes, items')
        BY <1>6, <1>8, <2>1 DEF Fits, DrainFits
    <2>8. Waits(Append(t, g), boxes, items')
        BY <1>6, <2>4, <2>6, <2>7, AppendWaits
    <2>9. Counted(Append(t, g), boxes, request)
        BY <1>6, <2>4, CountedAppend
    <2>10. stack' = Append(t, g)
        <3>1. f \in Frames
            BY <1>4, <1>9 DEF Frames, CloseFrames
        <3> QED
            BY <1>2, <1>6, <1>9, <3>1, TwoMore DEF t
    <2> QED
        BY <1>1, <1>7, <2>1, <2>8, <2>9, <2>10, AlikeStep
<1>10. CASE /\ items' = [i \in Items |-> IF i \in At("queue", b)
                                         THEN [items[i] EXCEPT !.at = "leaked"] ELSE items[i]]
            /\ stack' = Append(Below, e)
    <2>1. \A i \in At("queue", b) : items[i].at = "queue"
        BY DEF At
    <2>2. items' \in [Items -> ItemRecord] /\ ItemsCalm(boxes, items, items', {})
        <3>1. items' = Moved(At("queue", b), "leaked")
            BY <1>10 DEF Moved
        <3> QED
            BY <1>5, <2>1, <3>1, MovedItems
    <2>3. Waits(Below, boxes, items')
        <3>1. \A n \in 1 .. Len(Below) : Below[n].k = "drain" => Below[n].left \cap {} = {}
            OBVIOUS
        <3> QED
            BY <1>1, <1>2, <1>7, <2>2, <3>1, UnderAlike
    <2>4. CloseFits(e, boxes, items')
        BY <1>3, <1>8 DEF CloseFits
    <2>5. Waits(stack', boxes, items') /\ Counted(stack', boxes, request)
        BY <1>1, <1>2, <1>3, <1>10, <2>3, <2>4, Turned
    <2> QED
        BY <1>1, <1>7, <2>2, <2>5, AlikeStep
<1> QED
    BY <1>1, <1>9, <1>10

LEMMA Joined ==
    ASSUME NEW S, NEW s \in Seq(S), NEW t \in Seq(S)
    PROVE  s \o t \in Seq(S) /\ Len(s \o t) = Len(s) + Len(t)
    OBVIOUS

LEMMA UnlinkedIsListed ==
    ASSUME liveList \in Seq(Boxes), NEW b \in Boxes
    PROVE  /\ Unlinked(b) \in Seq(Boxes)
           /\ \A n \in 1 .. Len(Unlinked(b)) : \E m \in 1 .. Len(liveList) : Unlinked(b)[n] = liveList[m]
<1>1. CASE b \notin Range(liveList)
    BY <1>1 DEF Unlinked
<1>2. CASE b \in Range(liveList)
    <2> DEFINE x == CHOOSE n \in DOMAIN liveList : liveList[n] = b
               l == Len(liveList)
               s == SubSeq(liveList, 1, x - 1)
               t == SubSeq(liveList, x + 1, l)
    <2>1. x \in 1 .. l /\ l \in Nat
        BY <1>2 DEF Range
    <2>2. Unlinked(b) = s \o t
        BY <1>2 DEF Unlinked, RemoveAt
    <2> HIDE DEF x
    <2>3. s \in Seq(Boxes) /\ Len(s) = x - 1 /\ \A n \in 1 .. x - 1 : s[n] = liveList[n]
        BY <2>1
    <2>4. t \in Seq(Boxes) /\ Len(t) = l - x /\ \A n \in 1 .. l - x : t[n] = liveList[n + x]
        BY <2>1
    <2> HIDE DEF s, t, l
    <2>5. s \o t \in Seq(Boxes) /\ Len(s \o t) = l - 1
        <3>1. s \o t \in Seq(Boxes) /\ Len(s \o t) = Len(s) + Len(t)
            BY <2>3, <2>4, Joined
        <3>2. (x - 1) + (l - x) = l - 1
            BY <2>1
        <3> QED
            BY <2>3, <2>4, <3>1, <3>2
    <2>6. ASSUME NEW n \in 1 .. l - 1 PROVE \E m \in 1 .. l : (s \o t)[n] = liveList[m]
        <3>1. CASE n \in 1 .. x - 1
            <4>1. (s \o t)[n] = liveList[n]
                BY <2>1, <2>3, <2>4, <3>1
            <4>2. n \in 1 .. l
                BY <2>1
            <4> QED
                BY <4>1, <4>2
        <3>2. CASE n \in x .. l - 1
            <4>1. (s \o t)[n] = t[n - (x - 1)]
                BY <2>1, <2>3, <2>4, <3>2
            <4>2. n - (x - 1) \in 1 .. l - x /\ n - (x - 1) + x = n + 1 /\ n + 1 \in 1 .. l
                BY <2>1, <3>2
            <4>3. t[n - (x - 1)] = liveList[n + 1]
                BY <2>4, <4>2
            <4> QED
                BY <4>1, <4>2, <4>3
        <3>3. n \in 1 .. x - 1 \/ n \in x .. l - 1
            BY <2>1
        <3> QED
            BY <3>1, <3>2, <3>3
    <2> QED
        BY <2>2, <2>5, <2>6 DEF l
<1> QED
    BY <1>1, <1>2

LEMMA CloseUnlinksKeeps ==
    ASSUME Inv, request # "over", NEW b \in Boxes, CloseUnlinks(b) PROVE Inv'
<1>1. /\ Stage(b, "finish") /\ liveList' = Unlinked(b) /\ stack' = Below
      /\ items' = items /\ request' = request
      /\ boxes' = [boxes EXCEPT ![b].made = "freed"] \/ boxes' = boxes
    BY DEF CloseUnlinks
<1>2. /\ stack # <<>> /\ Here.k = "close" /\ Counted(Below, boxes, request) /\ Below \in Seq(Frames)
    BY <1>1, TopClose
<1>3. /\ boxes' \in [Boxes -> BoxRecord]
      /\ \A c \in Boxes : /\ boxes'[c].inLua = boxes[c].inLua
                          /\ boxes'[c].wreck = boxes[c].wreck
                          /\ boxes'[c].panicked = boxes[c].panicked
                          /\ boxes'[c].closed = boxes[c].closed
                          /\ boxes'[c].lua = boxes[c].lua
                          /\ boxes'[c].made = boxes[c].made \/ boxes'[c].made = "freed"
    <2>1. boxes \in [Boxes -> BoxRecord]
        BY DEF Inv
    <2>2. CASE boxes' = boxes
        BY <2>1, <2>2
    <2>3. CASE boxes' = [boxes EXCEPT ![b].made = "freed"]
        BY <2>1, <2>3 DEF BoxRecord
    <2> QED
        BY <1>1, <2>2, <2>3
<1>4. Born(boxes', liveList')
    <2>1. /\ liveList \in Seq(Boxes) /\ \A n \in 1 .. Len(liveList) : boxes[liveList[n]].made # "unborn"
          /\ \A c \in Boxes : boxes[c].made = "unborn" => boxes[c].lua = "none" /\ ~boxes[c].closed
        BY DEF Inv, Born
    <2>2. /\ liveList' \in Seq(Boxes)
          /\ \A n \in 1 .. Len(liveList') : \E m \in 1 .. Len(liveList) : liveList'[n] = liveList[m]
        BY <1>1, <2>1, UnlinkedIsListed
    <2>3. ASSUME NEW n \in 1 .. Len(liveList') PROVE boxes'[liveList'[n]].made # "unborn"
        <3>1. PICK m \in 1 .. Len(liveList) : liveList'[n] = liveList[m]
            BY <2>2
        <3>2. liveList[m] \in Boxes /\ boxes[liveList[m]].made # "unborn"
            BY <2>1
        <3> QED
            BY <1>3, <3>1, <3>2
    <2>4. \A c \in Boxes : boxes'[c].made = "unborn" => boxes'[c].lua = "none" /\ ~boxes'[c].closed
        BY <1>3, <2>1
    <2> QED
        BY <2>2, <2>3, <2>4 DEF Born
<1>5. items' \in [Items -> ItemRecord] /\ ItemsCalm(boxes, items, items', {})
    BY <1>1, SameCalm DEF Inv
<1>6. Waits(stack', boxes', items')
    <2>1. BoxesCalm(boxes, boxes')
        BY <1>3 DEF BoxesCalm
    <2>2. \A n \in 1 .. Len(Below) : Below[n].k = "drain" => Below[n].left \cap {} = {}
        OBVIOUS
    <2>3. \A c \in Boxes : boxes'[c].lua = boxes[c].lua /\ boxes'[c].closed = boxes[c].closed
        BY <1>3
    <2>4. Waits(Below, boxes', items')
        BY <1>2, <1>5, <2>1, <2>2, <2>3, CalmUnder
    <2> QED
        BY <1>1, <2>4
<1>7. Counted(stack', boxes', request)
    <2>1. Counted(stack', boxes, request)
        BY <1>1, <1>2
    <2>2. \A c \in Boxes : boxes[c].wreck => boxes'[c].lua \in {"up", "abandoned"}
        BY <1>2, <1>3 DEF Counted
    <2>3. request = "crashed" => \A n \in 1 .. Len(stack') :
            stack'[n].k \notin {"lua", "php"} /\ ~(stack'[n].k = "drain" /\ stack'[n].by = "call")
        BY <2>1 DEF Counted
    <2>4. \A c \in Boxes : /\ boxes'[c].inLua = boxes[c].inLua
                           /\ boxes'[c].wreck = boxes[c].wreck
                           /\ boxes'[c].panicked = boxes[c].panicked
        BY <1>3
    <2> QED
        BY <2>1, <2>2, <2>3, <2>4, CountedSame
<1> QED
    BY <1>1, <1>3, <1>4, <1>5, <1>6, <1>7 DEF Inv

--------------------------------------------------------------------------------
(* The end of the request.                                                      *)

LEMMA EndRequestKeeps ==
    ASSUME Inv, EndRequest PROVE Inv'
<1> DEFINE f == SweepFrame(Nothing)
<1>1. /\ stack = <<>> /\ request = "running" /\ request' = "ending" /\ stack' = <<f>>
      /\ boxes' = boxes /\ items' = items /\ liveList' = liveList
    BY DEF EndRequest
<1>2. f \in Frames /\ f.k = "sweep"
    BY DEF SweepFrame, Frames
<1> HIDE DEF f
<1>3. stack' = Append(stack, f) /\ stack \in Seq(Frames) /\ Len(stack) = 0
    BY <1>1, <1>2, Shapes
<1>4. Fits(f, boxes, items)
    BY <1>2 DEF Fits
<1>5. Waits(stack, boxes, items) /\ Counted(stack, boxes, request)
    BY DEF Inv
<1>6. Waits(stack', boxes, items)
    BY <1>2, <1>3, <1>4, <1>5, AppendWaits
<1>7. Counted(stack', boxes, request)
    BY <1>1, <1>2, <1>3, <1>5, CountedAppend
<1>8. Counted(stack', boxes, request')
    BY <1>1, <1>7 DEF Counted
<1> QED
    BY <1>1, <1>6, <1>8 DEF Inv

(* The sweep is the bottom of the stack.                                        *)
LEMMA TopSweep ==
    ASSUME Inv, HereIs("sweep")
    PROVE  /\ stack # <<>> /\ Here.k = "sweep" /\ Here \in [k : {"sweep"}, b : Boxes \cup {Nothing}]
           /\ Len(stack) = 1 /\ stack[1] = Here
           /\ Below \in Seq(Frames) /\ Len(Below) = 0
           /\ Waits(Below, boxes, items) /\ Counted(Below, boxes, request)
<1>1. stack # <<>> /\ Here.k = "sweep"
    BY DEF HereIs
<1>2. /\ Here \in Frames /\ Len(stack) \in Nat /\ Len(stack) > 0 /\ Here = stack[Len(stack)]
      /\ Below \in Seq(Frames) /\ Len(Below) = Len(stack) - 1 /\ Waits(Below, boxes, items)
    BY <1>1, Shapes
<1>3. Here \in [k : {"sweep"}, b : Boxes \cup {Nothing}]
    BY <1>1, <1>2 DEF Frames
<1>4. Len(stack) = 1
    <2>1. Len(stack) \in 1 .. Len(stack)
        BY <1>2
    <2> QED
        BY <1>1, <1>2, <2>1 DEF Inv, Waits, Placed
<1>5. Counted(Below, boxes, request)
    BY <1>1, CountedBelow
<1> QED
    BY <1>1, <1>2, <1>3, <1>4, <1>5

LEMMA SweepOnTop ==
    ASSUME NEW s \in Seq(Frames), Len(s) = 0, NEW bx, NEW it, NEW rq,
           Waits(s, bx, it), Counted(s, bx, rq), NEW b \in Boxes \cup {Nothing}
    PROVE  /\ SweepFrame(b) \in Frames /\ Append(s, SweepFrame(b)) \in Seq(Frames)
           /\ Waits(Append(s, SweepFrame(b)), bx, it)
           /\ Counted(Append(s, SweepFrame(b)), bx, rq)
<1> DEFINE f == SweepFrame(b)
<1>1. f \in Frames /\ f.k = "sweep"
    BY DEF SweepFrame, Frames
<1> HIDE DEF f
<1>2. Fits(f, bx, it)
    BY <1>1 DEF Fits
<1>3. Waits(Append(s, f), bx, it)
    BY <1>1, <1>2, AppendWaits
<1>4. Counted(Append(s, f), bx, rq)
    BY <1>1, CountedAppend
<1>5. Append(s, f) \in Seq(Frames)
    BY <1>1
<1> QED
    BY <1>1, <1>3, <1>4, <1>5 DEF f

LEMMA SweepClosesHeadKeeps ==
    ASSUME Inv, request # "over", SweepClosesHead PROVE Inv'
<1> DEFINE b == Head(liveList)
           f == SweepFrame(b)
           g == CloseFrame(b, "sweep")
           t == Append(Below, f)
<1>1. /\ HereIs("sweep") /\ liveList # <<>>
      /\ items' = items /\ request' = request /\ liveList' = liveList
      /\ \/ stack' = t /\ boxes' = boxes
         \/ stack' = Below \o <<f, g>> /\ boxes' = [boxes EXCEPT ![b].closed = TRUE]
    BY DEF SweepClosesHead
<1>2. b \in Boxes /\ boxes[b].made # "unborn"
    <2>1. /\ liveList \in Seq(Boxes)
          /\ \A n \in 1 .. Len(liveList) : boxes[liveList[n]].made # "unborn"
        BY DEF Inv, Born
    <2>2. b = liveList[1] /\ 1 \in 1 .. Len(liveList)
        BY <1>1, <2>1
    <2> QED
        BY <2>1, <2>2
<1>3. /\ Below \in Seq(Frames) /\ Len(Below) = 0 /\ stack # <<>>
      /\ Waits(Below, boxes, items) /\ Counted(Below, boxes, request)
    BY <1>1, TopSweep
<1> HIDE DEF b
<1>4. CASE stack' = t /\ boxes' = boxes
    <2>1. Waits(stack', boxes, items) /\ Counted(stack', boxes, request)
        BY <1>2, <1>3, <1>4, SweepOnTop
    <2>2. boxes' \in [Boxes -> BoxRecord] /\ items' \in [Items -> ItemRecord] /\ Alike(boxes, boxes')
        BY <1>1, <1>4, SameAlike DEF Inv
    <2> QED
        BY <1>1, <1>4, <2>1, <2>2, AlikeStep
<1>5. CASE stack' = Below \o <<f, g>> /\ boxes' = [boxes EXCEPT ![b].closed = TRUE]
    <2>1. NoLua(Below, b)
        BY <1>3 DEF NoLua
    <2>2. /\ boxes' \in [Boxes -> BoxRecord] /\ boxes'[b].closed
          /\ Born(boxes', liveList') /\ Waits(Below, boxes', items')
          /\ Counted(Below, boxes, request) => Counted(Below, boxes', request)
        BY <1>1, <1>2, <1>3, <1>5, <2>1, ClosingMarks
    <2>3. /\ f \in Frames /\ t \in Seq(Frames)
          /\ Waits(t, boxes', items') /\ Counted(t, boxes', request)
        BY <1>2, <1>3, <2>2, SweepOnTop
    <2>4. g \in Frames /\ g.k = "close" /\ Fits(g, boxes', items')
        BY <1>2, <2>2, NewCloseFrame
    <2> HIDE DEF g
    <2>5. stack' = Append(t, g)
        BY <1>3, <1>5, <2>3, <2>4, TwoMore
    <2> HIDE DEF t
    <2>6. Waits(stack', boxes', items')
        BY <2>3, <2>4, <2>5, AppendWaits
    <2>7. Counted(stack', boxes', request)
        BY <2>3, <2>4, <2>5, CountedAppend
    <2>8. items' \in [Items -> ItemRecord]
        BY <1>1 DEF Inv
    <2> QED
        BY <1>1, <2>2, <2>6, <2>7, <2>8 DEF Inv
<1> QED
    BY <1>1, <1>4, <1>5

LEMMA SweepReleasesKeeps ==
    ASSUME Inv, request # "over", SweepReleases PROVE Inv'
<1>1. /\ HereIs("sweep") /\ stack' = Append(Below, SweepFrame(Nothing))
      /\ boxes' = boxes /\ items' = items /\ request' = request /\ liveList' = liveList
    BY DEF SweepReleases
<1>2. /\ Below \in Seq(Frames) /\ Len(Below) = 0
      /\ Waits(Below, boxes, items) /\ Counted(Below, boxes, request)
    BY <1>1, TopSweep
<1>3. Waits(stack', boxes, items) /\ Counted(stack', boxes, request)
    BY <1>1, <1>2, SweepOnTop
<1>4. boxes' \in [Boxes -> BoxRecord] /\ items' \in [Items -> ItemRecord] /\ Alike(boxes, boxes')
    BY <1>1, SameAlike DEF Inv
<1> QED
    BY <1>1, <1>3, <1>4, AlikeStep

LEMMA SweepOverKeeps ==
    ASSUME Inv, SweepOver PROVE Inv'
<1>1. /\ HereIs("sweep") /\ Dying = {} /\ Here.b = Nothing /\ stack' = <<>> /\ request' = "over"
      /\ boxes' = boxes /\ items' = items /\ handles' = handles /\ liveList' = liveList
    BY DEF SweepOver
<1>2. stack \in Seq(Frames) /\ Len(stack) = 1 /\ stack[1].k = "sweep" /\ stack[1].b = Nothing
    BY <1>1, TopSweep, Shapes DEF HereIs
<1>3. ASSUME NEW b \in Dying' PROVE FALSE
    <2>1. b \in Boxes /\ boxes[b].made = "made" /\ ~Referenced(b)'
        BY <1>1 DEF Dying
    <2>2. b # Nothing
        BY <2>1, LifecycleAssumption
    <2>3. ~Referenced(b)
        <3>1. DOMAIN stack = {1} /\ stack[1].b # b
            BY <1>2, <2>2
        <3> QED
            BY <1>1, <2>1, <3>1 DEF Referenced
    <2>4. ~\E n \in DOMAIN stack : stack[n].k = "close" /\ stack[n].b = b /\ stack[n].by = "free"
        BY <1>2
    <2> QED
        BY <1>1, <2>1, <2>3, <2>4 DEF Dying
<1>4. Dying' = {}
    BY <1>3
<1>5. Waits(stack', boxes', items')
    <2>1. /\ stack' \in Seq(Frames) /\ Len(stack') <= Len(stack)
          /\ \A n \in 1 .. Len(stack') : stack'[n] = stack[n]
        BY <1>1, <1>2
    <2>2. Waits(stack, boxes, items)
        BY DEF Inv
    <2>3. Waits(stack', boxes, items)
        BY <2>1, <2>2, PrefixWaits
    <2> QED
        BY <1>1, <2>3
<1>6. Counted(stack', boxes', request')
    BY <1>1 DEF Inv, Counted
<1>7. Born(boxes', liveList')
    BY <1>1 DEF Inv
<1> QED
    BY <1>1, <1>4, <1>5, <1>6, <1>7 DEF Inv

--------------------------------------------------------------------------------
(* Jumping out.                                                                 *)

LEMMA JumpOutKeeps ==
    ASSUME Inv, request = "running", liveList' = liveList, NEW extra \in SUBSET Boxes,
           \A b \in extra : Usable(b), JumpOut(extra)
    PROVE  Inv'
<1> DEFINE f == SweepFrame(Nothing)
           held(b) == \E n \in DOMAIN stack : stack[n].b = b
           r(b) == [boxes[b] EXCEPT !.var   = boxes[b].var \/ (held(b) /\ boxes[b].made = "made"),
                                    !.wreck = boxes[b].wreck \/ OnStack("lua", b) \/ b \in extra,
                                    !.panicked = boxes[b].panicked \/ b \in extra]
           it(i) == IF items[i].at = "detached" THEN [items[i] EXCEPT !.at = "leaked"] ELSE items[i]
<1>1. /\ boxes' = [b \in Boxes |-> r(b)]
      /\ items' = [i \in Items |-> it(i)]
      /\ request' = "crashed" /\ stack' = <<f>>
    BY DEF JumpOut
<1>2. boxes \in [Boxes -> BoxRecord] /\ items \in [Items -> ItemRecord] /\ stack \in Seq(Frames)
    BY Shapes DEF Inv
<1>3. \A b \in Boxes : /\ boxes[b].inLua = Depth(stack, b) /\ ~boxes[b].wreck /\ ~boxes[b].panicked
                       /\ boxes[b] \in BoxRecord
    BY <1>2 DEF Inv, Counted
<1>4. ASSUME NEW b \in Boxes
      PROVE  /\ r(b) \in BoxRecord /\ r(b).inLua = boxes[b].inLua /\ r(b).closed = boxes[b].closed
             /\ r(b).lua = boxes[b].lua /\ r(b).made = boxes[b].made
             /\ r(b).wreck = (OnStack("lua", b) \/ b \in extra)
             /\ r(b).panicked = (b \in extra)
    <2> DEFINE v == boxes[b].var \/ (held(b) /\ boxes[b].made = "made")
               w == boxes[b].wreck \/ OnStack("lua", b) \/ b \in extra
               p == boxes[b].panicked \/ b \in extra
    <2>1. v \in BOOLEAN /\ w \in BOOLEAN /\ p \in BOOLEAN
        OBVIOUS
    <2>2. w = (OnStack("lua", b) \/ b \in extra) /\ p = (b \in extra)
        BY <1>3
    <2>3. r(b) = [boxes[b] EXCEPT !.var = v, !.wreck = w, !.panicked = p]
        OBVIOUS
    <2> HIDE DEF r, v, w, p
    <2>4. boxes[b] \in BoxRecord
        BY <1>3
    <2> QED
        BY <2>1, <2>2, <2>3, <2>4 DEF BoxRecord
<1>5. ASSUME NEW i \in Items
      PROVE  /\ it(i) \in ItemRecord /\ it(i).of = items[i].of /\ it(i).at # "detached"
             /\ items[i].at # "detached" => it(i).at = items[i].at
    BY <1>2 DEF ItemRecord
<1> HIDE DEF r, it
<1>6. /\ boxes' \in [Boxes -> BoxRecord] /\ items' \in [Items -> ItemRecord]
      /\ \A b \in Boxes : boxes'[b] = r(b)
    BY <1>1, <1>4, <1>5
<1>7. Waits(stack', boxes', items')
    <2>1. f \in Frames /\ f.k = "sweep"
        BY DEF SweepFrame, Frames
    <2> HIDE DEF f
    <2>2. stack' \in Seq(Frames) /\ Len(stack') = 1 /\ stack'[1] = f
        BY <1>1, <2>1
    <2>3. \A n \in 1 .. Len(stack') : n = 1
        BY <2>2
    <2>4. Fits(f, boxes', items')
        BY <2>1 DEF Fits
    <2> QED
        BY <2>1, <2>2, <2>3, <2>4 DEF Waits, Placed
<1>8. Born(boxes', liveList')
    <2>1. Born(boxes, liveList)
        BY DEF Inv
    <2>2. \A b \in Boxes : boxes'[b].made = "unborn" =>
            boxes[b].made = "unborn" /\ boxes'[b].lua = boxes[b].lua /\ boxes'[b].closed = boxes[b].closed
        BY <1>4, <1>6
    <2> QED
        BY <2>1, <2>2, BornKept
<1>9. ASSUME NEW b \in Boxes
      PROVE  /\ boxes'[b].wreck = (boxes'[b].panicked \/ boxes'[b].inLua > 0)
             /\ boxes'[b].wreck => boxes'[b].lua \in {"up", "abandoned"}
    <2>1. OnStack("lua", b) <=> boxes'[b].inLua > 0
        <3>1. Depth(stack, b) \in Nat /\ (Depth(stack, b) = 0 <=> NoLua(stack, b))
            BY <1>2, DepthIsNat DEF NoLua
        <3>2. OnStack("lua", b) <=> ~NoLua(stack, b)
            BY <1>2 DEF OnStack, NoLua
        <3>3. boxes'[b].inLua = Depth(stack, b)
            BY <1>3, <1>4, <1>6
        <3> QED
            BY <3>1, <3>2, <3>3
    <2>2. boxes'[b].wreck = (OnStack("lua", b) \/ b \in extra) /\ boxes'[b].panicked = (b \in extra)
        BY <1>4, <1>6
    <2>3. boxes'[b].wreck = (boxes'[b].panicked \/ boxes'[b].inLua > 0)
        BY <2>1, <2>2
    <2>4. OnStack("lua", b) => boxes[b].lua = "up"
        BY <1>2, ClosedIsIdle DEF OnStack, NoLua
    <2>5. b \in extra => boxes[b].lua = "up"
        BY DEF Usable
    <2>6. boxes'[b].lua = boxes[b].lua
        BY <1>4, <1>6
    <2> QED
        BY <2>2, <2>3, <2>4, <2>5, <2>6
<1>10. Counted(stack', boxes', request')
    <2>1. \A n \in 1 .. Len(stack') : stack'[n].k = "sweep"
        BY <1>1 DEF SweepFrame
    <2> QED
        BY <1>1, <1>9, <2>1 DEF Counted
<1> QED
    BY <1>1, <1>6, <1>7, <1>8, <1>10 DEF Inv

--------------------------------------------------------------------------------

LEMMA InitInv ==
    ASSUME LifecycleInit PROVE Inv
<1>1. /\ boxes = [b \in Boxes |-> BlankBox] /\ liveList = <<>> /\ stack = <<>>
      /\ items = [i \in Items |-> BlankItem] /\ request = "running"
    BY DEF LifecycleInit
<1>2. boxes \in [Boxes -> BoxRecord] /\ items \in [Items -> ItemRecord]
    BY <1>1 DEF BlankBox, BoxRecord, BlankItem, ItemRecord
<1>3. stack \in Seq(Frames) /\ Len(stack) = 0 /\ \A n \in 1 .. Len(stack) : FALSE
    BY <1>1
<1>4. Waits(stack, boxes, items)
    BY <1>3 DEF Waits, Placed
<1>5. Born(boxes, liveList)
    BY <1>1 DEF Born, BlankBox
<1>6. Counted(stack, boxes, request)
    <2>1. \A b \in Boxes : Depth(stack, b) = 0
        BY <1>3, DepthIsNat
    <2>2. \A b \in Boxes : boxes[b].inLua = 0 /\ ~boxes[b].wreck /\ ~boxes[b].panicked
        BY <1>1 DEF BlankBox
    <2> QED
        BY <1>1, <2>1, <2>2 DEF Counted
<1> QED
    BY <1>1, <1>2, <1>4, <1>5, <1>6 DEF Inv

LEMMA StepInv ==
    ASSUME Inv, [LifecycleNext]_lifecycleVars PROVE Inv'
<1>1. CASE UNCHANGED lifecycleVars
    <2>1. Dying' = Dying
        BY <1>1 DEF lifecycleVars, Dying, Referenced
    <2> QED
        BY <1>1, <2>1 DEF lifecycleVars, Inv
<1>2. CASE LifecycleEngine
    <2>1. request # "over"
        BY <1>2, NotOver DEF LifecycleNext
    <2>2. CASE CallReturns
        BY <2>1, <2>2, CallReturnsKeeps
    <2>3. CASE HostReturns
        BY <2>1, <2>3, HostReturnsKeeps
    <2>4. CASE DrainOne
        BY <2>1, <2>4, DrainOneKeeps
    <2>5. CASE DrainDone
        BY <2>1, <2>5, DrainDoneKeeps
    <2>6. CASE SweepClosesHead
        BY <2>1, <2>6, SweepClosesHeadKeeps
    <2>7. CASE SweepReleases
        BY <2>1, <2>7, SweepReleasesKeeps
    <2>8. CASE SweepOver
        BY <2>8, SweepOverKeeps
    <2>9. CASE \E b \in Boxes : \/ Free(b) \/ CloseDropsItsOwn(b) \/ CloseDestroys(b)
                                \/ CloseHasNothing(b) \/ CloseAbandons(b) \/ ReleaseAbandoned(b)
                                \/ CloseDrains(b) \/ CloseUnlinks(b)
        BY <2>1, <2>9, FreeKeeps, CloseDropsItsOwnKeeps, CloseDestroysKeeps, CloseHasNothingKeeps,
            CloseAbandonsKeeps, ReleaseAbandonedKeeps, CloseDrainsKeeps, CloseUnlinksKeeps
    <2> QED
        BY <1>2, <2>2, <2>3, <2>4, <2>5, <2>6, <2>7, <2>8, <2>9 DEF LifecycleEngine
<1>3. CASE CallOut \/ EndRequest \/ Bailout
    <2>1. request # "over"
        BY <1>3, NotOver DEF LifecycleNext
    <2>2. CASE Bailout
        BY <2>2, JumpOutKeeps DEF Bailout
    <2> QED
        BY <1>3, <2>1, <2>2, CallOutKeeps, EndRequestKeeps
<1>4. CASE (\E i \in Items : Finalised(i)) \/ (\E h \in Handles : DropHandle(h))
    <2>1. request # "over"
        BY <1>4, NotOver DEF LifecycleNext
    <2> QED
        BY <1>4, <2>1, FinalisedKeeps, SmallDataKeeps
<1>5. ASSUME NEW b \in Boxes,
             \/ Construct(b) \/ ConstructFails(b) \/ DropVariable(b)
             \/ CallIn(b) \/ CloseMethod(b) \/ CollectCycle(b) \/ Panic(b) \/ MakeHandleFails(b)
             \/ \E i \in Items : HandOver(b, i)
             \/ \E h \in Handles : MakeHandle(b, h)
      PROVE  Inv'
    <2>1. request # "over"
        BY <1>5, NotOver DEF LifecycleNext
    <2>2. CASE Panic(b)
        <3>1. {b} \in SUBSET Boxes /\ \A c \in {b} : Usable(c)
            BY <2>2 DEF Panic
        <3> QED
            BY <2>2, <3>1, JumpOutKeeps DEF Panic
    <2>3. CASE Construct(b)
        BY <2>1, <2>3, ConstructKeeps
    <2>4. CASE ConstructFails(b) \/ DropVariable(b) \/ MakeHandleFails(b)
                \/ \E h \in Handles : MakeHandle(b, h)
        BY <2>1, <2>4, SmallDataKeeps
    <2>5. CASE CallIn(b)
        BY <2>1, <2>5, CallInKeeps
    <2>6. CASE CloseMethod(b)
        BY <2>1, <2>6, CloseMethodKeeps
    <2>7. CASE CollectCycle(b)
        BY <2>1, <2>7, CollectCycleKeeps
    <2>8. CASE \E i \in Items : HandOver(b, i)
        BY <2>1, <2>8, HandOverKeeps
    <2> QED
        BY <1>5, <2>2, <2>3, <2>4, <2>5, <2>6, <2>7, <2>8
<1> QED
    BY <1>1, <1>2, <1>3, <1>4, <1>5 DEF LifecycleNext

(* What each frame of the C stack relies on holds while it waits, whatever      *)
(* hosts, destructors and fatal errors do: a call in luaext_exec_pcall finds    *)
(* its interpreter, luaext_defer_drain finds what it detached, and              *)
(* luaext_sandbox_close finds what it closed still closed.                      *)
THEOREM InvHolds == LifecycleSpec => []Inv
    BY InitInv, StepInv, PTL DEF LifecycleSpec

--------------------------------------------------------------------------------
(* What Custody sees.                                                           *)

Interp == [b \in Boxes |-> boxes[b].lua]
Exec   == [b \in Boxes |-> Executing(b)]
Keeper == [i \in Items |-> items[i].of]
Kept   == [i \in Items |-> CustodyOf(items[i].at)]

LEMMA CustodyReads ==
    ASSUME NEW b, NEW i, NEW also
    PROVE  /\ Guardian!Build(b)    <=> /\ Interp[b] = "none" /\ Interp' = [Interp EXCEPT ![b] = "up"]
                                       /\ Exec' = Exec /\ Keeper' = Keeper /\ Kept' = Kept
           /\ Guardian!Take(i, b)  <=> /\ Interp[b] = "up" /\ Kept[i] = "host"
                                       /\ Keeper' = [Keeper EXCEPT ![i] = b]
                                       /\ Kept' = [Kept EXCEPT ![i] = "lua"]
                                       /\ Interp' = Interp /\ Exec' = Exec
           /\ Guardian!GiveBack(i) <=> /\ Kept[i] = "lua"
                                       /\ Exec[Keeper[i]] = "idle" \/ Interp[Keeper[i]] = "abandoned"
                                       /\ Kept' = [Kept EXCEPT ![i] = "returned"]
                                       /\ Interp' = Interp /\ Exec' = Exec /\ Keeper' = Keeper
           /\ Guardian!Enter(b)    <=> /\ Interp[b] = "up" /\ Exec[b] = "idle"
                                       /\ Exec' = [Exec EXCEPT ![b] = "busy"]
                                       /\ Interp' = Interp /\ Keeper' = Keeper /\ Kept' = Kept
           /\ Guardian!Leave(b)    <=> /\ Exec[b] = "busy" /\ Exec' = [Exec EXCEPT ![b] = "idle"]
                                       /\ Interp' = Interp /\ Keeper' = Keeper /\ Kept' = Kept
           /\ Guardian!Destroy(b)  <=> /\ Interp[b] = "up" /\ Exec[b] = "idle"
                                       /\ Interp' = [Interp EXCEPT ![b] = "destroyed"]
                                       /\ Exec' = Exec /\ Keeper' = Keeper /\ Kept' = Kept
           /\ Guardian!Abandon(b)  <=> /\ Interp[b] = "up" /\ Exec[b] = "wrecked"
                                       /\ Interp' = [Interp EXCEPT ![b] = "abandoned"]
                                       /\ \E gone \in SUBSET {j \in Items : Kept[j] = "lua" /\ Keeper[j] = b} :
                                            Kept' = [j \in Items |-> IF j \in gone THEN "lost" ELSE Kept[j]]
                                       /\ Exec' = Exec /\ Keeper' = Keeper
           /\ Guardian!Crash(also) <=> /\ Exec' = [c \in Boxes |-> IF Exec[c] = "busy" \/ c \in also
                                                                   THEN "wrecked" ELSE Exec[c]]
                                       /\ \E gone \in SUBSET {j \in Items : Kept[j] = "lua"} :
                                            Kept' = [j \in Items |-> IF j \in gone THEN "lost" ELSE Kept[j]]
                                       /\ Interp' = Interp /\ Keeper' = Keeper
           /\ (UNCHANGED Guardian!custodyVars) <=>
                    Interp' = Interp /\ Exec' = Exec /\ Keeper' = Keeper /\ Kept' = Kept
    BY DEF Interp, Exec, Keeper, Kept, Guardian!Build, Guardian!Take, Guardian!GiveBack,
        Guardian!Enter, Guardian!Leave, Guardian!Destroy, Guardian!Abandon, Guardian!Crash,
        Guardian!custodyVars

LEMMA AbandonReads ==
    ASSUME NEW b, Interp[b] = "up", Exec[b] = "wrecked",
           Interp' = [Interp EXCEPT ![b] = "abandoned"],
           \E gone \in SUBSET {j \in Items : Kept[j] = "lua" /\ Keeper[j] = b} :
                Kept' = [j \in Items |-> IF j \in gone THEN "lost" ELSE Kept[j]],
           Exec' = Exec, Keeper' = Keeper
    PROVE  Guardian!Abandon(b)
    BY CustodyReads

LEMMA CrashReads ==
    ASSUME NEW also,
           Exec' = [c \in Boxes |-> IF Exec[c] = "busy" \/ c \in also THEN "wrecked" ELSE Exec[c]],
           \E gone \in SUBSET {j \in Items : Kept[j] = "lua"} :
                Kept' = [j \in Items |-> IF j \in gone THEN "lost" ELSE Kept[j]],
           Interp' = Interp, Keeper' = Keeper
    PROVE  Guardian!Crash(also)
    BY CustodyReads

(* Whether it executes can be read off the counters, as the code does.          *)
Busy(bx, rq, b) ==
    IF bx[b].wreck THEN "wrecked"
    ELSE IF rq \in {"running", "ending"} /\ bx[b].inLua > 0 THEN "busy" ELSE "idle"

LEMMA FramesShowDepth ==
    ASSUME NEW s, NEW bx, NEW it, NEW rq, NEW b \in Boxes,
           Waits(s, bx, it), Counted(s, bx, rq), rq = "over" => s = <<>>
    PROVE  bx[b].wreck \/ (NoLua(s, b) <=> ~(rq \in {"running", "ending"} /\ bx[b].inLua > 0))
<1>1. s \in Seq(Frames) /\ rq \in {"running", "ending", "crashed", "over"}
    BY DEF Waits, Placed, Counted
<1>2. CASE rq \in {"running", "ending"}
    <2>1. bx[b].inLua = Depth(s, b)
        BY <1>2 DEF Counted
    <2>2. Depth(s, b) \in Nat /\ (Depth(s, b) = 0 <=> NoLua(s, b))
        BY <1>1, DepthIsNat DEF NoLua
    <2>3. bx[b].inLua > 0 <=> ~NoLua(s, b)
        BY <2>1, <2>2
    <2> QED
        BY <1>2, <2>3
<1>3. CASE rq = "crashed"
    <2>1. NoLua(s, b)
        BY <1>3 DEF NoLua, Counted
    <2> QED
        BY <1>3, <2>1
<1>4. CASE rq = "over"
    <2>1. NoLua(s, b)
        BY <1>1, <1>4 DEF NoLua
    <2> QED
        BY <1>4, <2>1
<1> QED
    BY <1>1, <1>2, <1>3, <1>4

LEMMA ExecNow ==
    ASSUME Inv, NEW b \in Boxes PROVE Executing(b) = Busy(boxes, request, b)
<1>1. stack \in Seq(Frames)
    BY Shapes
<1>2. OnStack("lua", b) <=> ~NoLua(stack, b)
    BY <1>1 DEF OnStack, NoLua
<1>3. boxes[b].wreck \/ (NoLua(stack, b) <=> ~(request \in {"running", "ending"} /\ boxes[b].inLua > 0))
    BY FramesShowDepth DEF Inv
<1> QED
    BY <1>2, <1>3 DEF Executing, Busy

LEMMA ExecNext ==
    ASSUME Inv', NEW b \in Boxes PROVE Executing(b)' = Busy(boxes', request', b)
<1>1. Waits(stack', boxes', items') /\ Counted(stack', boxes', request')
      /\ (request' = "over" => stack' = <<>>)
    BY DEF Inv
<1>2. stack' \in Seq(Frames)
    BY <1>1 DEF Waits, Placed
<1>3. OnStack("lua", b)' <=> ~NoLua(stack', b)
    BY <1>2 DEF OnStack, NoLua
<1>4. boxes'[b].wreck \/ (NoLua(stack', b) <=> ~(request' \in {"running", "ending"} /\ boxes'[b].inLua > 0))
    BY <1>1, FramesShowDepth
<1> QED
    BY <1>3, <1>4 DEF Executing, Busy

SameExec ==
    \A b \in Boxes : Busy(boxes', request', b) = Busy(boxes, request, b)
SameInterp == \A b \in Boxes : boxes'[b].lua = boxes[b].lua
SameItems ==
    \A i \in Items : items'[i].of = items[i].of /\ CustodyOf(items'[i].at) = CustodyOf(items[i].at)

LEMMA ExecIs ==
    ASSUME Inv, Inv'
    PROVE  /\ Exec  = [b \in Boxes |-> Busy(boxes, request, b)]
           /\ Exec' = [b \in Boxes |-> Busy(boxes', request', b)]
<1>1. \A b \in Boxes : Executing(b) = Busy(boxes, request, b)
    BY ExecNow
<1>2. \A b \in Boxes : Executing(b)' = Busy(boxes', request', b)
    BY ExecNext
<1> QED
    BY <1>1, <1>2 DEF Exec

LEMMA SeenSame ==
    /\ Inv /\ Inv' /\ SameExec => Exec' = Exec
    /\ SameInterp => Interp' = Interp
    /\ SameItems => Keeper' = Keeper /\ Kept' = Kept
<1>1. ASSUME Inv, Inv', SameExec PROVE Exec' = Exec
    BY <1>1, ExecIs DEF SameExec
<1>2. ASSUME SameInterp PROVE Interp' = Interp
    BY <1>2 DEF SameInterp, Interp
<1>3. ASSUME SameItems PROVE Keeper' = Keeper /\ Kept' = Kept
    BY <1>3 DEF SameItems, Keeper, Kept
<1> QED
    BY <1>1, <1>2, <1>3

LEMMA StepUnseen ==
    ASSUME Inv, Inv', SameExec, SameInterp, SameItems PROVE UNCHANGED Guardian!custodyVars
    BY SeenSame, CustodyReads

LEMMA CountersSame ==
    ASSUME request' = request,
           \A b \in Boxes : boxes'[b].wreck = boxes[b].wreck /\ boxes'[b].inLua = boxes[b].inLua
    PROVE  SameExec
    BY DEF SameExec, Busy

LEMMA ItemsUntouched == ASSUME items' = items PROVE SameItems
    BY DEF SameItems

--------------------------------------------------------------------------------
(* Each step is one of Custody's, or none.                                      *)

(* Steps that change nothing of a sandbox's but flags Custody does not see.     *)
SameBoxes ==
    \A b \in Boxes : /\ boxes'[b].lua = boxes[b].lua
                     /\ boxes'[b].wreck = boxes[b].wreck
                     /\ boxes'[b].inLua = boxes[b].inLua

LEMMA FlagsOnly ==
    ASSUME Inv, NEW b \in Boxes,
           \/ boxes' = boxes
           \/ boxes' = [boxes EXCEPT ![b].var = FALSE]
           \/ boxes' = [boxes EXCEPT ![b].closed = TRUE]
           \/ boxes' = [boxes EXCEPT ![b].made = "freed"]
           \/ boxes' = [boxes EXCEPT ![b].inPhp = @ + 1]
           \/ boxes' = [boxes EXCEPT ![b].inPhp = @ - 1]
    PROVE  SameBoxes
<1>1. boxes \in [Boxes -> BoxRecord]
    BY DEF Inv
<1>2. CASE boxes' = boxes
    BY <1>2 DEF SameBoxes
<1>3. CASE boxes' = [boxes EXCEPT ![b].var = FALSE]
    BY <1>1, <1>3 DEF SameBoxes, BoxRecord
<1>4. CASE boxes' = [boxes EXCEPT ![b].closed = TRUE]
    BY <1>1, <1>4 DEF SameBoxes, BoxRecord
<1>5. CASE boxes' = [boxes EXCEPT ![b].made = "freed"]
    BY <1>1, <1>5 DEF SameBoxes, BoxRecord
<1>6. CASE boxes' = [boxes EXCEPT ![b].inPhp = @ + 1]
    BY <1>1, <1>6 DEF SameBoxes, BoxRecord
<1>7. CASE boxes' = [boxes EXCEPT ![b].inPhp = @ - 1]
    BY <1>1, <1>7 DEF SameBoxes, BoxRecord
<1> QED
    BY <1>2, <1>3, <1>4, <1>5, <1>6, <1>7

LEMMA FlagsUnseen ==
    ASSUME Inv, Inv', SameBoxes, SameItems, request' = request
    PROVE  UNCHANGED Guardian!custodyVars
<1>1. SameExec
    BY CountersSame DEF SameBoxes
<1>2. SameInterp
    BY DEF SameBoxes, SameInterp
<1> QED
    BY <1>1, <1>2, StepUnseen

LEMMA QuietSteps ==
    ASSUME Inv, Inv',
           \/ \E b \in Boxes : \/ DropVariable(b) \/ MakeHandleFails(b) \/ CloseMethod(b)
                               \/ CollectCycle(b) \/ Free(b) \/ CloseDropsItsOwn(b)
                               \/ CloseHasNothing(b) \/ CloseUnlinks(b)
           \/ \E b \in Boxes, h \in Handles : MakeHandle(b, h)
           \/ \E h \in Handles : DropHandle(h)
           \/ DrainDone \/ SweepReleases
    PROVE  UNCHANGED Guardian!custodyVars
<1>1. items' = items /\ request' = request
    BY DEF DropVariable, MakeHandle, MakeHandleFails, DropHandle, CloseMethod, CollectCycle, Free,
        CloseDropsItsOwn, CloseHasNothing, CloseUnlinks, DrainDone, SweepReleases
<1>2. \/ boxes' = boxes
      \/ \E b \in Boxes : \/ boxes' = [boxes EXCEPT ![b].var = FALSE]
                          \/ boxes' = [boxes EXCEPT ![b].closed = TRUE]
                          \/ boxes' = [boxes EXCEPT ![b].made = "freed"]
    BY DEF DropVariable, MakeHandle, MakeHandleFails, DropHandle, CloseMethod, CollectCycle, Free,
        CloseBegins, CloseDropsItsOwn, CloseHasNothing, CloseUnlinks, DrainDone, SweepReleases
<1>3. SameBoxes
    <2>1. CASE boxes' = boxes
        BY <2>1 DEF SameBoxes
    <2> QED
        BY <1>2, <2>1, FlagsOnly
<1> QED
    BY <1>1, <1>3, ItemsUntouched, FlagsUnseen

LEMMA CallOutUnseen ==
    ASSUME Inv, Inv', CallOut PROVE UNCHANGED Guardian!custodyVars
<1> DEFINE b == Here.b
<1>1. /\ stack # <<>> /\ Here.k = "lua" /\ boxes' = [boxes EXCEPT ![b].inPhp = @ + 1]
      /\ items' = items /\ request' = request
    BY DEF CallOut, HereIs
<1>2. b \in Boxes
    BY <1>1, Shapes DEF Frames
<1> HIDE DEF b
<1> QED
    BY <1>1, <1>2, FlagsOnly, ItemsUntouched, FlagsUnseen

LEMMA SweepClosesHeadUnseen ==
    ASSUME Inv, Inv', SweepClosesHead PROVE UNCHANGED Guardian!custodyVars
<1> DEFINE b == Head(liveList)
<1>1. /\ liveList # <<>> /\ items' = items /\ request' = request
      /\ boxes' = boxes \/ boxes' = [boxes EXCEPT ![b].closed = TRUE]
    BY DEF SweepClosesHead
<1>2. b \in Boxes
    <2>1. liveList \in Seq(Boxes)
        BY DEF Inv, Born
    <2> QED
        BY <1>1, <2>1
<1> HIDE DEF b
<1> QED
    BY <1>1, <1>2, FlagsOnly, ItemsUntouched, FlagsUnseen

(* One object moves.                                                            *)
LEMMA OneMoves ==
    ASSUME Inv, NEW i \in Items, NEW place, items' = [items EXCEPT ![i].at = place]
    PROVE  /\ Keeper' = Keeper
           /\ Kept' = [Kept EXCEPT ![i] = CustodyOf(place)]
           /\ CustodyOf(items[i].at) = CustodyOf(place) => SameItems
<1>1. items \in [Items -> ItemRecord]
    BY DEF Inv
<1>2. /\ items'[i].at = place /\ items'[i].of = items[i].of
      /\ \A j \in Items : j # i => items'[j] = items[j]
    BY <1>1 DEF ItemRecord
<1>3. \A j \in Items : items'[j].of = items[j].of
    BY <1>2
<1>4. \A j \in Items : CustodyOf(items'[j].at) = IF j = i THEN CustodyOf(place) ELSE CustodyOf(items[j].at)
    BY <1>2
<1>5. Keeper' = Keeper
    BY <1>3 DEF Keeper
<1>6. Kept' = [Kept EXCEPT ![i] = CustodyOf(place)]
    BY <1>4 DEF Kept
<1> QED
    BY <1>3, <1>4, <1>5, <1>6 DEF SameItems

LEMMA FinalisedUnseen ==
    ASSUME Inv, Inv', NEW i \in Items, Finalised(i) PROVE UNCHANGED Guardian!custodyVars
<1>1. /\ items' = [items EXCEPT ![i].at = "queue"] /\ items[i].at = "lua"
      /\ boxes' = boxes /\ request' = request
    BY DEF Finalised, At
<1>2. SameItems
    <2>1. CustodyOf("lua") = CustodyOf("queue")
        BY DEF CustodyOf
    <2> QED
        BY <1>1, <2>1, OneMoves
<1>3. SameBoxes
    BY <1>1 DEF SameBoxes
<1> QED
    BY <1>1, <1>2, <1>3, FlagsUnseen

LEMMA HostReturnsUnseen ==
    ASSUME Inv, Inv', HostReturns PROVE UNCHANGED Guardian!custodyVars
<1>1. stack # <<>> /\ request' = request
    BY DEF HostReturns, HereIs
<1>2. Here \in Frames /\ Fits(Here, boxes, items)
    BY <1>1, Shapes
<1>3. CASE Here.k = "php"
    <2> DEFINE b == Here.b
    <2>1. boxes' = [boxes EXCEPT ![b].inPhp = @ - 1] /\ items' = items
        BY <1>3 DEF HostReturns, HereIs
    <2>2. b \in Boxes
        BY <1>2, <1>3 DEF Frames
    <2> HIDE DEF b
    <2> QED
        BY <1>1, <2>1, <2>2, FlagsOnly, ItemsUntouched, FlagsUnseen
<1>4. CASE Here.k = "dtor"
    <2> DEFINE i == Here.i
               r == [items[i] EXCEPT !.at = "released", !.refs = Nothing]
    <2>1. boxes' = boxes /\ items' = IF i = Nothing THEN items ELSE [items EXCEPT ![i] = r]
        BY <1>4 DEF HostReturns, HereIs
    <2>2. i \in Items \cup {Nothing}
        BY <1>2, <1>4 DEF Frames
    <2>3. SameItems
        <3>1. CASE i = Nothing
            BY <2>1, <3>1, ItemsUntouched
        <3>2. CASE i # Nothing
            <4>1. items \in [Items -> ItemRecord] /\ i \in Items /\ items[i] \in ItemRecord
                BY <2>2, <3>2 DEF Inv
            <4>2. items[i].at \in {"dying", "released"}
                BY <1>2, <1>4, <3>2 DEF Fits, DtorFits
            <4>3. r.at = "released" /\ r.of = items[i].of
                BY <4>1 DEF ItemRecord
            <4>4. items' = [items EXCEPT ![i] = r]
                BY <2>1, <3>2
            <4> HIDE DEF r, i
            <4>5. items'[i] = r /\ \A j \in Items : j # i => items'[j] = items[j]
                BY <4>1, <4>4
            <4>6. CustodyOf(items[i].at) = "returned" /\ CustodyOf("released") = "returned"
                BY <4>2 DEF CustodyOf
            <4> QED
                BY <4>3, <4>5, <4>6 DEF SameItems
        <3> QED
            BY <3>1, <3>2
    <2>4. SameBoxes
        BY <2>1 DEF SameBoxes
    <2> QED
        BY <1>1, <2>3, <2>4, FlagsUnseen
<1> QED
    BY <1>3, <1>4 DEF HostReturns, HereIs

LEMMA DetachedUnseen ==
    ASSUME Inv, NEW b \in Boxes, items' = Detached(b) PROVE SameItems
<1>1. items \in [Items -> ItemRecord]
    BY DEF Inv
<1> SUFFICES ASSUME NEW i \in Items
             PROVE  items'[i].of = items[i].of /\ CustodyOf(items'[i].at) = CustodyOf(items[i].at)
    BY DEF SameItems
<1>2. items'[i] = IF i \in At("queue", b) THEN [items[i] EXCEPT !.at = "detached"] ELSE items[i]
    BY DEF Detached
<1>3. CASE i \in At("queue", b)
    <2>1. items[i].at = "queue" /\ items[i] \in ItemRecord
        BY <1>1, <1>3 DEF At
    <2>2. items'[i].at = "detached" /\ items'[i].of = items[i].of
        BY <1>2, <1>3, <2>1 DEF ItemRecord
    <2> QED
        BY <2>1, <2>2 DEF CustodyOf
<1>4. CASE i \notin At("queue", b)
    BY <1>2, <1>4
<1> QED
    BY <1>3, <1>4

LEMMA CloseDrainsUnseen ==
    ASSUME Inv, Inv', NEW b \in Boxes, CloseDrains(b) PROVE UNCHANGED Guardian!custodyVars
<1>1. /\ Stage(b, "drain") /\ boxes' = boxes /\ request' = request
      /\ IF At("queue", b) # {} /\ Here.pass < MaxPasses
         THEN items' = Detached(b)
         ELSE items' = [i \in Items |-> IF i \in At("queue", b)
                                        THEN [items[i] EXCEPT !.at = "leaked"] ELSE items[i]]
    BY DEF CloseDrains
<1>2. /\ Here \in CloseFrames /\ Here.b = b /\ Here.stage = "drain" /\ CloseFits(Here, boxes, items)
    BY <1>1, TopClose
<1>3. SameBoxes
    BY <1>1 DEF SameBoxes
<1>4. CASE At("queue", b) # {} /\ Here.pass < MaxPasses
    BY <1>1, <1>3, <1>4, DetachedUnseen, FlagsUnseen
<1>5. CASE ~(At("queue", b) # {} /\ Here.pass < MaxPasses)
    <2>1. At("queue", b) = {}
        <3>1. Here.pass \in Nat /\ MaxPasses \in Nat \ {0}
            BY <1>2, LifecycleAssumption DEF CloseFrames
        <3>2. CASE Here.pass > 0
            BY <1>2, <3>2 DEF CloseFits, At
        <3>3. CASE Here.pass = 0
            BY <1>5, <3>1, <3>3
        <3> QED
            BY <3>1, <3>2, <3>3
    <2>2. items' = [i \in Items |-> items[i]]
        BY <1>1, <1>5, <2>1
    <2>3. SameItems
        BY <2>2 DEF SameItems
    <2> QED
        BY <1>1, <1>3, <2>3, FlagsUnseen
<1> QED
    BY <1>4, <1>5

LEMMA EndRequestUnseen ==
    ASSUME Inv, Inv', EndRequest PROVE UNCHANGED Guardian!custodyVars
<1>1. request = "running" /\ request' = "ending" /\ boxes' = boxes /\ items' = items
    BY DEF EndRequest
<1>2. SameExec
    BY <1>1 DEF SameExec, Busy
<1>3. SameInterp /\ SameItems
    BY <1>1 DEF SameInterp, SameItems
<1> QED
    BY <1>2, <1>3, StepUnseen

LEMMA SweepOverUnseen ==
    ASSUME Inv, Inv', SweepOver PROVE UNCHANGED Guardian!custodyVars
<1>1. HereIs("sweep") /\ request' = "over" /\ boxes' = boxes /\ items' = items
    BY DEF SweepOver
<1>2. Len(stack) = 1 /\ stack[1].k = "sweep" /\ stack \in Seq(Frames)
    BY <1>1, TopSweep, Shapes DEF HereIs
<1>3. ASSUME NEW b \in Boxes, request \in {"running", "ending"} PROVE ~(boxes[b].inLua > 0)
    <2>1. Depth(stack, b) = 0
        BY <1>2, DepthIsNat
    <2>2. boxes[b].inLua = 0
        BY <1>3, <2>1 DEF Inv, Counted
    <2> QED
        BY <2>2
<1>4. SameExec
    BY <1>1, <1>3 DEF SameExec, Busy
<1>5. SameInterp /\ SameItems
    BY <1>1 DEF SameInterp, SameItems
<1> QED
    BY <1>4, <1>5, StepUnseen

LEMMA ConstructSeen ==
    ASSUME Inv, Inv', NEW b \in Boxes, Construct(b) \/ ConstructFails(b)
    PROVE  Guardian!Build(b) \/ UNCHANGED Guardian!custodyVars
<1>1. \E lua \in {"none", "up"} :
        /\ boxes'[b].lua = lua /\ boxes'[b].wreck = boxes[b].wreck /\ boxes'[b].inLua = boxes[b].inLua
        /\ \A c \in Boxes : c # b => boxes'[c] = boxes[c]
    <2>1. boxes \in [Boxes -> BoxRecord] /\ boxes[b] \in BoxRecord
        BY DEF Inv
    <2>2. CASE Construct(b)
        <3> DEFINE r == [boxes[b] EXCEPT !.made = "made", !.lua = "up", !.var = TRUE]
        <3>1. boxes' = [boxes EXCEPT ![b] = r]
            BY <2>2 DEF Construct
        <3>2. r.lua = "up" /\ r.wreck = boxes[b].wreck /\ r.inLua = boxes[b].inLua
            BY <2>1 DEF BoxRecord
        <3> HIDE DEF r
        <3> QED
            BY <2>1, <3>1, <3>2
    <2>3. CASE ConstructFails(b)
        <3>1. PICK lua \in {"none", "up"} :
                boxes' = [boxes EXCEPT ![b] = [boxes[b] EXCEPT !.made = "made", !.lua = lua]]
            BY <2>3 DEF ConstructFails
        <3> DEFINE r == [boxes[b] EXCEPT !.made = "made", !.lua = lua]
        <3>2. r.lua = lua /\ r.wreck = boxes[b].wreck /\ r.inLua = boxes[b].inLua
            BY <2>1 DEF BoxRecord
        <3>3. boxes' = [boxes EXCEPT ![b] = r]
            BY <3>1
        <3> HIDE DEF r
        <3> QED
            BY <2>1, <3>2, <3>3
    <2> QED
        BY <2>2, <2>3
<1>2. PICK lua \in {"none", "up"} :
        /\ boxes'[b].lua = lua /\ boxes'[b].wreck = boxes[b].wreck /\ boxes'[b].inLua = boxes[b].inLua
        /\ \A c \in Boxes : c # b => boxes'[c] = boxes[c]
    BY <1>1
<1>3. items' = items /\ request' = request
    BY DEF Construct, ConstructFails
<1>4. boxes[b].lua = "none"
    BY DEF Construct, ConstructFails, Inv, Born
<1>5. \A c \in Boxes : boxes'[c].wreck = boxes[c].wreck /\ boxes'[c].inLua = boxes[c].inLua
    BY <1>2
<1>6. Exec' = Exec /\ Keeper' = Keeper /\ Kept' = Kept
    BY <1>3, <1>5, CountersSame, ItemsUntouched, SeenSame
<1>7. CASE lua = "none"
    <2>1. SameInterp
        BY <1>2, <1>4, <1>7 DEF SameInterp
    <2> QED
        BY <1>6, <2>1, SeenSame, CustodyReads
<1>8. CASE lua = "up"
    <2>1. Interp[b] = "none" /\ Interp' = [Interp EXCEPT ![b] = "up"]
        BY <1>2, <1>4, <1>8 DEF Interp
    <2> QED
        BY <1>6, <2>1, CustodyReads
<1> QED
    BY <1>7, <1>8

LEMMA HandOverSeen ==
    ASSUME Inv, Inv', NEW b \in Boxes, NEW i \in Items, HandOver(b, i) PROVE Guardian!Take(i, b)
<1>1. PICK refs \in Boxes \cup {Nothing}, proxy \in BOOLEAN :
        items' = [items EXCEPT ![i] = [at |-> "lua", of |-> b, refs |-> refs, proxy |-> proxy]]
    BY DEF HandOver
<1>2. /\ items \in [Items -> ItemRecord] /\ items[i].at = "host" /\ boxes[b].lua = "up"
      /\ boxes' = boxes /\ request' = request
    BY DEF HandOver, Inv, Usable
<1>3. /\ items'[i].at = "lua" /\ items'[i].of = b
      /\ \A j \in Items : j # i => items'[j] = items[j]
    BY <1>1, <1>2
<1>4. Keeper' = [Keeper EXCEPT ![i] = b]
    BY <1>3 DEF Keeper
<1>5. Kept[i] = "host" /\ Kept' = [Kept EXCEPT ![i] = "lua"]
    <2>1. CustodyOf("host") = "host" /\ CustodyOf("lua") = "lua"
        BY DEF CustodyOf
    <2> QED
        BY <1>2, <1>3, <2>1 DEF Kept
<1>6. Interp[b] = "up" /\ Interp' = Interp /\ Exec' = Exec
    <2>1. SameInterp /\ SameExec
        BY <1>2, CountersSame DEF SameInterp
    <2> QED
        BY <1>2, <2>1, SeenSame DEF Interp
<1> QED
    BY <1>4, <1>5, <1>6, CustodyReads

LEMMA CallInSeen ==
    ASSUME Inv, Inv', NEW b \in Boxes, CallIn(b)
    PROVE  Guardian!Enter(b) \/ UNCHANGED Guardian!custodyVars
<1>1. /\ boxes[b].lua = "up" /\ boxes' = [boxes EXCEPT ![b].inLua = boxes[b].inLua + 1]
      /\ items' = items /\ request' = request /\ HostRuns
    BY DEF CallIn, Usable
<1>2. boxes \in [Boxes -> BoxRecord] /\ boxes[b] \in BoxRecord /\ boxes[b].inLua \in Nat
    BY DEF Inv, BoxRecord
<1>3. request \in {"running", "ending"}
    BY <1>1, HostRunsEarly
<1>4. /\ boxes'[b].inLua = boxes[b].inLua + 1 /\ boxes'[b].lua = boxes[b].lua
      /\ boxes'[b].wreck = boxes[b].wreck
      /\ \A c \in Boxes : c # b => boxes'[c] = boxes[c]
    BY <1>1, <1>2 DEF BoxRecord
<1>5. ~boxes[b].wreck
    BY <1>3 DEF Inv, Counted
<1>6. \A c \in Boxes : c # b => Busy(boxes', request', c) = Busy(boxes, request, c)
    BY <1>1, <1>4 DEF Busy
<1>7. Busy(boxes', request', b) = "busy"
    <2>1. boxes'[b].inLua > 0
        BY <1>2, <1>4
    <2> QED
        BY <1>1, <1>3, <1>4, <1>5, <2>1 DEF Busy
<1>8. Interp' = Interp /\ Keeper' = Keeper /\ Kept' = Kept
    <2>1. SameInterp
        BY <1>4 DEF SameInterp
    <2> QED
        BY <1>1, <2>1, ItemsUntouched, SeenSame
<1>9. CASE Busy(boxes, request, b) = "busy"
    <2>1. SameExec
        BY <1>6, <1>7, <1>9 DEF SameExec
    <2> QED
        BY <1>8, <2>1, SeenSame, CustodyReads
<1>10. CASE Busy(boxes, request, b) = "idle"
    <2>1. Exec[b] = "idle" /\ Exec' = [Exec EXCEPT ![b] = "busy"]
        BY <1>6, <1>7, <1>10, ExecIs
    <2>2. Interp[b] = "up"
        BY <1>1 DEF Interp
    <2> QED
        BY <1>8, <2>1, <2>2, CustodyReads
<1> QED
    BY <1>5, <1>9, <1>10 DEF Busy

LEMMA CallReturnsSeen ==
    ASSUME Inv, Inv', CallReturns
    PROVE  \/ \E b \in Boxes : Guardian!Leave(b)
           \/ UNCHANGED Guardian!custodyVars
<1> DEFINE b == Here.b
<1>1. /\ stack # <<>> /\ Here.k = "lua" /\ HereIs("lua")
      /\ boxes' = [boxes EXCEPT ![b].inLua = @ - 1]
      /\ items' = Detached(b) \/ items' = items
      /\ request' = request
    BY DEF CallReturns, HereIs
<1>2. Here \in Frames /\ Len(stack) \in Nat /\ Len(stack) > 0 /\ Here = stack[Len(stack)]
    BY <1>1, Shapes
<1>3. b \in Boxes
    BY <1>1, <1>2 DEF Frames
<1>4. request \in {"running", "ending"}
    BY <1>1, HostRunsEarly
<1>5. ~NoLua(stack, b)
    <2>1. Len(stack) \in 1 .. Len(stack)
        BY <1>2
    <2> QED
        BY <1>1, <1>2, <2>1 DEF NoLua
<1> HIDE DEF b
<1>6. ~boxes[b].wreck /\ boxes[b].inLua > 0
    <2>1. ~boxes[b].wreck
        BY <1>3, <1>4 DEF Inv, Counted
    <2>2. boxes[b].wreck \/ (NoLua(stack, b) <=> ~(request \in {"running", "ending"} /\ boxes[b].inLua > 0))
        BY <1>3, FramesShowDepth DEF Inv
    <2> QED
        BY <1>4, <1>5, <2>1, <2>2
<1>7. boxes \in [Boxes -> BoxRecord] /\ boxes[b] \in BoxRecord
    BY <1>3 DEF Inv
<1>8. /\ boxes'[b].lua = boxes[b].lua /\ boxes'[b].wreck = boxes[b].wreck
      /\ \A c \in Boxes : c # b => boxes'[c] = boxes[c]
    BY <1>1, <1>3, <1>7 DEF BoxRecord
<1>9. \A c \in Boxes : c # b => Busy(boxes', request', c) = Busy(boxes, request, c)
    BY <1>1, <1>8 DEF Busy
<1>10. Busy(boxes, request, b) = "busy"
    BY <1>4, <1>6 DEF Busy
<1>11. Interp' = Interp /\ Keeper' = Keeper /\ Kept' = Kept
    <2>1. SameInterp
        BY <1>8 DEF SameInterp
    <2>2. SameItems
        BY <1>1, <1>3, DetachedUnseen, ItemsUntouched
    <2> QED
        BY <2>1, <2>2, SeenSame
<1>12. CASE Busy(boxes', request', b) = "busy"
    <2>1. SameExec
        BY <1>9, <1>10, <1>12 DEF SameExec
    <2> QED
        BY <1>11, <2>1, SeenSame, CustodyReads
<1>13. CASE Busy(boxes', request', b) = "idle"
    <2>1. Exec[b] = "busy" /\ Exec' = [Exec EXCEPT ![b] = "idle"]
        BY <1>3, <1>9, <1>10, <1>13, ExecIs
    <2>2. Guardian!Leave(b)
        BY <1>11, <2>1, CustodyReads
    <2> QED
        BY <1>3, <2>2
<1>14. ~boxes'[b].wreck
    BY <1>6, <1>8
<1> QED
    BY <1>12, <1>13, <1>14 DEF Busy

LEMMA GiveBackReads ==
    ASSUME NEW i, Kept[i] = "lua", Exec[Keeper[i]] = "idle" \/ Interp[Keeper[i]] = "abandoned",
           Kept' = [Kept EXCEPT ![i] = "returned"],
           Interp' = Interp, Exec' = Exec, Keeper' = Keeper
    PROVE  Guardian!GiveBack(i)
    BY CustodyReads

(* A destructor may run: nothing executes in the interpreter that had the       *)
(* object, or it was abandoned.                                                 *)
LEMMA GivingBack ==
    ASSUME Inv, Inv', boxes' = boxes, request' = request, NEW i \in Items, NEW b \in Boxes,
           items[i].at \in {"lua", "detached"}, items[i].of = b,
           Busy(boxes, request, b) = "idle" \/ boxes[b].lua = "abandoned",
           items' = [items EXCEPT ![i].at = "dying"]
    PROVE  Guardian!GiveBack(i)
<1>1. CustodyOf(items[i].at) = "lua" /\ CustodyOf("dying") = "returned"
    BY DEF CustodyOf
<1>2. Kept[i] = "lua" /\ Keeper[i] = b
    BY <1>1 DEF Kept, Keeper
<1>3. Keeper' = Keeper /\ Kept' = [Kept EXCEPT ![i] = "returned"]
    BY <1>1, OneMoves
<1>4. Exec[b] = "idle" \/ Interp[b] = "abandoned"
    BY ExecIs DEF Interp
<1>5. SameInterp /\ SameExec
    BY DEF SameInterp, SameExec
<1>6. Interp' = Interp /\ Exec' = Exec
    BY <1>5, SeenSame
<1>7. Exec[Keeper[i]] = "idle" \/ Interp[Keeper[i]] = "abandoned"
    BY <1>2, <1>4
<1> QED
    BY <1>2, <1>3, <1>6, <1>7, GiveBackReads

(* Where nothing runs, or all of it was jumped over.                            *)
LEMMA IdleOrWreck ==
    ASSUME Inv, NEW b \in Boxes, NoLua(stack, b), ~boxes[b].wreck
    PROVE  Busy(boxes, request, b) = "idle"
<1>1. boxes[b].wreck \/ (NoLua(stack, b) <=> ~(request \in {"running", "ending"} /\ boxes[b].inLua > 0))
    BY FramesShowDepth DEF Inv
<1> QED
    BY <1>1 DEF Busy

LEMMA DrainOneSeen ==
    ASSUME Inv, Inv', DrainOne PROVE \E i \in Items : Guardian!GiveBack(i)
<1>1. /\ stack # <<>> /\ Here.k = "drain" /\ request' = request /\ boxes' = boxes
    BY DEF DrainOne, HereIs
<1>2. PICK i \in Here.left : items' = [items EXCEPT ![i].at = "dying"]
    BY DEF DrainOne
<1> DEFINE b == Here.b
<1>3. /\ Here \in [k : {"drain"}, b : Boxes, by : {"call", "close"}, left : SUBSET Items]
      /\ DrainFits(Here, boxes, items)
      /\ Here.by = "call" => \A n \in 1 .. Len(Below) : ~(Below[n].k = "lua" /\ Below[n].b = b)
    BY <1>1, TopDrain
<1>4. i \in Items /\ b \in Boxes /\ items[i].at = "detached" /\ items[i].of = b
    BY <1>3 DEF DrainFits
<1>5. Busy(boxes, request, b) = "idle" \/ boxes[b].lua = "abandoned"
    <2>1. CASE Here.by = "call"
        <3>1. /\ Len(stack) \in Nat /\ Len(stack) > 0 /\ Here = stack[Len(stack)]
              /\ Len(Below) = Len(stack) - 1 /\ \A n \in 1 .. Len(stack) - 1 : Below[n] = stack[n]
            BY <1>1, Shapes
        <3>2. NoLua(stack, b)
            <4>1. \A n \in 1 .. Len(stack) : n \in 1 .. Len(stack) - 1 \/ n = Len(stack)
                BY <3>1
            <4> QED
                BY <1>1, <1>3, <2>1, <3>1, <4>1 DEF NoLua
        <3>3. request \in {"running", "ending"}
            <4>1. Len(stack) \in 1 .. Len(stack)
                BY <3>1
            <4>2. request # "crashed"
                BY <1>1, <2>1, <3>1, <4>1 DEF Inv, Counted
            <4> QED
                BY <1>1, <4>2 DEF Inv, Counted
        <3>4. ~boxes[b].wreck
            BY <1>4, <3>3 DEF Inv, Counted
        <3> QED
            BY <1>4, <3>2, <3>4, IdleOrWreck
    <2>2. CASE Here.by = "close"
        <3>1. boxes[b].closed /\ boxes[b].lua # "up"
            BY <1>3, <2>2 DEF DrainFits
        <3>2. NoLua(stack, b)
            BY <1>4, <3>1, ClosedIsIdle
        <3>3. boxes[b].wreck => boxes[b].lua = "abandoned"
            BY <1>4, <3>1 DEF Inv, Counted
        <3> QED
            BY <1>4, <3>2, <3>3, IdleOrWreck
    <2> QED
        BY <1>3, <2>1, <2>2
<1> HIDE DEF b
<1>6. Guardian!GiveBack(i)
    BY <1>1, <1>2, <1>4, <1>5, GivingBack
<1> QED
    BY <1>4, <1>6

LEMMA ReleaseAbandonedSeen ==
    ASSUME Inv, Inv', NEW b \in Boxes, ReleaseAbandoned(b)
    PROVE  \/ \E i \in Items : Guardian!GiveBack(i)
           \/ UNCHANGED Guardian!custodyVars
<1>1. /\ Stage(b, "abandon") /\ boxes' = boxes /\ request' = request
      /\ items' = items \/ \E i \in At("lua", b) : items' = [items EXCEPT ![i].at = "dying"]
    BY DEF ReleaseAbandoned
<1>2. Here.b = b /\ Here.stage = "abandon" /\ CloseFits(Here, boxes, items)
    BY <1>1, TopClose
<1>3. boxes[b].lua = "abandoned"
    BY <1>2 DEF CloseFits
<1>4. CASE items' = items
    <2>1. SameBoxes
        BY <1>1 DEF SameBoxes
    <2> QED
        BY <1>1, <1>4, <2>1, ItemsUntouched, FlagsUnseen
<1>5. ASSUME NEW i \in At("lua", b), items' = [items EXCEPT ![i].at = "dying"]
      PROVE  \E j \in Items : Guardian!GiveBack(j)
    <2>1. i \in Items /\ items[i].at = "lua" /\ items[i].of = b
        BY DEF At
    <2>2. Guardian!GiveBack(i)
        BY <1>1, <1>3, <1>5, <2>1, GivingBack
    <2> QED
        BY <2>1, <2>2
<1> QED
    BY <1>1, <1>4, <1>5

LEMMA CloseDestroysSeen ==
    ASSUME Inv, Inv', NEW b \in Boxes, CloseDestroys(b) PROVE Guardian!Destroy(b)
<1>1. /\ Stage(b, "lua") /\ boxes[b].lua = "up" /\ boxes[b].inLua = 0 /\ ~boxes[b].panicked
      /\ boxes' = [boxes EXCEPT ![b].lua = "destroyed"]
      /\ items' = [i \in Items |-> IF i \in At("lua", b)
                                   THEN [items[i] EXCEPT !.at = "queue"] ELSE items[i]]
      /\ request' = request
    BY DEF CloseDestroys
<1>2. stack # <<>> /\ CloseFits(Here, boxes, items) /\ Here.b = b
    BY <1>1, TopClose
<1>3. NoLua(stack, b) /\ request # "over"
    <2>1. boxes[b].closed
        BY <1>2 DEF CloseFits
    <2> QED
        BY <1>2, <2>1, ClosedIsIdle DEF Inv
<1>4. Exec[b] = "idle" /\ Interp[b] = "up"
    <2>1. ~boxes[b].wreck
        BY <1>1, <1>3, NothingWrecked
    <2> QED
        BY <1>1, <1>3, <2>1, IdleOrWreck, ExecIs DEF Interp
<1>5. /\ boxes'[b].lua = "destroyed"
      /\ \A c \in Boxes : /\ boxes'[c].wreck = boxes[c].wreck
                          /\ boxes'[c].inLua = boxes[c].inLua
                          /\ c # b => boxes'[c] = boxes[c]
    BY <1>1 DEF Inv, BoxRecord
<1>6. Interp' = [Interp EXCEPT ![b] = "destroyed"]
    BY <1>5 DEF Interp
<1>7. SameExec
    BY <1>1, <1>5, CountersSame
<1>8. SameItems
    <2>1. At("lua", b) \in SUBSET Items /\ \A i \in At("lua", b) : items[i].at = "lua" /\ items[i].of = b
        BY DEF At
    <2>2. items' = Moved(At("lua", b), "queue")
        BY <1>1 DEF Moved
    <2>3. /\ \A i \in At("lua", b) : items'[i].at = "queue" /\ items'[i].of = items[i].of
          /\ \A i \in Items : i \notin At("lua", b) => items'[i] = items[i]
        <3>1. \A i \in At("lua", b) : items[i].at \in {"lua", "queue"} /\ boxes[items[i].of].lua = "up"
            BY <1>1, <2>1
        <3> QED
            BY <2>1, <2>2, <3>1, MovedItems
    <2>4. CustodyOf("lua") = CustodyOf("queue")
        BY DEF CustodyOf
    <2> QED
        BY <2>1, <2>3, <2>4 DEF SameItems
<1>9. Exec' = Exec /\ Keeper' = Keeper /\ Kept' = Kept
    BY <1>7, <1>8, SeenSame
<1> QED
    BY <1>4, <1>6, <1>9, CustodyReads

(* Some of the objects are lost.                                                *)
LEMMA SomeLost ==
    ASSUME NEW S \in SUBSET Items, \A i \in S : CustodyOf(items[i].at) = "lua",
           \A i \in S : items'[i].at = "leaked" /\ items'[i].of = items[i].of,
           \A i \in Items : i \notin S => items'[i] = items[i]
    PROVE  /\ Keeper' = Keeper
           /\ S \in SUBSET {j \in Items : Kept[j] = "lua"}
           /\ Kept' = [j \in Items |-> IF j \in S THEN "lost" ELSE Kept[j]]
<1>1. \A i \in Items : items'[i].of = items[i].of
    OBVIOUS
<1>2. CustodyOf("leaked") = "lost"
    BY DEF CustodyOf
<1>3. \A i \in Items : CustodyOf(items'[i].at) = IF i \in S THEN "lost" ELSE CustodyOf(items[i].at)
    BY <1>2
<1> QED
    BY <1>1, <1>3 DEF Keeper, Kept

LEMMA CloseAbandonsSeen ==
    ASSUME Inv, Inv', NEW b \in Boxes, CloseAbandons(b) PROVE Guardian!Abandon(b)
<1> DEFINE S == {i \in At("lua", b) : ~items[i].proxy}
<1>1. /\ Stage(b, "lua") /\ boxes[b].lua = "up" /\ (boxes[b].inLua > 0 \/ boxes[b].panicked)
      /\ boxes' = [boxes EXCEPT ![b].lua = "abandoned"]
      /\ items' = [i \in Items |-> IF i \in At("lua", b) /\ ~items[i].proxy
                                   THEN [items[i] EXCEPT !.at = "leaked"] ELSE items[i]]
      /\ request' = request
    BY DEF CloseAbandons
<1>2. stack # <<>> /\ CloseFits(Here, boxes, items) /\ Here.b = b
    BY <1>1, TopClose
<1>3. NoLua(stack, b) /\ request # "over"
    <2>1. boxes[b].closed
        BY <1>2 DEF CloseFits
    <2> QED
        BY <1>2, <2>1, ClosedIsIdle DEF Inv
<1>4. boxes[b].wreck
    <2>1. request \in {"running", "ending", "crashed"}
        BY <1>3 DEF Inv, Counted
    <2>2. CASE request \in {"running", "ending"}
        <3>1. ~boxes[b].wreck /\ ~boxes[b].panicked
            BY <2>2 DEF Inv, Counted
        <3>2. boxes[b].wreck \/ (NoLua(stack, b) <=> ~(request \in {"running", "ending"} /\ boxes[b].inLua > 0))
            BY FramesShowDepth DEF Inv
        <3> QED
            BY <1>1, <1>3, <2>2, <3>1, <3>2
    <2>3. CASE request = "crashed"
        <3>1. boxes[b].wreck = (boxes[b].panicked \/ boxes[b].inLua > 0)
            BY <2>3 DEF Inv, Counted
        <3> QED
            BY <1>1, <3>1, Zenon
    <2> QED
        BY <2>1, <2>2, <2>3
<1>5. Exec[b] = "wrecked" /\ Interp[b] = "up"
    BY <1>1, <1>4, ExecIs DEF Interp, Busy
<1>6. /\ boxes'[b].lua = "abandoned"
      /\ \A c \in Boxes : /\ boxes'[c].wreck = boxes[c].wreck
                          /\ boxes'[c].inLua = boxes[c].inLua
                          /\ c # b => boxes'[c] = boxes[c]
    BY <1>1 DEF Inv, BoxRecord
<1>7. Interp' = [Interp EXCEPT ![b] = "abandoned"]
    BY <1>6 DEF Interp
<1>8. Exec' = Exec
    BY <1>1, <1>6, CountersSame, SeenSame
<1>9. /\ S \in SUBSET Items /\ \A i \in S : items[i].at = "lua" /\ items[i].of = b
      /\ items' = Moved(S, "leaked")
    BY <1>1 DEF At, Moved
<1> HIDE DEF S
<1>10. /\ Keeper' = Keeper /\ S \in SUBSET {j \in Items : Kept[j] = "lua"}
       /\ Kept' = [j \in Items |-> IF j \in S THEN "lost" ELSE Kept[j]]
    <2>1. /\ \A i \in S : items'[i].at = "leaked" /\ items'[i].of = items[i].of
          /\ \A i \in Items : i \notin S => items'[i] = items[i]
        BY <1>9, MovedItems
    <2>2. \A i \in S : CustodyOf(items[i].at) = "lua"
        BY <1>9 DEF CustodyOf
    <2> QED
        BY <1>9, <2>1, <2>2, SomeLost
<1>11. S \in SUBSET {j \in Items : Kept[j] = "lua" /\ Keeper[j] = b}
    BY <1>9, <1>10 DEF Keeper
<1>12. \E gone \in SUBSET {j \in Items : Kept[j] = "lua" /\ Keeper[j] = b} :
            Kept' = [j \in Items |-> IF j \in gone THEN "lost" ELSE Kept[j]]
    BY <1>10, <1>11
<1> QED
    BY <1>5, <1>7, <1>8, <1>10, <1>12, AbandonReads

LEMMA JumpOutSeen ==
    ASSUME Inv, Inv', request = "running", NEW extra \in SUBSET Boxes, JumpOut(extra)
    PROVE  \E also \in SUBSET Boxes : Guardian!Crash(also)
<1> DEFINE held(b) == \E n \in DOMAIN stack : stack[n].b = b
           r(b) == [boxes[b] EXCEPT !.var   = boxes[b].var \/ (held(b) /\ boxes[b].made = "made"),
                                    !.wreck = boxes[b].wreck \/ OnStack("lua", b) \/ b \in extra,
                                    !.panicked = boxes[b].panicked \/ b \in extra]
           it(i) == IF items[i].at = "detached" THEN [items[i] EXCEPT !.at = "leaked"] ELSE items[i]
           S == {i \in Items : items[i].at = "detached"}
<1>1. /\ boxes' = [b \in Boxes |-> r(b)]
      /\ items' = [i \in Items |-> it(i)]
      /\ request' = "crashed"
    BY DEF JumpOut
<1>2. boxes \in [Boxes -> BoxRecord] /\ items \in [Items -> ItemRecord] /\ stack \in Seq(Frames)
    BY Shapes DEF Inv
<1>3. \A b \in Boxes : boxes[b] \in BoxRecord /\ ~boxes[b].wreck
    BY <1>2 DEF Inv, Counted
<1>4. ASSUME NEW b \in Boxes
      PROVE  r(b).lua = boxes[b].lua /\ r(b).wreck = (OnStack("lua", b) \/ b \in extra)
    <2> DEFINE v == boxes[b].var \/ (held(b) /\ boxes[b].made = "made")
               w == boxes[b].wreck \/ OnStack("lua", b) \/ b \in extra
               p == boxes[b].panicked \/ b \in extra
    <2>1. w = (OnStack("lua", b) \/ b \in extra)
        BY <1>3
    <2>2. r(b) = [boxes[b] EXCEPT !.var = v, !.wreck = w, !.panicked = p]
        OBVIOUS
    <2> HIDE DEF r, v, w, p
    <2>3. boxes[b] \in BoxRecord
        BY <1>3
    <2> QED
        BY <2>1, <2>2, <2>3 DEF BoxRecord
<1>5. \A i \in Items : it(i) = IF i \in S THEN [items[i] EXCEPT !.at = "leaked"] ELSE items[i]
    OBVIOUS
<1>6. S \in SUBSET Items /\ \A i \in S : items[i].at = "detached"
    OBVIOUS
<1> HIDE DEF r, it, S
<1>7. \A b \in Boxes : boxes'[b].lua = boxes[b].lua
                       /\ boxes'[b].wreck = (OnStack("lua", b) \/ b \in extra)
    BY <1>1, <1>4
<1>8. Interp' = Interp
    BY <1>7, SeenSame DEF SameInterp
<1>9. /\ Keeper' = Keeper /\ S \in SUBSET {j \in Items : Kept[j] = "lua"}
      /\ Kept' = [j \in Items |-> IF j \in S THEN "lost" ELSE Kept[j]]
    <2>1. ASSUME NEW i \in S PROVE items'[i].at = "leaked" /\ items'[i].of = items[i].of
        <3>1. items'[i] = [items[i] EXCEPT !.at = "leaked"] /\ items[i] \in ItemRecord
            BY <1>1, <1>2, <1>5, <1>6
        <3> QED
            BY <3>1 DEF ItemRecord
    <2>2. \A i \in Items : i \notin S => items'[i] = items[i]
        BY <1>1, <1>5
    <2>3. \A i \in S : CustodyOf(items[i].at) = "lua"
        BY <1>6 DEF CustodyOf
    <2> QED
        BY <1>6, <2>1, <2>2, <2>3, SomeLost
<1>10. Exec' = [c \in Boxes |-> IF Exec[c] = "busy" \/ c \in extra THEN "wrecked" ELSE Exec[c]]
    <2> SUFFICES ASSUME NEW c \in Boxes
                 PROVE  Executing(c)' = IF Executing(c) = "busy" \/ c \in extra
                                        THEN "wrecked" ELSE Executing(c)
        BY DEF Exec
    <2>1. Executing(c)' = IF OnStack("lua", c) \/ c \in extra THEN "wrecked" ELSE "idle"
        <3>1. Executing(c)' = Busy(boxes', request', c)
            BY ExecNext
        <3> QED
            BY <1>1, <1>7, <3>1 DEF Busy
    <2>2. Executing(c) = IF OnStack("lua", c) THEN "busy" ELSE "idle"
        BY <1>3 DEF Executing
    <2> QED
        BY <2>1, <2>2
<1>11. Guardian!Crash(extra)
    <2>1. \E gone \in SUBSET {j \in Items : Kept[j] = "lua"} :
            Kept' = [j \in Items |-> IF j \in gone THEN "lost" ELSE Kept[j]]
        BY <1>9
    <2> QED
        BY <1>8, <1>9, <1>10, <2>1, CrashReads
<1> QED
    BY <1>11

LEMMA InitSeen ==
    ASSUME LifecycleInit PROVE Guardian!Init
<1>1. boxes = [b \in Boxes |-> BlankBox] /\ items = [i \in Items |-> BlankItem] /\ stack = <<>>
    BY DEF LifecycleInit
<1>2. \A b \in Boxes : boxes[b].lua = "none" /\ Executing(b) = "idle"
    BY <1>1 DEF BlankBox, Executing, OnStack
<1>3. \A i \in Items : items[i].of = Nothing /\ CustodyOf(items[i].at) = "host"
    BY <1>1 DEF BlankItem, CustodyOf
<1> QED
    BY <1>2, <1>3 DEF Guardian!Init

LEMMA StepSeen ==
    ASSUME Inv, Inv', [LifecycleNext]_lifecycleVars
    PROVE  [Guardian!Next]_(Guardian!custodyVars)
<1>1. CASE UNCHANGED lifecycleVars
    BY <1>1 DEF lifecycleVars, Guardian!custodyVars, Executing, OnStack
<1>2. ASSUME NEW b \in Boxes, Guardian!Build(b) \/ Guardian!Enter(b) \/ Guardian!Leave(b)
                              \/ Guardian!Destroy(b) \/ Guardian!Abandon(b)
      PROVE  Guardian!Next
    BY <1>2 DEF Guardian!Next
<1>3. ASSUME NEW i \in Items, Guardian!GiveBack(i) \/ \E b \in Boxes : Guardian!Take(i, b)
      PROVE  Guardian!Next
    BY <1>3 DEF Guardian!Next
<1>4. ASSUME NEW also \in SUBSET Boxes, Guardian!Crash(also) PROVE Guardian!Next
    BY <1>4 DEF Guardian!Next
<1>5. CASE CallReturns
    BY <1>2, <1>5, CallReturnsSeen
<1>6. CASE HostReturns \/ SweepClosesHead \/ SweepOver \/ CallOut \/ EndRequest
    BY <1>6, HostReturnsUnseen, SweepClosesHeadUnseen, SweepOverUnseen, CallOutUnseen,
        EndRequestUnseen
<1>7. CASE DrainOne
    BY <1>3, <1>7, DrainOneSeen
<1>8. CASE Bailout
    <2>1. request = "running" /\ JumpOut({})
        BY <1>8 DEF Bailout
    <2> QED
        BY <1>4, <2>1, JumpOutSeen
<1>9. CASE \E i \in Items : Finalised(i)
    BY <1>9, FinalisedUnseen
<1>10. CASE \/ DrainDone \/ SweepReleases
            \/ \E h \in Handles : DropHandle(h)
            \/ \E b \in Boxes, h \in Handles : MakeHandle(b, h)
            \/ \E b \in Boxes : \/ DropVariable(b) \/ MakeHandleFails(b) \/ CloseMethod(b)
                                \/ CollectCycle(b) \/ Free(b) \/ CloseDropsItsOwn(b)
                                \/ CloseHasNothing(b) \/ CloseUnlinks(b)
    BY <1>10, QuietSteps
<1>11. ASSUME NEW b \in Boxes,
              \/ Construct(b) \/ ConstructFails(b) \/ CallIn(b) \/ Panic(b)
              \/ CloseDestroys(b) \/ CloseAbandons(b) \/ ReleaseAbandoned(b) \/ CloseDrains(b)
              \/ \E i \in Items : HandOver(b, i)
       PROVE  [Guardian!Next]_(Guardian!custodyVars)
    <2>1. CASE Construct(b) \/ ConstructFails(b)
        BY <1>2, <2>1, ConstructSeen
    <2>2. CASE CallIn(b)
        BY <1>2, <2>2, CallInSeen
    <2>3. CASE Panic(b)
        <3>1. request = "running" /\ JumpOut({b}) /\ {b} \in SUBSET Boxes
            BY <2>3 DEF Panic
        <3> QED
            BY <1>4, <3>1, JumpOutSeen
    <2>4. CASE CloseDestroys(b)
        BY <1>2, <2>4, CloseDestroysSeen
    <2>5. CASE CloseAbandons(b)
        BY <1>2, <2>5, CloseAbandonsSeen
    <2>6. CASE ReleaseAbandoned(b)
        BY <1>3, <2>6, ReleaseAbandonedSeen
    <2>7. CASE CloseDrains(b)
        BY <2>7, CloseDrainsUnseen
    <2>8. ASSUME NEW i \in Items, HandOver(b, i) PROVE Guardian!Next
        <3>1. Guardian!Take(i, b)
            BY <2>8, HandOverSeen
        <3> QED
            BY <1>3, <3>1
    <2> QED
        BY <1>11, <2>1, <2>2, <2>3, <2>4, <2>5, <2>6, <2>7, <2>8
<1> QED
    BY <1>1, <1>5, <1>6, <1>7, <1>8, <1>9, <1>10, <1>11 DEF LifecycleNext, LifecycleEngine

(* What sandboxes do with the host's objects and with their own interpreters,   *)
(* luaext_sandbox_close, luaext_defer_drain, luaext_defer_shutdown and the      *)
(* jumps over all of them, is what Custody allows: an object given back once,   *)
(* never inside the interpreter that held it, and no interpreter destroyed      *)
(* under a call.                                                                *)
THEOREM LifecycleKeepsCustody == LifecycleSpec => KeepsCustody
<1>1. LifecycleInit => Guardian!Init
    BY InitSeen
<1>2. Inv /\ Inv' /\ [LifecycleNext]_lifecycleVars => [Guardian!Next]_(Guardian!custodyVars)
    BY StepSeen
<1> QED
    BY <1>1, <1>2, InvHolds, PTL DEF LifecycleSpec, KeepsCustody, Guardian!Spec

--------------------------------------------------------------------------------
(* That a handle names the function it was made for, for any number of handles  *)
(* and sandboxes (luaext_function.c, luaext_convert_ref_create).                *)
(*                                                                              *)
(* What Lifecycle states, that the handle's slot holds its function, would be   *)
(* undone by a freelist that offers a slot twice or a slot in use.  So the      *)
(* registry and the handles are each other's inverse: a slot that was ever used *)
(* is offered, once, or it holds the function of a handle that names it back.   *)
(* That every slot there can be fits into the table follows by counting: a slot *)
(* never used is taken only when none is offered, so each of the others has a   *)
(* handle of its own.                                                           *)

RegistryRecord == [held : [Slots -> Handles \cup {Nothing}], free : Seq(Slots), next : Nat \ {0}]

Used(r) == 1 .. r.next - 1

(* The freelist, and what it and the handles say of each other.                 *)
FreeFits(r) ==
    /\ r \in RegistryRecord
    /\ Used(r) \subseteq Slots
    /\ IsInjective(r.free)
    /\ Range(r.free) \subseteq Used(r)
    /\ \A n \in Range(r.free) : r.held[n] = Nothing
NamesFit(r, hs, b) ==
    /\ \A n \in Used(r) : n \notin Range(r.free) =>
            r.held[n] \in Handles /\ hs[r.held[n]].of = b /\ hs[r.held[n]].slot = n
    /\ \A h \in Handles : hs[h].of = b => hs[h].slot \in Used(r) /\ r.held[hs[h].slot] = h

RegistryInv ==
    /\ handles \in [Handles -> [of : Boxes \cup {Nothing}, slot : Slots \cup {0}]]
    /\ registry \in [Boxes -> RegistryRecord]
    /\ \A b \in Boxes : boxes[b].made = "unborn" =>
            registry[b] = BlankRegistry /\ \A h \in Handles : handles[h].of # b
    /\ \A b \in Boxes : Usable(b) => FreeFits(registry[b]) /\ NamesFit(registry[b], handles, b)

--------------------------------------------------------------------------------
(* Freelists.                                                                   *)

LEMMA LastAndRest ==
    ASSUME NEW S, NEW s \in Seq(S), s # <<>>, IsInjective(s)
    PROVE  /\ Last(s) \in Range(s) /\ Last(s) \in S
           /\ Front(s) \in Seq(S) /\ IsInjective(Front(s))
           /\ Range(Front(s)) = Range(s) \ {Last(s)}
<1>1. Len(s) \in Nat /\ Len(s) > 0
    OBVIOUS
<1>2. Last(s) = s[Len(s)] /\ Len(s) \in 1 .. Len(s) /\ DOMAIN s = 1 .. Len(s)
    BY <1>1 DEF Last
<1> DEFINE t == Front(s)
           l == Len(s) - 1
<1>3. /\ t \in Seq(S) /\ Len(t) = l
      /\ \A n \in 1 .. l : t[n] = s[n]
    <2>1. l \in 0 .. Len(s) /\ t = SubSeq(s, 1, l)
        BY <1>1 DEF Front
    <2> HIDE DEF l, t
    <2>2. /\ SubSeq(s, 1, l) \in Seq(S) /\ Len(SubSeq(s, 1, l)) = l
          /\ \A n \in 1 .. l : SubSeq(s, 1, l)[n] = s[n]
        BY <1>1, <2>1
    <2> QED
        BY <2>1, <2>2
<1>4. DOMAIN t = 1 .. l
    BY <1>3
<1> HIDE DEF t
<1>5. l \in Nat /\ l < Len(s) /\ (\A n \in 1 .. Len(s) : n \in 1 .. l \/ n = Len(s))
      /\ (\A n \in 1 .. l : n \in 1 .. Len(s) /\ n # Len(s))
    BY <1>1
<1> HIDE DEF l
<1>6. \A m, n \in 1 .. Len(s) : s[m] = s[n] => m = n
    BY <1>2 DEF IsInjective
<1>7. IsInjective(t)
    BY <1>3, <1>4, <1>5, <1>6 DEF IsInjective
<1>8. Last(s) \in Range(s)
    BY <1>2 DEF Range
<1>9. ASSUME NEW x \in Range(t) PROVE x \in Range(s) \ {Last(s)}
    <2>1. PICK n \in 1 .. l : x = t[n]
        BY <1>4 DEF Range
    <2>2. x = s[n] /\ n \in 1 .. Len(s) /\ n # Len(s)
        BY <1>3, <1>5, <2>1
    <2>3. x # s[Len(s)]
        BY <1>2, <1>6, <2>2
    <2> QED
        BY <1>2, <2>2, <2>3 DEF Range
<1>10. ASSUME NEW x \in Range(s), x # Last(s) PROVE x \in Range(t)
    <2>1. PICK n \in 1 .. Len(s) : x = s[n]
        BY <1>2 DEF Range
    <2>2. n \in 1 .. l
        BY <1>2, <1>5, <1>10, <2>1
    <2>3. x = t[n]
        BY <1>3, <2>1, <2>2
    <2> QED
        BY <1>4, <2>2, <2>3 DEF Range
<1>11. Range(t) = Range(s) \ {Last(s)}
    BY <1>9, <1>10
<1>12. Last(s) \in S
    BY <1>2
<1> QED
    BY <1>3, <1>7, <1>8, <1>11, <1>12 DEF t

LEMMA OneOffered ==
    ASSUME NEW S, NEW s \in Seq(S), IsInjective(s), NEW x \in S, x \notin Range(s)
    PROVE  /\ Append(s, x) \in Seq(S) /\ IsInjective(Append(s, x))
           /\ Range(Append(s, x)) = Range(s) \cup {x}
<1> DEFINE t == Append(s, x)
           l == Len(s)
<1>1. /\ t \in Seq(S) /\ Len(t) = l + 1 /\ t[l + 1] = x /\ l \in Nat
      /\ \A n \in 1 .. l : t[n] = s[n]
    OBVIOUS
<1>2. DOMAIN s = 1 .. l
    OBVIOUS
<1> HIDE DEF t, l
<1>3. DOMAIN t = 1 .. l + 1 /\ \A n \in 1 .. l + 1 : n \in 1 .. l \/ n = l + 1
    BY <1>1
<1>4. \A n \in 1 .. l : s[n] # x
    BY <1>2 DEF Range
<1>5. ASSUME NEW m \in 1 .. l + 1, NEW n \in 1 .. l + 1, t[m] = t[n] PROVE m = n
    <2>1. CASE m \in 1 .. l /\ n \in 1 .. l
        BY <1>1, <1>2, <1>5, <2>1 DEF IsInjective
    <2>2. CASE m = l + 1 /\ n \in 1 .. l
        BY <1>1, <1>4, <1>5, <2>2
    <2>3. CASE n = l + 1 /\ m \in 1 .. l
        BY <1>1, <1>4, <1>5, <2>3
    <2> QED
        BY <1>3, <2>1, <2>2, <2>3
<1>6. IsInjective(t)
    BY <1>3, <1>5 DEF IsInjective
<1>7. Range(t) = Range(s) \cup {x}
    <2>1. ASSUME NEW y \in Range(t) PROVE y \in Range(s) \cup {x}
        <3>1. PICK n \in 1 .. l + 1 : y = t[n]
            BY <1>3 DEF Range
        <3> QED
            BY <1>1, <1>2, <1>3, <3>1 DEF Range
    <2>2. ASSUME NEW y \in Range(s) PROVE y \in Range(t)
        <3>1. PICK n \in 1 .. l : y = s[n]
            BY <1>2 DEF Range
        <3>2. y = t[n] /\ n \in DOMAIN t
            BY <1>1, <1>3, <3>1
        <3> QED
            BY <3>2 DEF Range
    <2>3. x \in Range(t)
        <3>1. x = t[l + 1] /\ l + 1 \in DOMAIN t
            BY <1>1, <1>3
        <3> QED
            BY <3>1 DEF Range
    <2> QED
        BY <2>1, <2>2, <2>3
<1> QED
    BY <1>1, <1>6, <1>7 DEF t

(* There is always room: with nothing offered, each slot used has a handle.     *)
LEMMA RoomForOne ==
    ASSUME NEW r, NEW b, FreeFits(r), NamesFit(r, handles, b), r.free = <<>>
    PROVE  r.next \in Slots /\ 1 .. r.next \subseteq Slots
<1> DEFINE c == Cardinality(Handles)
<1>1. c \in Nat /\ IsFiniteSet(Handles)
    BY LifecycleAssumption, FS_CardinalityType
<1>2. r.next \in Nat \ {0}
    BY DEF FreeFits, RegistryRecord
<1>3. \A n \in Used(r) : r.held[n] \in Handles /\ handles[r.held[n]].slot = n
    BY DEF NamesFit, Range
<1>4. r.next - 1 <= c
    <2> SUFFICES ASSUME c < r.next - 1 PROVE FALSE
        BY <1>1, <1>2
    <2> DEFINE f == [n \in Used(r) |-> r.held[n]]
    <2>1. IsFiniteSet(Used(r)) /\ Cardinality(Used(r)) = r.next - 1
        <3> DEFINE l == r.next - 1
        <3>1. l \in Int /\ 1 \in Int /\ (1 > l => l = 0) /\ l - 1 + 1 = l
            BY <1>2
        <3>2. IsFiniteSet(1 .. l) /\ Cardinality(1 .. l) = IF 1 > l THEN 0 ELSE l - 1 + 1
            <4> HIDE DEF l
            <4> QED
                BY <3>1, FS_Interval
        <3> QED
            BY <3>1, <3>2 DEF Used
    <2>2. f \in [Used(r) -> Handles]
        BY <1>3
    <2> HIDE DEF f
    <2>3. PICK m, n \in Used(r) : m # n /\ f[m] = f[n]
        BY <1>1, <2>1, <2>2, FS_PigeonHole
    <2>4. r.held[m] = r.held[n]
        BY <2>3 DEF f
    <2> QED
        BY <1>3, <2>3, <2>4
<1> QED
    BY <1>1, <1>2, <1>4 DEF Slots

(* What luaext_convert_ref_create takes was nobody's, and is out of the list.   *)
LEMMA TakenFits ==
    ASSUME NEW r, NEW b, FreeFits(r), NamesFit(r, handles, b)
    PROVE  /\ FreeFits(Taken(r).r) /\ Taken(r).slot \in Used(Taken(r).r)
           /\ Taken(r).r.held = r.held
           /\ Used(Taken(r).r) = Used(r) \cup {Taken(r).slot}
           /\ Range(Taken(r).r.free) = Range(r.free) \ {Taken(r).slot}
           /\ Taken(r).slot \in Slots
           /\ Taken(r).slot \in Range(r.free) \/ Taken(r).slot \notin Used(r)
<1>1. /\ r \in RegistryRecord /\ r.held \in [Slots -> Handles \cup {Nothing}]
      /\ r.free \in Seq(Slots) /\ r.next \in Nat \ {0}
      /\ IsInjective(r.free) /\ Range(r.free) \subseteq Used(r) /\ Used(r) \subseteq Slots
      /\ \A n \in Range(r.free) : r.held[n] = Nothing
    BY DEF FreeFits, RegistryRecord
<1>2. CASE r.free # <<>>
    <2> DEFINE q == [r EXCEPT !.free = Front(@)]
    <2>1. /\ Last(r.free) \in Range(r.free) /\ Last(r.free) \in Slots
          /\ Front(r.free) \in Seq(Slots) /\ IsInjective(Front(r.free))
          /\ Range(Front(r.free)) = Range(r.free) \ {Last(r.free)}
        BY <1>1, <1>2, LastAndRest
    <2>2. Taken(r).r = q /\ Taken(r).slot = Last(r.free)
        BY <1>2 DEF Taken
    <2>3. q \in RegistryRecord /\ q.held = r.held /\ q.next = r.next /\ q.free = Front(r.free)
        BY <1>1, <2>1 DEF RegistryRecord
    <2> HIDE DEF q
    <2>4. Used(q) = Used(r)
        BY <2>3 DEF Used
    <2>5. FreeFits(q)
        BY <1>1, <2>1, <2>3, <2>4 DEF FreeFits
    <2> QED
        BY <1>1, <2>1, <2>2, <2>3, <2>4, <2>5
<1>3. CASE r.free = <<>>
    <2> DEFINE q == [r EXCEPT !.next = @ + 1]
    <2>1. Taken(r).r = q /\ Taken(r).slot = r.next
        BY <1>3 DEF Taken
    <2>2. q \in RegistryRecord /\ q.held = r.held /\ q.next = r.next + 1 /\ q.free = r.free
        BY <1>1 DEF RegistryRecord
    <2> HIDE DEF q
    <2>3. r.next \in Slots /\ 1 .. r.next \subseteq Slots
        BY <1>3, RoomForOne
    <2>4. Used(q) = 1 .. r.next /\ Used(q) = Used(r) \cup {r.next} /\ r.next \notin Used(r)
        BY <1>1, <2>2 DEF Used
    <2>5. FreeFits(q)
        BY <1>1, <2>2, <2>3, <2>4 DEF FreeFits
    <2>6. Range(r.free) = {}
        BY <1>3 DEF Range
    <2> QED
        BY <1>1, <2>1, <2>2, <2>3, <2>4, <2>5, <2>6
<1> QED
    BY <1>2, <1>3

LEMMA RecycledFits ==
    ASSUME NEW r, FreeFits(r), NEW n \in Used(r), n \notin Range(r.free)
    PROVE  /\ FreeFits(Recycled(r, n))
           /\ Used(Recycled(r, n)) = Used(r)
           /\ Range(Recycled(r, n).free) = Range(r.free) \cup {n}
           /\ \A m \in Slots : m # n => Recycled(r, n).held[m] = r.held[m]
<1>1. /\ r \in RegistryRecord /\ r.held \in [Slots -> Handles \cup {Nothing}]
      /\ r.free \in Seq(Slots) /\ r.next \in Nat \ {0}
      /\ IsInjective(r.free) /\ Range(r.free) \subseteq Used(r) /\ Used(r) \subseteq Slots
      /\ n \in Slots /\ \A m \in Range(r.free) : r.held[m] = Nothing
    BY DEF FreeFits, RegistryRecord
<1>2. /\ Append(r.free, n) \in Seq(Slots) /\ IsInjective(Append(r.free, n))
      /\ Range(Append(r.free, n)) = Range(r.free) \cup {n}
    BY <1>1, OneOffered
<1> DEFINE t == [r.held EXCEPT ![n] = Nothing]
           q == Recycled(r, n)
<1>3. t \in [Slots -> Handles \cup {Nothing}] /\ t[n] = Nothing
      /\ \A m \in Slots : m # n => t[m] = r.held[m]
    BY <1>1
<1>4. q = [r EXCEPT !.held = t, !.free = Append(r.free, n)]
    BY <1>1 DEF Recycled, RegistryRecord
<1> HIDE DEF t
<1>5. q \in RegistryRecord /\ q.held = t /\ q.free = Append(r.free, n) /\ q.next = r.next
    BY <1>1, <1>2, <1>3, <1>4 DEF RegistryRecord
<1> HIDE DEF q
<1>6. Used(q) = Used(r)
    BY <1>5 DEF Used
<1>7. \A m \in Range(q.free) : q.held[m] = Nothing
    BY <1>1, <1>2, <1>3, <1>5
<1>8. FreeFits(q)
    BY <1>1, <1>2, <1>5, <1>6, <1>7 DEF FreeFits
<1> QED
    BY <1>2, <1>3, <1>5, <1>6, <1>8 DEF q

(* No handle names a slot that is offered or was never used.                    *)
LEMMA NobodysSlot ==
    ASSUME NEW r, NEW hs, NEW b, FreeFits(r), NamesFit(r, hs, b), NEW n,
           n \in Range(r.free) \/ n \notin Used(r),
           NEW h \in Handles, hs[h].of = b
    PROVE  hs[h].slot # n
BY LifecycleAssumption DEF FreeFits, NamesFit

LEMMA MadeFits ==
    ASSUME NEW b \in Boxes, NEW h \in Handles, NEW r,
           FreeFits(r), NamesFit(r, handles, b),
           handles \in [Handles -> [of : Boxes \cup {Nothing}, slot : Slots \cup {0}]],
           handles[h].of = Nothing,
           NEW q, q = [Taken(r).r EXCEPT !.held[Taken(r).slot] = h],
           NEW hs, hs = [handles EXCEPT ![h] = [of |-> b, slot |-> Taken(r).slot]]
    PROVE  FreeFits(q) /\ NamesFit(q, hs, b)
<1> DEFINE p == Taken(r).r
           n == Taken(r).slot
<1>1. /\ FreeFits(p) /\ n \in Used(p) /\ p.held = r.held /\ n \in Slots
      /\ Used(p) = Used(r) \cup {n} /\ Range(p.free) = Range(r.free) \ {n}
      /\ n \in Range(r.free) \/ n \notin Used(r)
    BY TakenFits
<1>2. \A g \in Handles : handles[g].of = b => handles[g].slot # n
    BY <1>1, NobodysSlot
<1>3. q = [p EXCEPT !.held[n] = h] /\ hs = [handles EXCEPT ![h] = [of |-> b, slot |-> n]]
    OBVIOUS
<1> HIDE DEF p, n
<1>4. /\ p \in RegistryRecord /\ p.held \in [Slots -> Handles \cup {Nothing}]
      /\ p.free \in Seq(Slots) /\ p.next \in Nat \ {0}
      /\ IsInjective(p.free) /\ Range(p.free) \subseteq Used(p) /\ Used(p) \subseteq Slots
      /\ \A m \in Range(p.free) : p.held[m] = Nothing
    BY <1>1 DEF FreeFits, RegistryRecord
<1> DEFINE t == [p.held EXCEPT ![n] = h]
<1>5. t \in [Slots -> Handles \cup {Nothing}] /\ t[n] = h
      /\ \A m \in Slots : m # n => t[m] = p.held[m]
    BY <1>1, <1>4
<1>6. q = [p EXCEPT !.held = t]
    BY <1>3, <1>4 DEF RegistryRecord
<1> HIDE DEF t
<1>7. q \in RegistryRecord /\ q.held = t /\ q.free = p.free /\ q.next = p.next
    BY <1>4, <1>5, <1>6 DEF RegistryRecord
<1>8. Used(q) = Used(p)
    BY <1>7 DEF Used
<1>9. FreeFits(q)
    BY <1>1, <1>4, <1>5, <1>7, <1>8 DEF FreeFits
<1>10. /\ hs[h].of = b /\ hs[h].slot = n
       /\ \A g \in Handles : g # h => hs[g] = handles[g]
    BY <1>3
<1>11. b # Nothing
    BY LifecycleAssumption
<1>12. ASSUME NEW m \in Used(q), m \notin Range(q.free)
       PROVE  q.held[m] \in Handles /\ hs[q.held[m]].of = b /\ hs[q.held[m]].slot = m
    <2>1. CASE m = n
        BY <1>5, <1>7, <1>10, <2>1
    <2>2. CASE m # n
        <3>1. m \in Used(r) /\ m \notin Range(r.free) /\ q.held[m] = r.held[m]
            <4>1. m \in Used(p) /\ m \in Slots /\ m \notin Range(p.free)
                BY <1>4, <1>7, <1>8, <1>12
            <4>2. m \in Used(r) /\ m \notin Range(r.free)
                BY <1>1, <2>2, <4>1
            <4> QED
                BY <1>1, <1>5, <1>7, <2>2, <4>1, <4>2
        <3>2. r.held[m] \in Handles /\ handles[r.held[m]].of = b /\ handles[r.held[m]].slot = m
            BY <3>1 DEF NamesFit
        <3> QED
            BY <1>10, <1>11, <3>1, <3>2
    <2> QED
        BY <2>1, <2>2
<1>13. ASSUME NEW g \in Handles, hs[g].of = b
       PROVE  hs[g].slot \in Used(q) /\ q.held[hs[g].slot] = g
    <2>1. CASE g = h
        BY <1>1, <1>5, <1>7, <1>8, <1>10, <2>1
    <2>2. CASE g # h
        <3>1. handles[g].slot \in Used(r) /\ r.held[handles[g].slot] = g /\ handles[g].slot # n
            BY <1>2, <1>10, <1>13, <2>2 DEF NamesFit
        <3> QED
            BY <1>1, <1>4, <1>5, <1>7, <1>8, <1>10, <2>2, <3>1
    <2> QED
        BY <2>1, <2>2
<1> QED
    BY <1>9, <1>12, <1>13 DEF NamesFit

LEMMA RefusedFits ==
    ASSUME NEW b \in Boxes, NEW r, FreeFits(r), NamesFit(r, handles, b),
           NEW q, q = Recycled(Taken(r).r, Taken(r).slot)
    PROVE  FreeFits(q) /\ NamesFit(q, handles, b)
<1> DEFINE p == Taken(r).r
           n == Taken(r).slot
<1>1. /\ FreeFits(p) /\ n \in Used(p) /\ p.held = r.held /\ n \in Slots
      /\ Used(p) = Used(r) \cup {n} /\ Range(p.free) = Range(r.free) \ {n}
      /\ n \in Range(r.free) \/ n \notin Used(r)
    BY TakenFits
<1>2. \A g \in Handles : handles[g].of = b => handles[g].slot # n
    BY <1>1, NobodysSlot
<1>3. q = Recycled(p, n)
    OBVIOUS
<1> HIDE DEF p, n
<1>4. /\ FreeFits(q) /\ Used(q) = Used(p) /\ Range(q.free) = Range(p.free) \cup {n}
      /\ \A m \in Slots : m # n => q.held[m] = p.held[m]
    BY <1>1, <1>3, RecycledFits
<1>5. Used(q) \subseteq Slots
    BY <1>4 DEF FreeFits
<1>6. ASSUME NEW m \in Used(q), m \notin Range(q.free)
      PROVE  q.held[m] \in Handles /\ handles[q.held[m]].of = b /\ handles[q.held[m]].slot = m
    <2>1. m \in Used(r) /\ m \notin Range(r.free) /\ q.held[m] = r.held[m]
        BY <1>1, <1>4, <1>5, <1>6
    <2> QED
        BY <2>1 DEF NamesFit
<1>7. ASSUME NEW g \in Handles, handles[g].of = b
      PROVE  handles[g].slot \in Used(q) /\ q.held[handles[g].slot] = g
    <2>1. handles[g].slot \in Used(r) /\ r.held[handles[g].slot] = g /\ handles[g].slot # n
        BY <1>2, <1>7 DEF NamesFit
    <2> QED
        BY <1>1, <1>4, <1>5, <2>1
<1> QED
    BY <1>4, <1>6, <1>7 DEF NamesFit

LEMMA DroppedFits ==
    ASSUME NEW b \in Boxes, NEW h \in Handles, NEW r, FreeFits(r), NamesFit(r, handles, b),
           handles \in [Handles -> [of : Boxes \cup {Nothing}, slot : Slots \cup {0}]],
           handles[h].of = b,
           NEW q, q = Recycled(r, handles[h].slot),
           NEW hs, hs = [handles EXCEPT ![h] = [of |-> Nothing, slot |-> 0]]
    PROVE  FreeFits(q) /\ NamesFit(q, hs, b)
<1> DEFINE n == handles[h].slot
<1>1. n \in Used(r) /\ r.held[n] = h
    BY DEF NamesFit
<1>2. n \notin Range(r.free) /\ Used(r) \subseteq Slots
    BY <1>1, LifecycleAssumption DEF FreeFits
<1>3. q = Recycled(r, n)
    OBVIOUS
<1> HIDE DEF n
<1>4. /\ FreeFits(q) /\ Used(q) = Used(r) /\ Range(q.free) = Range(r.free) \cup {n}
      /\ \A m \in Slots : m # n => q.held[m] = r.held[m]
    BY <1>1, <1>2, <1>3, RecycledFits
<1>5. hs[h].of = Nothing /\ \A g \in Handles : g # h => hs[g] = handles[g]
    OBVIOUS
<1>6. b # Nothing
    BY LifecycleAssumption
<1>7. ASSUME NEW m \in Used(q), m \notin Range(q.free)
      PROVE  q.held[m] \in Handles /\ hs[q.held[m]].of = b /\ hs[q.held[m]].slot = m
    <2>1. m \in Used(r) /\ m \notin Range(r.free) /\ m # n /\ q.held[m] = r.held[m]
        BY <1>2, <1>4, <1>7
    <2>2. r.held[m] \in Handles /\ handles[r.held[m]].of = b /\ handles[r.held[m]].slot = m
        BY <2>1 DEF NamesFit
    <2>3. r.held[m] # h
        BY <2>1, <2>2 DEF n
    <2> QED
        BY <1>5, <2>1, <2>2, <2>3
<1>8. ASSUME NEW g \in Handles, hs[g].of = b
      PROVE  hs[g].slot \in Used(q) /\ q.held[hs[g].slot] = g
    <2>1. g # h /\ hs[g] = handles[g]
        BY <1>5, <1>6, <1>8
    <2>2. handles[g].slot \in Used(r) /\ r.held[handles[g].slot] = g
        BY <1>8, <2>1 DEF NamesFit
    <2>3. handles[g].slot # n
        BY <1>1, <2>1, <2>2
    <2> QED
        BY <1>2, <1>4, <2>1, <2>2, <2>3
<1> QED
    BY <1>4, <1>7, <1>8 DEF NamesFit

(* What another sandbox's handle does leaves one's names as they were.          *)
LEMMA NotItsHandle ==
    ASSUME NEW r, NEW b, NamesFit(r, handles, b),
           NEW h \in Handles, handles[h].of # b,
           NEW new, new.of # b,
           handles \in [Handles -> [of : Boxes \cup {Nothing}, slot : Slots \cup {0}]],
           NEW hs, hs = [handles EXCEPT ![h] = new]
    PROVE  NamesFit(r, hs, b)
<1>1. hs[h] = new /\ \A g \in Handles : g # h => hs[g] = handles[g]
    OBVIOUS
<1>2. ASSUME NEW m \in Used(r), m \notin Range(r.free)
      PROVE  r.held[m] \in Handles /\ hs[r.held[m]].of = b /\ hs[r.held[m]].slot = m
    <2>1. r.held[m] \in Handles /\ handles[r.held[m]].of = b /\ handles[r.held[m]].slot = m
        BY <1>2 DEF NamesFit
    <2> QED
        BY <1>1, <2>1
<1>3. ASSUME NEW g \in Handles, hs[g].of = b
      PROVE  hs[g].slot \in Used(r) /\ r.held[hs[g].slot] = g
    <2>1. g # h /\ hs[g] = handles[g]
        BY <1>1, <1>3
    <2> QED
        BY <1>3, <2>1 DEF NamesFit
<1> QED
    BY <1>2, <1>3 DEF NamesFit

--------------------------------------------------------------------------------
(* Sandboxes age: none is unborn again, none that closed opens again.           *)

UsableBox(x) == x.made = "made" /\ ~x.closed /\ x.lua = "up"

OneAged(x, y) ==
    /\ y.made = "unborn" => x.made = "unborn"
    /\ UsableBox(y) => UsableBox(x) \/ x.made = "unborn"

Aged == \A b \in Boxes : OneAged(boxes[b], boxes'[b])

LEMMA SameAged == ASSUME boxes' = boxes PROVE Aged
BY DEF Aged, OneAged

LEMMA OneBoxAged ==
    ASSUME boxes \in [Boxes -> BoxRecord], NEW b,
           NEW r, boxes' = [boxes EXCEPT ![b] = r],
           b \in Boxes => OneAged(boxes[b], r)
    PROVE  Aged
BY DEF Aged, OneAged

LEMMA FieldAged ==
    ASSUME NEW x \in BoxRecord
    PROVE  /\ \A v : OneAged(x, [x EXCEPT !.var = v])
           /\ \A v : OneAged(x, [x EXCEPT !.inLua = v])
           /\ \A v : OneAged(x, [x EXCEPT !.inPhp = v])
           /\ OneAged(x, [x EXCEPT !.closed = TRUE])
           /\ OneAged(x, [x EXCEPT !.made = "freed"])
           /\ \A v : v # "up" => OneAged(x, [x EXCEPT !.lua = v])
BY DEF BoxRecord, OneAged, UsableBox

LEMMA CloseAged ==
    ASSUME boxes \in [Boxes -> BoxRecord], NEW b, NEW by, CloseBegins(b, by)
    PROVE  Aged
<1>1. boxes' = [boxes EXCEPT ![b] = [boxes[b] EXCEPT !.closed = TRUE]]
    BY DEF CloseBegins
<1>2. b \in Boxes => OneAged(boxes[b], [boxes[b] EXCEPT !.closed = TRUE])
    BY FieldAged
<1> QED
    BY <1>1, <1>2, OneBoxAged

(* What a jump changes of a sandbox. *)
LEMMA JumpReads ==
    ASSUME NEW extra, JumpOut(extra), NEW b \in Boxes
    PROVE  \E v, w, x : boxes'[b] = [boxes[b] EXCEPT !.var = v, !.wreck = w, !.panicked = x]
<1> DEFINE v == boxes[b].var \/ ((\E n \in DOMAIN stack : stack[n].b = b) /\ boxes[b].made = "made")
           w == boxes[b].wreck \/ OnStack("lua", b) \/ b \in extra
           x == boxes[b].panicked \/ b \in extra
<1>1. boxes'[b] = [boxes[b] EXCEPT !.var = v, !.wreck = w, !.panicked = x]
    BY DEF JumpOut
<1> HIDE DEF v, w, x
<1> QED
    BY <1>1

LEMMA JumpAged ==
    ASSUME boxes \in [Boxes -> BoxRecord], NEW extra, JumpOut(extra)
    PROVE  Aged
<1>1. ASSUME NEW b \in Boxes
      PROVE  /\ boxes'[b].made = boxes[b].made /\ boxes'[b].closed = boxes[b].closed
             /\ boxes'[b].lua = boxes[b].lua
    <2>1. PICK v, w, x : boxes'[b] = [boxes[b] EXCEPT !.var = v, !.wreck = w, !.panicked = x]
        BY <1>1, JumpReads
    <2>2. boxes[b] \in BoxRecord
        OBVIOUS
    <2> QED
        BY <2>1, <2>2 DEF BoxRecord
<1> QED
    BY <1>1 DEF Aged, OneAged, UsableBox

(* Every action of the sandbox's own.                                           *)
LEMMA StepAges ==
    ASSUME boxes \in [Boxes -> BoxRecord], [LifecycleNext]_lifecycleVars
    PROVE  Aged
<1>1. CASE UNCHANGED lifecycleVars
    BY <1>1, SameAged DEF lifecycleVars
<1>2. CASE HostReturns
    <2>1. CASE UNCHANGED boxes
        BY <2>1, SameAged
    <2>2. CASE boxes' = [boxes EXCEPT ![Here.b].inPhp = @ - 1]
        <3> DEFINE b == Here.b
                   r == [boxes[b] EXCEPT !.inPhp = @ - 1]
        <3>1. boxes' = [boxes EXCEPT ![b] = r]
            BY <2>2
        <3>2. b \in Boxes => OneAged(boxes[b], r)
            BY FieldAged
        <3> QED
            BY <3>1, <3>2, OneBoxAged
    <2> QED
        BY <1>2, <2>1, <2>2 DEF HostReturns
<1>3. CASE CallReturns
    <2> DEFINE b == Here.b
               r == [boxes[b] EXCEPT !.inLua = @ - 1]
    <2>1. boxes' = [boxes EXCEPT ![b] = r]
        BY <1>3 DEF CallReturns
    <2>2. b \in Boxes => OneAged(boxes[b], r)
        BY FieldAged
    <2> QED
        BY <2>1, <2>2, OneBoxAged
<1>4. CASE CallOut
    <2> DEFINE b == Here.b
               r == [boxes[b] EXCEPT !.inPhp = @ + 1]
    <2>1. boxes' = [boxes EXCEPT ![b] = r]
        BY <1>4 DEF CallOut
    <2>2. b \in Boxes => OneAged(boxes[b], r)
        BY FieldAged
    <2> QED
        BY <2>1, <2>2, OneBoxAged
<1>5. CASE DrainOne \/ DrainDone \/ SweepReleases \/ SweepOver \/ EndRequest
    BY <1>5, SameAged DEF DrainOne, DrainDone, SweepReleases, SweepOver, EndRequest
<1>6. CASE SweepClosesHead
    <2> DEFINE b == Head(liveList)
               r == [boxes[b] EXCEPT !.closed = TRUE]
    <2>1. UNCHANGED boxes \/ boxes' = [boxes EXCEPT ![b] = r]
        BY <1>6 DEF SweepClosesHead
    <2>2. b \in Boxes => OneAged(boxes[b], r)
        BY FieldAged
    <2> QED
        BY <2>1, <2>2, OneBoxAged, SameAged
<1>7. CASE Bailout
    BY <1>7, JumpAged DEF Bailout
<1>8. ASSUME NEW i \in Items, Finalised(i) PROVE Aged
    BY <1>8, SameAged DEF Finalised
<1>9. ASSUME NEW h \in Handles, DropHandle(h) PROVE Aged
    BY <1>9, SameAged DEF DropHandle
<1>10. ASSUME NEW b \in Boxes, Free(b) PROVE Aged
    <2>1. CASE CloseBegins(b, "free")
        BY <2>1, CloseAged
    <2>2. CASE boxes' = [boxes EXCEPT ![b].made = "freed"]
        <3> DEFINE r == [boxes[b] EXCEPT !.made = "freed"]
        <3>1. boxes' = [boxes EXCEPT ![b] = r] /\ OneAged(boxes[b], r)
            BY <2>2, FieldAged
        <3> QED
            BY <3>1, OneBoxAged
    <2> QED
        BY <1>10, <2>1, <2>2 DEF Free
<1>11. ASSUME NEW b \in Boxes,
              CloseDropsItsOwn(b) \/ CloseHasNothing(b) \/ ReleaseAbandoned(b) \/ CloseDrains(b)
       PROVE Aged
    BY <1>11, SameAged DEF CloseDropsItsOwn, CloseHasNothing, ReleaseAbandoned, CloseDrains
<1>12. ASSUME NEW b \in Boxes, CloseDestroys(b) PROVE Aged
    <2> DEFINE r == [boxes[b] EXCEPT !.lua = "destroyed"]
    <2>1. boxes' = [boxes EXCEPT ![b] = r] /\ OneAged(boxes[b], r)
        BY <1>12, FieldAged DEF CloseDestroys
    <2> QED
        BY <2>1, OneBoxAged
<1>13. ASSUME NEW b \in Boxes, CloseAbandons(b) PROVE Aged
    <2> DEFINE r == [boxes[b] EXCEPT !.lua = "abandoned"]
    <2>1. boxes' = [boxes EXCEPT ![b] = r] /\ OneAged(boxes[b], r)
        BY <1>13, FieldAged DEF CloseAbandons
    <2> QED
        BY <2>1, OneBoxAged
<1>14. ASSUME NEW b \in Boxes, CloseUnlinks(b) PROVE Aged
    <2> DEFINE r == [boxes[b] EXCEPT !.made = "freed"]
    <2>1. (boxes' = boxes \/ boxes' = [boxes EXCEPT ![b] = r]) /\ OneAged(boxes[b], r)
        BY <1>14, FieldAged DEF CloseUnlinks
    <2> QED
        BY <2>1, OneBoxAged, SameAged
<1>15. ASSUME NEW b \in Boxes, Construct(b) \/ ConstructFails(b) PROVE Aged
    <2>1. PICK r : boxes' = [boxes EXCEPT ![b] = r] /\ r.made = "made"
        <3>1. CASE Construct(b)
            <4> DEFINE r == [boxes[b] EXCEPT !.made = "made", !.lua = "up", !.var = TRUE]
            <4>1. boxes' = [boxes EXCEPT ![b] = r] /\ r.made = "made"
                BY <3>1 DEF Construct, BoxRecord
            <4> QED
                BY <4>1
        <3>2. CASE ConstructFails(b)
            <4>1. PICK lua : boxes' = [boxes EXCEPT ![b] = [@ EXCEPT !.made = "made", !.lua = lua]]
                BY <3>2 DEF ConstructFails
            <4> DEFINE r == [boxes[b] EXCEPT !.made = "made", !.lua = lua]
            <4>2. boxes' = [boxes EXCEPT ![b] = r] /\ r.made = "made"
                BY <4>1 DEF BoxRecord
            <4> QED
                BY <4>2
        <3> QED
            BY <1>15, <3>1, <3>2
    <2>2. boxes[b].made = "unborn"
        BY <1>15 DEF Construct, ConstructFails
    <2>3. OneAged(boxes[b], r)
        BY <2>1, <2>2 DEF OneAged
    <2> QED
        BY <2>1, <2>3, OneBoxAged
<1>16. ASSUME NEW b \in Boxes, DropVariable(b) PROVE Aged
    <2> DEFINE r == [boxes[b] EXCEPT !.var = FALSE]
    <2>1. boxes' = [boxes EXCEPT ![b] = r] /\ OneAged(boxes[b], r)
        BY <1>16, FieldAged DEF DropVariable
    <2> QED
        BY <2>1, OneBoxAged
<1>17. ASSUME NEW b \in Boxes, CallIn(b) PROVE Aged
    <2> DEFINE r == [boxes[b] EXCEPT !.inLua = @ + 1]
    <2>1. boxes' = [boxes EXCEPT ![b] = r] /\ OneAged(boxes[b], r)
        BY <1>17, FieldAged DEF CallIn
    <2> QED
        BY <2>1, OneBoxAged
<1>18. ASSUME NEW b \in Boxes, CloseMethod(b) \/ CollectCycle(b) PROVE Aged
    BY <1>18, CloseAged DEF CloseMethod, CollectCycle
<1>19. ASSUME NEW b \in Boxes, Panic(b) PROVE Aged
    BY <1>19, JumpAged DEF Panic
<1>20. ASSUME NEW b \in Boxes, MakeHandleFails(b) PROVE Aged
    BY <1>20, SameAged DEF MakeHandleFails
<1>21. ASSUME NEW b \in Boxes, NEW i \in Items, HandOver(b, i) PROVE Aged
    BY <1>21, SameAged DEF HandOver
<1>22. ASSUME NEW b \in Boxes, NEW h \in Handles, MakeHandle(b, h) PROVE Aged
    BY <1>22, SameAged DEF MakeHandle
<1> QED
    BY <1>1, <1>2, <1>3, <1>4, <1>5, <1>6, <1>7, <1>8, <1>9, <1>10, <1>11, <1>12, <1>13,
       <1>14, <1>15, <1>16, <1>17, <1>18, <1>19, <1>20, <1>21, <1>22
       DEF LifecycleNext, LifecycleEngine

--------------------------------------------------------------------------------
(* The registries, step by step.                                                *)

HandleTable == [Handles -> [of : Boxes \cup {Nothing}, slot : Slots \cup {0}]]

LEMMA BlankFits ==
    ASSUME NEW hs, NEW b, \A h \in Handles : hs[h].of # b
    PROVE  FreeFits(BlankRegistry) /\ NamesFit(BlankRegistry, hs, b)
<1> DEFINE q == BlankRegistry
<1>1. q \in RegistryRecord /\ q.free = <<>> /\ q.next = 1
    BY DEF BlankRegistry, RegistryRecord
<1>2. Used(q) = {}
    BY <1>1 DEF Used
<1>3. Range(q.free) = {} /\ IsInjective(q.free)
    BY <1>1 DEF Range, IsInjective
<1> HIDE DEF q
<1>4. FreeFits(q) /\ NamesFit(q, hs, b)
    BY <1>1, <1>2, <1>3 DEF FreeFits, NamesFit
<1> QED
    BY <1>4 DEF q

LEMMA FitsOnceBorn ==
    ASSUME RegistryInv, NEW b \in Boxes, Usable(b) \/ boxes[b].made = "unborn"
    PROVE  FreeFits(registry[b]) /\ NamesFit(registry[b], handles, b)
<1>1. CASE Usable(b)
    BY <1>1 DEF RegistryInv
<1>2. CASE boxes[b].made = "unborn"
    <2>1. registry[b] = BlankRegistry /\ \A h \in Handles : handles[h].of # b
        BY <1>2 DEF RegistryInv
    <2> QED
        BY <2>1, BlankFits
<1> QED
    BY <1>1, <1>2

LEMMA AgedReads ==
    ASSUME Aged, NEW b \in Boxes
    PROVE  /\ boxes'[b].made = "unborn" => boxes[b].made = "unborn"
           /\ Usable(b)' => Usable(b) \/ boxes[b].made = "unborn"
BY DEF Aged, OneAged, UsableBox, Usable

LEMMA SameNames ==
    ASSUME RegistryInv, Aged, UNCHANGED <<handles, registry>>
    PROVE  RegistryInv'
<1>1. handles' = handles /\ registry' = registry
    OBVIOUS
<1>2. ASSUME NEW b \in Boxes, boxes'[b].made = "unborn"
      PROVE  registry'[b] = BlankRegistry /\ \A h \in Handles : handles'[h].of # b
    BY <1>1, <1>2, AgedReads DEF RegistryInv
<1>3. ASSUME NEW b \in Boxes, Usable(b)'
      PROVE  FreeFits(registry'[b]) /\ NamesFit(registry'[b], handles', b)
    <2>1. Usable(b) \/ boxes[b].made = "unborn"
        BY <1>3, AgedReads
    <2> QED
        BY <1>1, <2>1, FitsOnceBorn
<1>4. handles' \in HandleTable /\ registry' \in [Boxes -> RegistryRecord]
    BY <1>1 DEF RegistryInv, HandleTable
<1> QED
    BY <1>2, <1>3, <1>4 DEF RegistryInv, HandleTable

(* One sandbox's registry changes, and with it only its own handles.            *)
LEMMA OneRegistry ==
    ASSUME RegistryInv, Aged, NEW b \in Boxes, boxes[b].made # "unborn",
           NEW q \in RegistryRecord, registry' = [registry EXCEPT ![b] = q],
           handles' \in HandleTable,
           Usable(b)' => FreeFits(q) /\ NamesFit(q, handles', b),
           \A c \in Boxes : c # b /\ (\A h \in Handles : handles[h].of # c)
                                => \A h \in Handles : handles'[h].of # c,
           \A c \in Boxes : c # b /\ NamesFit(registry[c], handles, c)
                                => NamesFit(registry[c], handles', c)
    PROVE  RegistryInv'
<1>1. registry \in [Boxes -> RegistryRecord]
    BY DEF RegistryInv
<1>2. /\ registry' \in [Boxes -> RegistryRecord] /\ registry'[b] = q
      /\ \A c \in Boxes : c # b => registry'[c] = registry[c]
    BY <1>1
<1>3. ASSUME NEW c \in Boxes, boxes'[c].made = "unborn"
      PROVE  registry'[c] = BlankRegistry /\ \A h \in Handles : handles'[h].of # c
    <2>1. boxes[c].made = "unborn" /\ c # b
        BY <1>3, AgedReads
    <2>2. registry[c] = BlankRegistry /\ \A h \in Handles : handles[h].of # c
        BY <2>1 DEF RegistryInv
    <2> QED
        BY <1>2, <2>1, <2>2
<1>4. ASSUME NEW c \in Boxes, Usable(c)'
      PROVE  FreeFits(registry'[c]) /\ NamesFit(registry'[c], handles', c)
    <2>1. CASE c = b
        BY <1>2, <1>4, <2>1
    <2>2. CASE c # b
        <3>1. Usable(c) \/ boxes[c].made = "unborn"
            BY <1>4, AgedReads
        <3>2. FreeFits(registry[c]) /\ NamesFit(registry[c], handles, c)
            BY <3>1, FitsOnceBorn
        <3> QED
            BY <1>2, <2>2, <3>2
    <2> QED
        BY <2>1, <2>2
<1> QED
    BY <1>2, <1>3, <1>4 DEF RegistryInv, HandleTable

LEMMA MakeHandleNames ==
    ASSUME RegistryInv, Aged, NEW b \in Boxes, NEW h \in Handles, MakeHandle(b, h)
    PROVE  RegistryInv'
<1> DEFINE r == registry[b]
           q == [Taken(r).r EXCEPT !.held[Taken(r).slot] = h]
           new == [of |-> b, slot |-> Taken(r).slot]
           hs == [handles EXCEPT ![h] = new]
<1>1. /\ Usable(b) /\ handles[h].of = Nothing
      /\ registry' = [registry EXCEPT ![b] = q] /\ handles' = hs
    BY DEF MakeHandle
<1>2. handles \in HandleTable /\ FreeFits(r) /\ NamesFit(r, handles, b)
    BY <1>1, FitsOnceBorn DEF RegistryInv, HandleTable
<1>3. FreeFits(q) /\ NamesFit(q, hs, b)
    BY <1>1, <1>2, MadeFits DEF HandleTable
<1>4. Taken(r).slot \in Slots
    BY <1>2, TakenFits
<1> HIDE DEF r, q
<1>5. hs \in HandleTable
    BY <1>2, <1>4 DEF HandleTable
<1>6. q \in RegistryRecord
    BY <1>3 DEF FreeFits
<1>7. ASSUME NEW c \in Boxes, c # b
      PROVE  /\ (\A g \in Handles : handles[g].of # c) => \A g \in Handles : hs[g].of # c
             /\ NamesFit(registry[c], handles, c) => NamesFit(registry[c], hs, c)
    <2>1. handles[h].of # c /\ new.of # c
        BY <1>1, <1>7, LifecycleAssumption
    <2>2. NamesFit(registry[c], handles, c) => NamesFit(registry[c], hs, c)
        BY <1>2, <2>1, NotItsHandle DEF HandleTable
    <2> QED
        BY <1>2, <2>1, <2>2 DEF HandleTable
<1>8. boxes[b].made # "unborn"
    BY <1>1 DEF Usable
<1> HIDE DEF hs
<1> QED
    BY <1>1, <1>3, <1>5, <1>6, <1>7, <1>8, OneRegistry

LEMMA MakeHandleFailsNames ==
    ASSUME RegistryInv, Aged, NEW b \in Boxes, MakeHandleFails(b)
    PROVE  RegistryInv'
<1> DEFINE r == registry[b]
           q == Recycled(Taken(r).r, Taken(r).slot)
<1>1. Usable(b) /\ registry' = [registry EXCEPT ![b] = q] /\ handles' = handles
    BY DEF MakeHandleFails
<1>2. handles \in HandleTable /\ FreeFits(r) /\ NamesFit(r, handles, b)
    BY <1>1, FitsOnceBorn DEF RegistryInv, HandleTable
<1>3. FreeFits(q) /\ NamesFit(q, handles, b)
    BY <1>2, RefusedFits
<1> HIDE DEF r, q
<1>4. q \in RegistryRecord
    BY <1>3 DEF FreeFits
<1>5. boxes[b].made # "unborn"
    BY <1>1 DEF Usable
<1> QED
    BY <1>1, <1>2, <1>3, <1>4, <1>5, OneRegistry

LEMMA DropHandleNames ==
    ASSUME RegistryInv, Aged, NEW h \in Handles, DropHandle(h)
    PROVE  RegistryInv'
<1>0. PICK b : b = handles[h].of
    OBVIOUS
<1> DEFINE r == registry[b]
           new == [of |-> Nothing, slot |-> 0]
           hs == [handles EXCEPT ![h] = new]
<1>1. /\ b # Nothing /\ handles' = hs /\ boxes' = boxes
      /\ Usable(b) => registry' = [registry EXCEPT ![b] = Recycled(r, handles[h].slot)]
      /\ ~Usable(b) => registry' = registry
    BY <1>0 DEF DropHandle
<1>2. handles \in HandleTable /\ registry \in [Boxes -> RegistryRecord]
    BY DEF RegistryInv, HandleTable
<1>3. b \in Boxes
    BY <1>0, <1>1, <1>2 DEF HandleTable
<1>4. boxes[b].made # "unborn"
    BY <1>0, <1>3 DEF RegistryInv
<1>5. hs \in HandleTable
    BY <1>2 DEF HandleTable
<1>6. ASSUME NEW c \in Boxes, c # b
      PROVE  /\ (\A g \in Handles : handles[g].of # c) => \A g \in Handles : hs[g].of # c
             /\ NamesFit(registry[c], handles, c) => NamesFit(registry[c], hs, c)
    <2>1. handles[h].of # c /\ new.of # c
        BY <1>0, <1>6, LifecycleAssumption
    <2>2. NamesFit(registry[c], handles, c) => NamesFit(registry[c], hs, c)
        BY <1>2, <2>1, NotItsHandle DEF HandleTable
    <2> QED
        BY <1>2, <2>1, <2>2 DEF HandleTable
<1>7. CASE Usable(b)
    <2> DEFINE q == Recycled(r, handles[h].slot)
    <2>1. FreeFits(r) /\ NamesFit(r, handles, b)
        BY <1>3, <1>7, FitsOnceBorn
    <2>2. FreeFits(q) /\ NamesFit(q, hs, b)
        BY <1>0, <1>2, <1>3, <2>1, DroppedFits DEF HandleTable
    <2>3. q \in RegistryRecord
        BY <2>2 DEF FreeFits
    <2>4. registry' = [registry EXCEPT ![b] = q]
        BY <1>1, <1>7
    <2> HIDE DEF q, r, hs
    <2> QED
        BY <1>1, <1>3, <1>4, <1>5, <1>6, <2>2, <2>3, <2>4, OneRegistry
<1>8. CASE ~Usable(b)
    <2>1. registry' = [registry EXCEPT ![b] = r] /\ r \in RegistryRecord
        BY <1>1, <1>2, <1>3, <1>8
    <2>2. ~Usable(b)'
        BY <1>1, <1>8 DEF Usable
    <2> HIDE DEF r, hs
    <2> QED
        BY <1>1, <1>3, <1>4, <1>5, <1>6, <2>1, <2>2, OneRegistry
<1> QED
    BY <1>7, <1>8

LEMMA CloseDestroysNames ==
    ASSUME Inv, RegistryInv, Aged, NEW b \in Boxes, CloseDestroys(b)
    PROVE  RegistryInv'
<1>1. /\ boxes[b].lua = "up" /\ handles' = handles
      /\ boxes' = [boxes EXCEPT ![b] = [boxes[b] EXCEPT !.lua = "destroyed"]]
      /\ registry' = [registry EXCEPT ![b] = BlankRegistry]
    BY DEF CloseDestroys
<1>2. boxes \in [Boxes -> BoxRecord] /\ Born(boxes, liveList)
    BY DEF Inv
<1>3. boxes[b].made # "unborn"
    BY <1>1, <1>2 DEF Born
<1>4. ~Usable(b)'
    BY <1>1, <1>2 DEF Usable, BoxRecord
<1>5. BlankRegistry \in RegistryRecord
    BY DEF BlankRegistry, RegistryRecord
<1>6. handles' \in HandleTable
    BY <1>1 DEF RegistryInv, HandleTable
<1> QED
    BY <1>1, <1>3, <1>4, <1>5, <1>6, OneRegistry

LEMMA StepNames ==
    ASSUME Inv, RegistryInv, [LifecycleNext]_lifecycleVars
    PROVE  RegistryInv'
<1>1. Aged
    BY StepAges DEF Inv
<1>2. CASE UNCHANGED <<handles, registry>>
    BY <1>1, <1>2, SameNames
<1>3. CASE UNCHANGED lifecycleVars
    BY <1>2, <1>3 DEF lifecycleVars
<1>4. CASE CallReturns \/ HostReturns \/ DrainOne \/ DrainDone \/ CallOut
    BY <1>2, <1>4 DEF CallReturns, HostReturns, DrainOne, DrainDone, CallOut
<1>5. CASE SweepClosesHead \/ SweepReleases \/ SweepOver \/ EndRequest \/ Bailout
    BY <1>2, <1>5 DEF SweepClosesHead, SweepReleases, SweepOver, EndRequest, Bailout
<1>6. ASSUME NEW b \in Boxes, \/ Free(b) \/ CloseDropsItsOwn(b) \/ CloseHasNothing(b)
                              \/ CloseAbandons(b) \/ ReleaseAbandoned(b) \/ CloseDrains(b)
                              \/ CloseUnlinks(b)
      PROVE  RegistryInv'
    BY <1>2, <1>6 DEF Free, CloseDropsItsOwn, CloseHasNothing, CloseAbandons, ReleaseAbandoned,
                      CloseDrains, CloseUnlinks
<1>7. ASSUME NEW b \in Boxes, \/ Construct(b) \/ ConstructFails(b) \/ DropVariable(b)
                              \/ CallIn(b) \/ CloseMethod(b) \/ CollectCycle(b) \/ Panic(b)
      PROVE  RegistryInv'
    BY <1>2, <1>7 DEF Construct, ConstructFails, DropVariable, CallIn, CloseMethod, CollectCycle,
                      Panic
<1>8. ASSUME NEW i \in Items, Finalised(i) \/ \E b \in Boxes : HandOver(b, i)
      PROVE  RegistryInv'
    BY <1>2, <1>8 DEF Finalised, HandOver
<1>9. ASSUME NEW h \in Handles, DropHandle(h) PROVE RegistryInv'
    BY <1>1, <1>9, DropHandleNames
<1>10. ASSUME NEW b \in Boxes, NEW h \in Handles, MakeHandle(b, h) PROVE RegistryInv'
    BY <1>1, <1>10, MakeHandleNames
<1>11. ASSUME NEW b \in Boxes, MakeHandleFails(b) PROVE RegistryInv'
    BY <1>1, <1>11, MakeHandleFailsNames
<1>12. ASSUME NEW b \in Boxes, CloseDestroys(b) PROVE RegistryInv'
    BY <1>1, <1>12, CloseDestroysNames
<1> QED
    BY <1>3, <1>4, <1>5, <1>6, <1>7, <1>8, <1>9, <1>10, <1>11, <1>12
       DEF LifecycleNext, LifecycleEngine

LEMMA InitNames ==
    ASSUME LifecycleInit
    PROVE  RegistryInv
<1>1. /\ boxes = [b \in Boxes |-> BlankBox] /\ registry = [b \in Boxes |-> BlankRegistry]
      /\ handles = [h \in Handles |-> [of |-> Nothing, slot |-> 0]]
    BY DEF LifecycleInit
<1>2. handles \in HandleTable /\ BlankRegistry \in RegistryRecord
    BY <1>1 DEF HandleTable, BlankRegistry, RegistryRecord
<1>3. \A b \in Boxes : \A h \in Handles : handles[h].of # b
    BY <1>1, LifecycleAssumption
<1>4. \A b \in Boxes : ~Usable(b)
    BY <1>1 DEF Usable, BlankBox
<1> QED
    BY <1>1, <1>2, <1>3, <1>4 DEF RegistryInv, HandleTable

LEMMA NamesAreTheirOwn ==
    ASSUME RegistryInv
    PROVE  HandlesNameTheirOwn
<1>1. ASSUME NEW b \in Boxes, Usable(b)
      PROVE  LET r == registry[b]
             IN  /\ \A h \in LivingHandles(b) : r.held[handles[h].slot] = h
                 /\ IsInjective(r.free)
                 /\ \A n \in 1 .. r.next - 1 : (r.held[n] = Nothing) = (n \in Range(r.free))
    <2> DEFINE r == registry[b]
    <2>1. FreeFits(r) /\ NamesFit(r, handles, b)
        BY <1>1 DEF RegistryInv
    <2> HIDE DEF r
    <2>2. \A h \in LivingHandles(b) : r.held[handles[h].slot] = h
        BY <2>1 DEF LivingHandles, NamesFit
    <2>3. IsInjective(r.free)
        BY <2>1 DEF FreeFits
    <2>4. ASSUME NEW n \in 1 .. r.next - 1
          PROVE  (r.held[n] = Nothing) = (n \in Range(r.free))
        BY <2>1, LifecycleAssumption DEF FreeFits, NamesFit, Used
    <2> QED
        BY <2>2, <2>3, <2>4 DEF r
<1> QED
    BY <1>1 DEF HandlesNameTheirOwn

(* Every handle on an open sandbox names the function it was made for, and the  *)
(* slots not in use are each offered once, whatever was released and recycled   *)
(* (luaext_convert_ref_create, luaext_function_free_object).                    *)
THEOREM HandlesKeepTheirNames == LifecycleSpec => []HandlesNameTheirOwn
<1>1. LifecycleInit => RegistryInv
    BY InitNames
<1>2. Inv /\ RegistryInv /\ [LifecycleNext]_lifecycleVars => RegistryInv'
    BY StepNames
<1>3. RegistryInv => HandlesNameTheirOwn
    BY NamesAreTheirOwn
<1> QED
    BY <1>1, <1>2, <1>3, InvHolds, PTL DEF LifecycleSpec
--------------------------------------------------------------------------------
(* That nothing outlives the request, when no fatal error strikes a close.      *)
(*                                                                              *)
(* What the end of the request can see is the list; what it must reach is every *)
(* interpreter and every object one holds.  So the invariant follows custody: a *)
(* sandbox with an interpreter is on the list, or nobody holds it and it is     *)
(* freed next; once it is marked closed, and nothing will close it again, the   *)
(* luaext_sandbox_close that marked it is still on the C stack, short of the    *)
(* interpreter's end; an object in Lua's custody has an interpreter, or the     *)
(* frame that will take it on.  A jump out of a close breaks all of this, which *)
(* is why it is excluded.                                                       *)

Stages == {"own", "lua", "abandon", "drain", "finish"}
ClosingAt(s, b, S) == \E n \in 1 .. Len(s) : s[n].k = "close" /\ s[n].b = b /\ s[n].stage \in S
InDrain(s, i)      == \E n \in 1 .. Len(s) : s[n].k = "drain" /\ i \in s[n].left
Listed(live, b)    == \E n \in 1 .. Len(live) : live[n] = b
Once(live) ==
    \A n, m \in 1 .. Len(live) : n # m => live[n] # live[m]

(* The sandbox x of b on the stack s, the object y at i.                        *)
BoxEnds(s, x, live, b) ==
    /\ Listed(live, b) => x.made = "made"
    /\ Listed(live, b) /\ x.closed => ClosingAt(s, b, Stages)
    /\ x.lua = "up" /\ x.closed => ClosingAt(s, b, {"own", "lua"})
ItemEnds(s, bx, y, i) ==
    /\ y.at = "lua" => y.of \in Boxes /\ (bx[y.of].lua = "up" \/ ClosingAt(s, y.of, {"abandon"}))
    /\ y.at = "queue" =>
            y.of \in Boxes /\ (bx[y.of].lua = "up" \/ ClosingAt(s, y.of, {"abandon", "drain"}))
    /\ y.at = "detached" => InDrain(s, i)

(* The sweep owns what it closes. *)
SweptFits(s) ==
    \A n \in 1 .. Len(s) : s[n].k = "close" /\ s[n].by = "sweep" => s[1].k = "sweep" /\ s[1].b = s[n].b

Awaited ==
    \A b \in Boxes : boxes[b].lua = "up" /\ ~boxes[b].closed => Listed(liveList, b) \/ b \in Dying

Unheld(s, b) ==
    /\ ~boxes[b].var
    /\ \A h \in Handles : handles[h].of # b
    /\ \A i \in Items : items[i].refs # b
    /\ \A n \in 1 .. Len(s) : s[n].b # b

EndInv ==
    /\ Once(liveList)
    /\ \A b \in Boxes : BoxEnds(stack, boxes[b], liveList, b)
    /\ Awaited
    /\ \A i \in Items : ItemEnds(stack, boxes, items[i], i)
    /\ SweptFits(stack)
    /\ \A b \in Boxes : boxes[b].made = "unborn" => Unheld(stack, b)
    /\ request = "over" => liveList = <<>>

(* What a stack t keeps of the one there is, for all sandboxes but those of X.  *)
Held(t, X) ==
    /\ \A b \in Boxes : b \notin X => \A S : ClosingAt(stack, b, S) => ClosingAt(t, b, S)
    /\ SweptFits(t)
    /\ \A b \in Boxes : boxes[b].made = "unborn" => \A n \in 1 .. Len(t) : t[n].b # b

Grown(b) == b \in Boxes => boxes[b].made # "unborn"

LEMMA HeldStack ==
    ASSUME EndInv PROVE Held(stack, {})
    BY DEF EndInv, Held, Unheld

LEMMA ClosingBelow ==
    ASSUME Inv, stack # <<>>, NEW b, NEW S, ClosingAt(stack, b, S),
           ~(Here.k = "close" /\ Here.b = b /\ Here.stage \in S)
    PROVE  ClosingAt(Below, b, S)
<1>1. /\ Len(stack) \in Nat /\ Len(Below) = Len(stack) - 1 /\ Here = stack[Len(stack)]
      /\ \A n \in 1 .. Len(stack) - 1 : Below[n] = stack[n]
    BY Shapes
<1>2. PICK n \in 1 .. Len(stack) : stack[n].k = "close" /\ stack[n].b = b /\ stack[n].stage \in S
    BY DEF ClosingAt
<1>3. n # Len(stack)
    BY <1>1, <1>2
<1>4. n \in 1 .. Len(stack) - 1 /\ n \in 1 .. Len(Below)
    BY <1>1, <1>2, <1>3
<1>5. Below[n].k = "close" /\ Below[n].b = b /\ Below[n].stage \in S
    BY <1>1, <1>2, <1>4
<1> QED
    BY <1>4, <1>5 DEF ClosingAt

LEMMA HeldBelow ==
    ASSUME Inv, EndInv, stack # <<>>, NEW X, Here.k = "close" => Here.b \in X
    PROVE  Held(Below, X)
<1>1. /\ Len(stack) \in Nat /\ Len(stack) > 0 /\ Len(Below) = Len(stack) - 1
      /\ \A n \in 1 .. Len(stack) - 1 : Below[n] = stack[n]
    BY Shapes
<1>2. \A n \in 1 .. Len(Below) : n \in 1 .. Len(stack) /\ Below[n] = stack[n]
    BY <1>1
<1>3. ASSUME NEW b \in Boxes, b \notin X, NEW S, ClosingAt(stack, b, S) PROVE ClosingAt(Below, b, S)
    BY <1>3, ClosingBelow
<1>4. SweptFits(Below)
    <2>1. SweptFits(stack)
        BY DEF EndInv
    <2>2. \A n \in 1 .. Len(Below) : Below[1] = stack[1]
        BY <1>1
    <2> QED
        BY <1>2, <2>1, <2>2 DEF SweptFits
<1>5. \A b \in Boxes : boxes[b].made = "unborn" => \A n \in 1 .. Len(Below) : Below[n].b # b
    BY <1>2 DEF EndInv, Unheld
<1> QED
    BY <1>3, <1>4, <1>5 DEF Held

LEMMA ClosingMore ==
    ASSUME NEW u \in Seq(Frames), NEW f \in Frames, NEW b, NEW S
    PROVE  ClosingAt(u, b, S) \/ (f.k = "close" /\ f.b = b /\ f.stage \in S)
              => ClosingAt(Append(u, f), b, S)
<1> DEFINE t == Append(u, f)
<1>1. /\ Len(t) = Len(u) + 1 /\ t[Len(u) + 1] = f /\ Len(u) \in Nat
      /\ \A n \in 1 .. Len(u) : t[n] = u[n]
    BY OneMore
<1> HIDE DEF t
<1>2. ASSUME ClosingAt(u, b, S) PROVE ClosingAt(t, b, S)
    <2>1. PICK n \in 1 .. Len(u) : u[n].k = "close" /\ u[n].b = b /\ u[n].stage \in S
        BY <1>2 DEF ClosingAt
    <2>2. n \in 1 .. Len(t) /\ t[n] = u[n]
        BY <1>1
    <2> QED
        BY <2>1, <2>2 DEF ClosingAt
<1>3. ASSUME f.k = "close" /\ f.b = b /\ f.stage \in S PROVE ClosingAt(t, b, S)
    <2>1. Len(u) + 1 \in 1 .. Len(t)
        BY <1>1
    <2> QED
        BY <1>1, <1>3, <2>1 DEF ClosingAt
<1> QED
    BY <1>2, <1>3 DEF t

LEMMA HeldMore ==
    ASSUME NEW X, NEW u \in Seq(Frames), Held(u, X), NEW f \in Frames, Grown(f.b),
           f.k = "close" /\ f.by = "sweep" => Len(u) > 0 /\ u[1].k = "sweep" /\ u[1].b = f.b
    PROVE  Held(Append(u, f), X) /\ Append(u, f) \in Seq(Frames)
<1> DEFINE t == Append(u, f)
<1>1. /\ t \in Seq(Frames) /\ Len(t) = Len(u) + 1 /\ t[Len(u) + 1] = f /\ Len(u) \in Nat
      /\ \A n \in 1 .. Len(u) : t[n] = u[n]
    BY OneMore
<1>2. ASSUME NEW b \in Boxes, b \notin X, NEW S, ClosingAt(stack, b, S) PROVE ClosingAt(t, b, S)
    BY <1>2, ClosingMore DEF Held
<1> HIDE DEF t
<1>3. \A n \in 1 .. Len(t) : (n \in 1 .. Len(u) /\ t[n] = u[n] /\ t[1] = u[1]) \/ t[n] = f
    BY <1>1
<1>4. SweptFits(t)
    <2>1. SweptFits(u)
        BY DEF Held
    <2>2. Len(u) > 0 => t[1] = u[1]
        BY <1>1
    <2> QED
        BY <1>3, <2>1, <2>2 DEF SweptFits
<1>5. ASSUME NEW b \in Boxes, boxes[b].made = "unborn", NEW n \in 1 .. Len(t) PROVE t[n].b # b
    BY <1>3, <1>5 DEF Held, Grown
<1> QED
    BY <1>1, <1>2, <1>4, <1>5 DEF Held, t

LEMMA DrainsBelow ==
    ASSUME Inv, stack # <<>>, NEW i, InDrain(stack, i), ~(Here.k = "drain" /\ i \in Here.left)
    PROVE  InDrain(Below, i)
<1>1. /\ Len(stack) \in Nat /\ Len(Below) = Len(stack) - 1 /\ Here = stack[Len(stack)]
      /\ \A n \in 1 .. Len(stack) - 1 : Below[n] = stack[n]
    BY Shapes
<1>2. PICK n \in 1 .. Len(stack) : stack[n].k = "drain" /\ i \in stack[n].left
    BY DEF InDrain
<1>3. n # Len(stack)
    BY <1>1, <1>2
<1>4. n \in 1 .. Len(stack) - 1 /\ n \in 1 .. Len(Below)
    BY <1>1, <1>2, <1>3
<1> QED
    BY <1>1, <1>2, <1>4 DEF InDrain

LEMMA DrainsMore ==
    ASSUME NEW u \in Seq(Frames), NEW f \in Frames, NEW i
    PROVE  InDrain(u, i) \/ (f.k = "drain" /\ i \in f.left) => InDrain(Append(u, f), i)
<1> DEFINE t == Append(u, f)
<1>1. /\ Len(t) = Len(u) + 1 /\ t[Len(u) + 1] = f /\ Len(u) \in Nat
      /\ \A n \in 1 .. Len(u) : t[n] = u[n]
    BY OneMore
<1> HIDE DEF t
<1>2. ASSUME InDrain(u, i) PROVE InDrain(t, i)
    <2>1. PICK n \in 1 .. Len(u) : u[n].k = "drain" /\ i \in u[n].left
        BY <1>2 DEF InDrain
    <2>2. n \in 1 .. Len(t) /\ t[n] = u[n]
        BY <1>1
    <2> QED
        BY <2>1, <2>2 DEF InDrain
<1>3. ASSUME f.k = "drain" /\ i \in f.left PROVE InDrain(t, i)
    <2>1. Len(u) + 1 \in 1 .. Len(t)
        BY <1>1
    <2> QED
        BY <1>1, <1>3, <2>1 DEF InDrain
<1> QED
    BY <1>2, <1>3 DEF t

--------------------------------------------------------------------------------
(* Steps by their parts.                                                        *)

LEMMA BoxStays ==
    ASSUME EndInv, NEW b \in Boxes, NEW x, x.made = boxes[b].made, x.closed = boxes[b].closed,
           x.lua = boxes[b].lua, NEW X, NEW t, Held(t, X), b \notin X
    PROVE  BoxEnds(t, x, liveList, b)
<1>1. BoxEnds(stack, boxes[b], liveList, b)
    BY DEF EndInv
<1>2. \A S : ClosingAt(stack, b, S) => ClosingAt(t, b, S)
    BY DEF Held
<1>3. ClosingAt(stack, b, Stages) => ClosingAt(t, b, Stages)
    BY <1>2
<1>4. ClosingAt(stack, b, {"own", "lua"}) => ClosingAt(t, b, {"own", "lua"})
    BY <1>2
<1> QED
    BY <1>1, <1>3, <1>4 DEF BoxEnds

LEMMA ItemStays ==
    ASSUME EndInv, NEW i \in Items, NEW y, y.at = items[i].at, y.of = items[i].of,
           NEW X, NEW t, Held(t, X), NEW bx,
           y.at \in {"lua", "queue"} => y.of \notin X,
           y.at \in {"lua", "queue"} /\ y.of \in Boxes /\ boxes[y.of].lua = "up" => bx[y.of].lua = "up",
           y.at = "detached" /\ InDrain(stack, i) => InDrain(t, i)
    PROVE  ItemEnds(t, bx, y, i)
<1>1. ItemEnds(stack, boxes, items[i], i)
    BY DEF EndInv
<1>2. ASSUME y.at \in {"lua", "queue"}
      PROVE  y.of \in Boxes /\ \A S : ClosingAt(stack, y.of, S) => ClosingAt(t, y.of, S)
    BY <1>1, <1>2 DEF ItemEnds, Held
<1>3. CASE y.at = "lua"
    <2>1. ClosingAt(stack, y.of, {"abandon"}) => ClosingAt(t, y.of, {"abandon"})
        BY <1>2, <1>3
    <2> QED
        BY <1>1, <1>2, <1>3, <2>1 DEF ItemEnds
<1>4. CASE y.at = "queue"
    <2>1. ClosingAt(stack, y.of, {"abandon", "drain"}) => ClosingAt(t, y.of, {"abandon", "drain"})
        BY <1>2, <1>4
    <2> QED
        BY <1>1, <1>2, <1>4, <2>1 DEF ItemEnds
<1>5. CASE y.at \notin {"lua", "queue"}
    BY <1>1, <1>5 DEF ItemEnds
<1> QED
    BY <1>3, <1>4, <1>5

LEMMA ItemGone ==
    ASSUME NEW s, NEW bx, NEW y, NEW i, y.at \notin {"lua", "queue", "detached"}
    PROVE  ItemEnds(s, bx, y, i)
    BY DEF ItemEnds

(* The sandboxes of X are those the step is about.                              *)
Elsewhere(X) ==
    \A c \in Boxes : c \notin X => /\ boxes'[c].made = boxes[c].made
                                   /\ boxes'[c].closed = boxes[c].closed
                                   /\ boxes'[c].lua = boxes[c].lua

(* No sandbox yet unborn comes to be held.                                      *)
NoneHeld ==
    \A c \in Boxes : boxes[c].made = "unborn" /\ boxes'[c].made = "unborn" =>
        /\ ~boxes'[c].var
        /\ \A h \in Handles : handles'[h].of # c
        /\ \A i \in Items : items'[i].refs # c

ItemsEnd == \A i \in Items : ItemEnds(stack', boxes', items'[i], i)

LEMMA EndStep ==
    ASSUME EndInv, request' # "over", liveList' = liveList, NEW X,
           Held(stack', X), Elsewhere(X),
           \A c \in Boxes : c \in X => /\ BoxEnds(stack', boxes'[c], liveList, c)
                                       /\ (boxes'[c].made = "unborn" => boxes[c].made = "unborn"),
           Awaited', NoneHeld, ItemsEnd
    PROVE  EndInv'
<1>1. Once(liveList')
    BY DEF EndInv
<1>2. ASSUME NEW c \in Boxes PROVE BoxEnds(stack', boxes'[c], liveList', c)
    <2>1. CASE c \in X
        BY <2>1
    <2>2. CASE c \notin X
        <3>1. /\ boxes'[c].made = boxes[c].made /\ boxes'[c].closed = boxes[c].closed
              /\ boxes'[c].lua = boxes[c].lua
            BY <2>2 DEF Elsewhere
        <3>2. BoxEnds(stack', boxes'[c], liveList, c)
            BY <2>2, <3>1, BoxStays
        <3> QED
            BY <3>2
    <2> QED
        BY <2>1, <2>2
<1>3. SweptFits(stack')
    BY DEF Held
<1>4. ASSUME NEW c \in Boxes, boxes'[c].made = "unborn" PROVE Unheld(stack, c)'
    <2>1. boxes[c].made = "unborn"
        BY <1>4 DEF Elsewhere
    <2>2. \A n \in 1 .. Len(stack') : stack'[n].b # c
        BY <2>1 DEF Held
    <2> QED
        BY <1>4, <2>1, <2>2 DEF NoneHeld, Unheld
<1> QED
    BY <1>1, <1>2, <1>3, <1>4 DEF EndInv, ItemsEnd
LEMMA ItemsStay ==
    ASSUME EndInv, items' = items, Held(stack', {}),
           \A c \in Boxes : boxes[c].lua = "up" => boxes'[c].lua = "up",
           \A i \in Items : InDrain(stack, i) => InDrain(stack', i)
    PROVE  ItemsEnd
<1>1. ASSUME NEW i \in Items PROVE ItemEnds(stack', boxes', items'[i], i)
    BY ItemStays
<1> QED
    BY <1>1 DEF ItemsEnd

LEMMA AwaitedStays ==
    ASSUME EndInv, Dying = {}, liveList' = liveList,
           \A c \in Boxes : boxes'[c].lua = "up" /\ ~boxes'[c].closed =>
                boxes[c].lua = "up" /\ ~boxes[c].closed
    PROVE  Awaited'
<1>1. \A c \in Boxes : boxes[c].lua = "up" /\ ~boxes[c].closed => Listed(liveList, c)
    BY DEF EndInv, Awaited
<1> QED
    BY <1>1 DEF Awaited

LEMMA NoneHeldStays ==
    ASSUME EndInv,
           \A c \in Boxes : boxes'[c].var => boxes[c].var \/ boxes[c].made # "unborn",
           \A h \in Handles : handles'[h].of = handles[h].of \/ Grown(handles'[h].of),
           \A i \in Items : items'[i].refs = items[i].refs \/ Grown(items'[i].refs)
    PROVE  NoneHeld
    BY DEF NoneHeld, EndInv, Unheld, Grown

LEMMA QuietEnds ==
    ASSUME EndInv, Dying = {}, request' # "over", liveList' = liveList,
           Held(stack', {}), Elsewhere({}), NoneHeld, ItemsEnd
    PROVE  EndInv'
<1>1. Awaited'
    <2>1. \A c \in Boxes : boxes'[c].closed = boxes[c].closed /\ boxes'[c].lua = boxes[c].lua
        BY DEF Elsewhere
    <2> QED
        BY <2>1, AwaitedStays
<1> QED
    BY <1>1, EndStep

LEMMA OneElsewhere ==
    ASSUME NEW b, NEW r, boxes \in [Boxes -> BoxRecord], boxes' = [boxes EXCEPT ![b] = r],
           b \in Boxes => r.made = boxes[b].made /\ r.closed = boxes[b].closed
                          /\ r.lua = boxes[b].lua /\ (r.var => boxes[b].var)
    PROVE  /\ Elsewhere({}) /\ \A c \in Boxes : boxes'[c].lua = boxes[c].lua
           /\ \A c \in Boxes : boxes'[c].var => boxes[c].var \/ boxes[c].made # "unborn"
<1>1. \A c \in Boxes : boxes'[c] = IF c = b THEN r ELSE boxes[c]
    OBVIOUS
<1> QED
    BY <1>1 DEF Elsewhere

LEMMA SameElsewhere ==
    ASSUME boxes' = boxes
    PROVE  /\ \A X : Elsewhere(X)
           /\ \A c \in Boxes : boxes'[c].lua = boxes[c].lua
           /\ \A c \in Boxes : boxes'[c].var => boxes[c].var \/ boxes[c].made # "unborn"
    BY DEF Elsewhere

LEMMA NobodyGrown == Grown(Nothing)
    BY LifecycleAssumption DEF Grown

LEMMA HereGrown ==
    ASSUME Inv, EndInv, stack # <<>>
    PROVE  Grown(Here.b)
<1>1. Len(stack) \in 1 .. Len(stack) /\ Here = stack[Len(stack)]
    BY Shapes
<1> QED
    BY <1>1 DEF Grown, EndInv, Unheld

LEMMA SameHeld ==
    ASSUME EndInv, stack' = stack
    PROVE  Held(stack', {}) /\ \A i \in Items : InDrain(stack, i) => InDrain(stack', i)
    BY HeldStack

--------------------------------------------------------------------------------
(* Building and lending.                                                        *)

LEMMA LinkedFirst ==
    ASSUME liveList \in Seq(Boxes), NEW b \in Boxes, ~Listed(liveList, b), Once(liveList)
    PROVE  /\ Once(<<b>> \o liveList)
           /\ \A c : Listed(<<b>> \o liveList, c) <=> c = b \/ Listed(liveList, c)
<1> DEFINE l == Len(liveList)
           t == <<b>> \o liveList
<1>1. /\ l \in Nat /\ Len(t) = l + 1 /\ t[1] = b
      /\ \A n \in 2 .. l + 1 : t[n] = liveList[n - 1]
    OBVIOUS
<1> HIDE DEF t
<1>2. \A n \in 1 .. l + 1 : n = 1 \/ (n \in 2 .. l + 1 /\ n - 1 \in 1 .. l)
    BY <1>1
<1>3. ASSUME NEW n \in 1 .. l + 1, NEW m \in 1 .. l + 1, n # m PROVE t[n] # t[m]
    <2>1. CASE n = 1
        <3>1. m \in 2 .. l + 1 /\ m - 1 \in 1 .. l
            BY <1>2, <1>3, <2>1
        <3>2. t[m] = liveList[m - 1]
            BY <1>1, <3>1
        <3> QED
            BY <1>1, <2>1, <3>1, <3>2 DEF Listed
    <2>2. CASE m = 1
        <3>1. n \in 2 .. l + 1 /\ n - 1 \in 1 .. l
            BY <1>2, <1>3, <2>2
        <3>2. t[n] = liveList[n - 1]
            BY <1>1, <3>1
        <3> QED
            BY <1>1, <2>2, <3>1, <3>2 DEF Listed
    <2>3. CASE n # 1 /\ m # 1
        <3>1. /\ n \in 2 .. l + 1 /\ n - 1 \in 1 .. l /\ m \in 2 .. l + 1 /\ m - 1 \in 1 .. l
              /\ n - 1 # m - 1
            BY <1>1, <1>2, <1>3, <2>3
        <3>2. t[n] = liveList[n - 1] /\ t[m] = liveList[m - 1]
            BY <1>1, <3>1
        <3>3. liveList[n - 1] # liveList[m - 1]
            BY <3>1 DEF Once
        <3> QED
            BY <3>2, <3>3
    <2> QED
        BY <2>1, <2>2, <2>3
<1>4. ASSUME NEW c, Listed(t, c) PROVE c = b \/ Listed(liveList, c)
    <2>1. PICK n \in 1 .. l + 1 : t[n] = c
        BY <1>1, <1>4 DEF Listed
    <2>2. CASE n = 1
        BY <1>1, <2>1, <2>2
    <2>3. CASE n # 1
        <3>1. n \in 2 .. l + 1 /\ n - 1 \in 1 .. l
            BY <1>2, <2>3
        <3> QED
            BY <1>1, <2>1, <3>1 DEF Listed
    <2> QED
        BY <2>2, <2>3
<1>5. ASSUME NEW c, Listed(liveList, c) PROVE Listed(t, c)
    <2>1. PICK n \in 1 .. l : liveList[n] = c
        BY <1>5 DEF Listed
    <2>2. n + 1 \in 2 .. l + 1 /\ (n + 1) - 1 = n
        BY <1>1
    <2>3. t[n + 1] = c /\ n + 1 \in 1 .. Len(t)
        BY <1>1, <2>1, <2>2
    <2> QED
        BY <2>3 DEF Listed
<1>6. Listed(t, b)
    <2>1. 1 \in 1 .. Len(t)
        BY <1>1
    <2> QED
        BY <1>1, <2>1 DEF Listed
<1> QED
    BY <1>1, <1>3, <1>4, <1>5, <1>6 DEF Once, t

LEMMA ConstructEnds ==
    ASSUME Inv, EndInv, request # "over", NEW b \in Boxes, Construct(b) PROVE EndInv'
<1> DEFINE r == [boxes[b] EXCEPT !.made = "made", !.lua = "up", !.var = TRUE]
<1>1. /\ Dying = {} /\ boxes[b].made = "unborn" /\ boxes' = [boxes EXCEPT ![b] = r]
      /\ liveList' = <<b>> \o liveList /\ items' = items /\ handles' = handles
      /\ stack' = stack /\ request' = request
    BY DEF Construct, HostRuns
<1>2. /\ boxes \in [Boxes -> BoxRecord] /\ boxes[b] \in BoxRecord /\ liveList \in Seq(Boxes)
      /\ ~boxes[b].closed /\ boxes[b].lua = "none"
    BY <1>1 DEF Inv, Born
<1>3. r.made = "made" /\ r.lua = "up" /\ ~r.closed
    BY <1>2 DEF BoxRecord
<1> HIDE DEF r
<1>4. boxes'[b] = r /\ \A c \in Boxes : c # b => boxes'[c] = boxes[c]
    BY <1>1, <1>2
<1>5. ~Listed(liveList, b)
    BY <1>1 DEF EndInv, BoxEnds
<1>6. /\ Once(liveList')
      /\ \A c : Listed(liveList', c) <=> c = b \/ Listed(liveList, c)
    BY <1>1, <1>2, <1>5, LinkedFirst DEF EndInv
<1>7. ASSUME NEW c \in Boxes PROVE BoxEnds(stack', boxes'[c], liveList', c)
    <2>1. CASE c = b
        BY <1>3, <1>4, <2>1 DEF BoxEnds
    <2>2. CASE c # b
        BY <1>1, <1>4, <1>6, <2>2 DEF EndInv, BoxEnds
    <2> QED
        BY <2>1, <2>2
<1>8. Awaited'
    <2>1. ASSUME NEW c \in Boxes, boxes'[c].lua = "up", ~boxes'[c].closed PROVE Listed(liveList', c)
        <3>1. CASE c = b
            BY <1>6, <3>1
        <3>2. CASE c # b
            BY <1>1, <1>4, <1>6, <2>1, <3>2 DEF EndInv, Awaited
        <3> QED
            BY <3>1, <3>2
    <2> QED
        BY <2>1 DEF Awaited
<1>9. ItemsEnd
    <2>1. \A c \in Boxes : boxes[c].lua = "up" => boxes'[c].lua = "up"
        BY <1>3, <1>4
    <2>2. Held(stack', {}) /\ \A i \in Items : InDrain(stack, i) => InDrain(stack', i)
        BY <1>1, SameHeld
    <2> QED
        BY <1>1, <2>1, <2>2, ItemsStay
<1>10. ASSUME NEW c \in Boxes, boxes'[c].made = "unborn" PROVE Unheld(stack, c)'
    <2>1. c # b
        BY <1>3, <1>4, <1>10
    <2>2. Unheld(stack, c)
        BY <1>4, <1>10, <2>1 DEF EndInv
    <2> QED
        BY <1>1, <1>4, <2>1, <2>2 DEF Unheld
<1> QED
    BY <1>1, <1>6, <1>7, <1>8, <1>9, <1>10 DEF EndInv, ItemsEnd

LEMMA ConstructFailsEnds ==
    ASSUME Inv, EndInv, request # "over", NEW b \in Boxes, ConstructFails(b) PROVE EndInv'
<1>1. PICK lua \in {"none", "up"} :
        boxes' = [boxes EXCEPT ![b] = [boxes[b] EXCEPT !.made = "made", !.lua = lua]]
    BY DEF ConstructFails
<1> DEFINE r == [boxes[b] EXCEPT !.made = "made", !.lua = lua]
<1>2. /\ Dying = {} /\ boxes[b].made = "unborn" /\ boxes' = [boxes EXCEPT ![b] = r]
      /\ liveList' = liveList /\ items' = items /\ handles' = handles
      /\ stack' = stack /\ request' = request
    BY <1>1 DEF ConstructFails, HostRuns
<1>3. /\ boxes \in [Boxes -> BoxRecord] /\ boxes[b] \in BoxRecord /\ ~boxes[b].closed
      /\ boxes[b].lua = "none" /\ stack \in Seq(Frames)
    BY <1>2, Shapes DEF Inv, Born
<1>4. r.made = "made" /\ r.lua = lua /\ ~r.closed /\ r.var = boxes[b].var
    BY <1>3 DEF BoxRecord
<1> HIDE DEF r
<1>5. boxes'[b] = r /\ \A c \in Boxes : c # b => boxes'[c] = boxes[c]
    BY <1>2, <1>3
<1>6. Unheld(stack, b) /\ ~Listed(liveList, b)
    BY <1>2 DEF EndInv, BoxEnds
<1>7. Elsewhere({b})
    BY <1>5 DEF Elsewhere
<1>8. Held(stack', {b}) /\ Held(stack', {})
    BY <1>2, HeldStack DEF Held
<1>9. BoxEnds(stack', boxes'[b], liveList, b)
    BY <1>4, <1>5, <1>6 DEF BoxEnds
<1>10. Awaited'
    <2>1. ASSUME NEW c \in Boxes, boxes'[c].lua = "up", ~boxes'[c].closed
          PROVE  Listed(liveList', c) \/ c \in Dying'
        <3>1. CASE c = b
            <4>1. DOMAIN stack = 1 .. Len(stack)
                BY <1>3
            <4>2. \A n \in DOMAIN stack : stack[n].b # b
                BY <1>6, <4>1 DEF Unheld
            <4>3. ~Referenced(b)'
                BY <1>2, <1>4, <1>5, <1>6, <4>2 DEF Unheld, Referenced
            <4>4. ~\E n \in DOMAIN stack' : /\ stack'[n].k = "close" /\ stack'[n].b = b
                                            /\ stack'[n].by = "free"
                BY <1>2, <4>2
            <4> QED
                BY <1>4, <1>5, <3>1, <4>3, <4>4 DEF Dying
        <3>2. CASE c # b
            BY <1>2, <1>5, <2>1, <3>2 DEF EndInv, Awaited
        <3> QED
            BY <3>1, <3>2
    <2> QED
        BY <2>1 DEF Awaited
<1>11. NoneHeld
    <2>1. \A c \in Boxes : boxes'[c].var => boxes[c].var \/ boxes[c].made # "unborn"
        BY <1>4, <1>5
    <2> QED
        BY <1>2, <2>1, NoneHeldStays
<1>12. ItemsEnd
    <2>1. \A c \in Boxes : boxes[c].lua = "up" => boxes'[c].lua = "up"
        BY <1>3, <1>5
    <2> QED
        BY <1>2, <1>8, <2>1, ItemsStay
<1>13. \A c \in Boxes : c \in {b} => /\ BoxEnds(stack', boxes'[c], liveList, c)
                                     /\ (boxes'[c].made = "unborn" => boxes[c].made = "unborn")
    BY <1>2, <1>9
<1> QED
    BY <1>2, <1>7, <1>8, <1>10, <1>11, <1>12, <1>13, EndStep
LEMMA HandOverEnds ==
    ASSUME Inv, EndInv, request # "over", NEW b \in Boxes, NEW i \in Items, HandOver(b, i)
    PROVE  EndInv'
<1>1. PICK refs \in {r \in Boxes : boxes[r].var} \cup {Nothing}, proxy \in BOOLEAN :
        items' = [items EXCEPT ![i] = [at |-> "lua", of |-> b, refs |-> refs, proxy |-> proxy]]
    BY DEF HandOver
<1>2. /\ Dying = {} /\ boxes[b].lua = "up" /\ boxes' = boxes /\ liveList' = liveList
      /\ handles' = handles /\ stack' = stack /\ request' = request
      /\ items \in [Items -> ItemRecord]
    BY DEF HandOver, HostRuns, Usable, Inv
<1>3. Grown(refs)
    BY NobodyGrown DEF Grown, EndInv, Unheld
<1>4. /\ items'[i].at = "lua" /\ items'[i].of = b /\ items'[i].refs = refs
      /\ \A j \in Items : j # i => items'[j] = items[j]
    BY <1>1, <1>2
<1>5. Held(stack', {}) /\ \A j \in Items : InDrain(stack, j) => InDrain(stack', j)
    BY <1>2, SameHeld
<1>6. Elsewhere({}) /\ \A c \in Boxes : boxes'[c].var => boxes[c].var \/ boxes[c].made # "unborn"
    BY <1>2, SameElsewhere
<1>7. NoneHeld
    <2>1. \A j \in Items : items'[j].refs = items[j].refs \/ Grown(items'[j].refs)
        BY <1>3, <1>4
    <2>2. \A h \in Handles : handles'[h].of = handles[h].of
        BY <1>2
    <2> QED
        BY <1>6, <2>1, <2>2, NoneHeldStays
<1>8. ASSUME NEW j \in Items PROVE ItemEnds(stack', boxes', items'[j], j)
    <2>1. CASE j = i
        BY <1>2, <1>4, <2>1 DEF ItemEnds
    <2>2. CASE j # i
        <3>1. ItemEnds(stack, boxes, items[j], j)
            BY DEF EndInv
        <3> QED
            BY <1>2, <1>4, <2>2, <3>1
    <2> QED
        BY <2>1, <2>2
<1> QED
    BY <1>2, <1>5, <1>6, <1>7, <1>8, QuietEnds DEF ItemsEnd

LEMMA SmallDataEnds ==
    ASSUME Inv, EndInv, request # "over",
           \/ \E b \in Boxes : DropVariable(b) \/ MakeHandleFails(b)
           \/ \E b \in Boxes, h \in Handles : MakeHandle(b, h)
           \/ \E h \in Handles : DropHandle(h)
    PROVE  EndInv'
<1>1. /\ Dying = {} /\ liveList' = liveList /\ items' = items /\ stack' = stack
      /\ request' = request
    BY DEF DropVariable, MakeHandleFails, MakeHandle, DropHandle, HostRuns
<1>2. boxes \in [Boxes -> BoxRecord]
    BY DEF Inv
<1>3. /\ Elsewhere({}) /\ \A c \in Boxes : boxes'[c].lua = boxes[c].lua
      /\ \A c \in Boxes : boxes'[c].var => boxes[c].var \/ boxes[c].made # "unborn"
    <2>1. CASE boxes' = boxes
        BY <2>1, SameElsewhere
    <2>2. ASSUME NEW b \in Boxes, DropVariable(b)
          PROVE  /\ Elsewhere({}) /\ \A c \in Boxes : boxes'[c].lua = boxes[c].lua
                 /\ \A c \in Boxes : boxes'[c].var => boxes[c].var \/ boxes[c].made # "unborn"
        <3> DEFINE r == [boxes[b] EXCEPT !.var = FALSE]
        <3>1. boxes' = [boxes EXCEPT ![b] = r] /\ boxes[b] \in BoxRecord
            BY <1>2, <2>2 DEF DropVariable
        <3>2. r.made = boxes[b].made /\ r.closed = boxes[b].closed /\ r.lua = boxes[b].lua /\ ~r.var
            BY <3>1 DEF BoxRecord
        <3> HIDE DEF r
        <3> QED
            BY <1>2, <3>1, <3>2, OneElsewhere
    <2> QED
        BY <2>1, <2>2 DEF MakeHandleFails, MakeHandle, DropHandle
<1>4. \A h \in Handles : handles'[h].of = handles[h].of \/ Grown(handles'[h].of)
    <2>1. CASE handles' = handles
        BY <2>1
    <2>2. ASSUME NEW b \in Boxes, NEW h \in Handles, MakeHandle(b, h)
          PROVE  \A g \in Handles : handles'[g].of = handles[g].of \/ Grown(handles'[g].of)
        <3>1. boxes[b].made = "made"
            BY <2>2 DEF MakeHandle, Usable
        <3>2. PICK n : handles' = [handles EXCEPT ![h] = [of |-> b, slot |-> n]]
            BY <2>2 DEF MakeHandle
        <3>3. \A g \in Handles : handles'[g].of = handles[g].of \/ handles'[g].of = b
            <4>1. CASE h \in DOMAIN handles
                BY <3>2, <4>1
            <4>2. CASE h \notin DOMAIN handles
                BY <3>2, <4>2
            <4> QED
                BY <4>1, <4>2
        <3>4. Grown(b)
            BY <3>1 DEF Grown
        <3> QED
            BY <3>3, <3>4
    <2>3. ASSUME NEW h \in Handles, DropHandle(h)
          PROVE  \A g \in Handles : handles'[g].of = handles[g].of \/ Grown(handles'[g].of)
        <3>1. handles' = [handles EXCEPT ![h] = [of |-> Nothing, slot |-> 0]]
            BY <2>3 DEF DropHandle
        <3>2. \A g \in Handles : handles'[g].of = handles[g].of \/ handles'[g].of = Nothing
            <4>1. CASE h \in DOMAIN handles
                BY <3>1, <4>1
            <4>2. CASE h \notin DOMAIN handles
                BY <3>1, <4>2
            <4> QED
                BY <4>1, <4>2
        <3> QED
            BY <3>2, NobodyGrown
    <2> QED
        BY <2>1, <2>2, <2>3 DEF DropVariable, MakeHandleFails
<1>5. NoneHeld
    <2>1. \A i \in Items : items'[i].refs = items[i].refs
        BY <1>1
    <2> QED
        BY <1>3, <1>4, <2>1, NoneHeldStays
<1>6. Held(stack', {}) /\ \A i \in Items : InDrain(stack, i) => InDrain(stack', i)
    BY <1>1, SameHeld
<1>7. ItemsEnd
    <2>1. \A c \in Boxes : boxes[c].lua = "up" => boxes'[c].lua = "up"
        BY <1>3
    <2> QED
        BY <1>1, <1>6, <2>1, ItemsStay
<1> QED
    BY <1>1, <1>3, <1>5, <1>6, <1>7, QuietEnds

(* Steps that change neither what is held nor the handles. *)
LEMMA NothingNewHeld ==
    ASSUME EndInv, handles' = handles, items' = items,
           \A c \in Boxes : boxes'[c].var => boxes[c].var \/ boxes[c].made # "unborn"
    PROVE  NoneHeld
<1>1. \A h \in Handles : handles'[h].of = handles[h].of
    OBVIOUS
<1>2. \A i \in Items : items'[i].refs = items[i].refs
    OBVIOUS
<1> QED
    BY <1>1, <1>2, NoneHeldStays

LEMMA FinalisedEnds ==
    ASSUME Inv, EndInv, request # "over", NEW i \in Items, Finalised(i) PROVE EndInv'
<1>1. /\ stack # <<>> /\ Here.k = "lua" /\ Dying = {} /\ items[i].of = Here.b /\ items[i].at = "lua"
      /\ items' = [items EXCEPT ![i].at = "queue"]
      /\ boxes' = boxes /\ liveList' = liveList /\ handles' = handles /\ stack' = stack
      /\ request' = request
    BY DEF Finalised, HereIs, At
<1>2. Here.b \in Boxes /\ boxes[Here.b].lua = "up"
    <2>1. Here \in Frames /\ Fits(Here, boxes, items)
        BY <1>1, Shapes
    <2> QED
        BY <1>1, <2>1 DEF Frames, Fits, LuaFits
<1>3. /\ items'[i].at = "queue" /\ items'[i].of = Here.b /\ items'[i].refs = items[i].refs
      /\ \A j \in Items : j # i => items'[j] = items[j]
    <2>1. items \in [Items -> ItemRecord] /\ items[i] \in ItemRecord
        BY DEF Inv
    <2> QED
        BY <1>1, <2>1 DEF ItemRecord
<1>4. Held(stack', {}) /\ \A j \in Items : InDrain(stack, j) => InDrain(stack', j)
    BY <1>1, SameHeld
<1>5. Elsewhere({}) /\ \A c \in Boxes : boxes'[c].var => boxes[c].var \/ boxes[c].made # "unborn"
    BY <1>1, SameElsewhere
<1>6. NoneHeld
    <2>1. \A j \in Items : items'[j].refs = items[j].refs
        BY <1>3
    <2>2. \A h \in Handles : handles'[h].of = handles[h].of
        BY <1>1
    <2> QED
        BY <1>5, <2>1, <2>2, NoneHeldStays
<1>7. ASSUME NEW j \in Items PROVE ItemEnds(stack', boxes', items'[j], j)
    <2>1. CASE j = i
        BY <1>1, <1>2, <1>3, <2>1 DEF ItemEnds
    <2>2. CASE j # i
        BY <1>1, <1>3, <2>2 DEF EndInv
    <2> QED
        BY <2>1, <2>2
<1> QED
    BY <1>1, <1>4, <1>5, <1>6, <1>7, QuietEnds DEF ItemsEnd

--------------------------------------------------------------------------------
(* Calling and returning.                                                       *)

LEMMA PlainFrames ==
    ASSUME NEW b \in Boxes, NEW k \in {"lua", "php"}
    PROVE  /\ [k |-> k, b |-> b] \in Frames /\ [k |-> k, b |-> b].k # "close"
           /\ [k |-> k, b |-> b].b = b
    BY DEF Frames

LEMMA DtorFrames ==
    ASSUME NEW i \in Items \cup {Nothing}
    PROVE  /\ Destructor(i) \in Frames /\ Destructor(i).k = "dtor" /\ Grown(Destructor(i).b)
<1>1. Destructor(i) \in Frames /\ Destructor(i).k = "dtor" /\ Destructor(i).b = Nothing
    BY DEF Frames, Destructor
<1> QED
    BY <1>1, NobodyGrown

(* A frame pushed on the stack. *)
LEMMA PushEnds ==
    ASSUME Inv, EndInv, request' # "over", Dying = {}, liveList' = liveList, items' = items,
           handles' = handles, Elsewhere({}),
           \A c \in Boxes : boxes'[c].lua = boxes[c].lua,
           \A c \in Boxes : boxes'[c].var => boxes[c].var \/ boxes[c].made # "unborn",
           NEW f \in Frames, f.k # "close", Grown(f.b), stack' = Append(stack, f)
    PROVE  EndInv'
<1>1. stack \in Seq(Frames)
    BY Shapes
<1>2. Held(stack', {})
    BY <1>1, HeldStack, HeldMore
<1>3. \A i \in Items : InDrain(stack, i) => InDrain(stack', i)
    BY <1>1, DrainsMore
<1>4. ItemsEnd
    BY <1>2, <1>3, ItemsStay
<1>5. NoneHeld
    BY NothingNewHeld
<1> QED
    BY <1>2, <1>4, <1>5, QuietEnds

LEMMA CallInEnds ==
    ASSUME Inv, EndInv, request # "over", NEW b \in Boxes, CallIn(b) PROVE EndInv'
<1> DEFINE f == [k |-> "lua", b |-> b]
           r == [boxes[b] EXCEPT !.inLua = boxes[b].inLua + 1]
<1>1. /\ Dying = {} /\ boxes[b].made = "made" /\ stack' = Append(stack, f)
      /\ boxes' = [boxes EXCEPT ![b] = r]
      /\ liveList' = liveList /\ items' = items /\ handles' = handles /\ request' = request
    BY DEF CallIn, HostRuns, Usable, PushFrame
<1>2. boxes \in [Boxes -> BoxRecord] /\ boxes[b] \in BoxRecord
    BY DEF Inv
<1>3. /\ r.made = boxes[b].made /\ r.closed = boxes[b].closed /\ r.lua = boxes[b].lua
      /\ r.var = boxes[b].var
    BY <1>2 DEF BoxRecord
<1>4. f \in Frames /\ f.k # "close" /\ f.b = b
    BY PlainFrames
<1>5. Grown(f.b)
    BY <1>1, <1>4 DEF Grown
<1> HIDE DEF r, f
<1>6. /\ Elsewhere({}) /\ \A c \in Boxes : boxes'[c].lua = boxes[c].lua
      /\ \A c \in Boxes : boxes'[c].var => boxes[c].var \/ boxes[c].made # "unborn"
    BY <1>1, <1>2, <1>3, OneElsewhere
<1> QED
    BY <1>1, <1>4, <1>5, <1>6, PushEnds

LEMMA CallOutEnds ==
    ASSUME Inv, EndInv, request # "over", CallOut PROVE EndInv'
<1> DEFINE b == Here.b
           f == [k |-> "php", b |-> b]
           r == [boxes[b] EXCEPT !.inPhp = boxes[b].inPhp + 1]
<1>1. /\ stack # <<>> /\ Here.k = "lua" /\ Dying = {} /\ stack' = Append(stack, f)
      /\ boxes' = [boxes EXCEPT ![b] = r]
      /\ liveList' = liveList /\ items' = items /\ handles' = handles /\ request' = request
    BY DEF CallOut, HereIs, PushFrame
<1>2. b \in Boxes /\ Grown(b)
    <2>1. Here \in Frames
        BY <1>1, Shapes
    <2> QED
        BY <1>1, <2>1, HereGrown DEF Frames
<1> HIDE DEF b
<1>3. boxes \in [Boxes -> BoxRecord] /\ boxes[b] \in BoxRecord
    BY <1>2 DEF Inv
<1>4. /\ r.made = boxes[b].made /\ r.closed = boxes[b].closed /\ r.lua = boxes[b].lua
      /\ r.var = boxes[b].var
    BY <1>3 DEF BoxRecord
<1>5. f \in Frames /\ f.k # "close" /\ f.b = b
    BY <1>2, PlainFrames
<1> HIDE DEF r, f
<1>6. /\ Elsewhere({}) /\ \A c \in Boxes : boxes'[c].lua = boxes[c].lua
      /\ \A c \in Boxes : boxes'[c].var => boxes[c].var \/ boxes[c].made # "unborn"
    BY <1>1, <1>3, <1>4, OneElsewhere
<1> QED
    BY <1>1, <1>2, <1>5, <1>6, PushEnds
MovedTo(it, S, place) ==
    \A i \in Items : it[i] = IF i \in S THEN [items[i] EXCEPT !.at = place] ELSE items[i]

LEMMA MovedReads ==
    ASSUME items \in [Items -> ItemRecord], NEW S, NEW place, NEW it,
           MovedTo(it, S, place)
    PROVE  /\ \A i \in Items : i \in S => it[i].at = place /\ it[i].of = items[i].of
           /\ \A i \in Items : i \notin S => it[i] = items[i]
           /\ \A i \in Items : it[i].refs = items[i].refs
<1>1. ASSUME NEW i \in Items, i \in S
      PROVE  it[i].at = place /\ it[i].of = items[i].of /\ it[i].refs = items[i].refs
    <2>1. items[i] \in ItemRecord /\ it[i] = [items[i] EXCEPT !.at = place]
        BY <1>1 DEF MovedTo
    <2> QED
        BY <2>1 DEF ItemRecord
<1>2. \A i \in Items : i \notin S => it[i] = items[i]
    BY DEF MovedTo
<1> QED
    BY <1>1, <1>2

LEMMA OneMoved ==
    ASSUME items \in [Items -> ItemRecord], NEW j \in Items, NEW place, NEW it,
           it = [items EXCEPT ![j].at = place]
    PROVE  /\ it[j].at = place
           /\ \A i \in Items : i # j => it[i] = items[i]
           /\ \A i \in Items : it[i].refs = items[i].refs
<1>1. items[j] \in ItemRecord
    OBVIOUS
<1>2. it[j].at = place /\ it[j].refs = items[j].refs
    BY <1>1 DEF ItemRecord
<1> QED
    BY <1>2

LEMMA DrainFrames ==
    ASSUME NEW b \in Boxes, NEW by \in {"call", "close"}
    PROVE  /\ DrainFrame(b, by) \in Frames /\ DrainFrame(b, by).k = "drain"
           /\ DrainFrame(b, by).b = b /\ DrainFrame(b, by).left = At("queue", b)
<1>1. At("queue", b) \in SUBSET Items
    BY DEF At
<1> QED
    BY <1>1 DEF Frames, DrainFrame

LEMMA OtherItems ==
    ASSUME EndInv, NEW i \in Items, items'[i] = items[i], Held(stack', {}),
           \A c \in Boxes : boxes[c].lua = "up" => boxes'[c].lua = "up",
           items[i].at = "detached" => (InDrain(stack, i) => InDrain(stack', i))
    PROVE  ItemEnds(stack', boxes', items'[i], i)
<1> DEFINE y == items'[i]
<1>1. y.at = items[i].at /\ y.of = items[i].of
    OBVIOUS
<1>2. y.at # "detached" \/ (InDrain(stack, i) => InDrain(stack', i))
    BY <1>1
<1> HIDE DEF y
<1>3. ItemEnds(stack', boxes', y, i)
    BY <1>1, <1>2, ItemStays
<1> QED
    BY <1>3 DEF y

(* What a detached queue's objects end up in: the frame that will release them. *)
LEMMA DetachedEnds ==
    ASSUME Inv, EndInv, NEW b \in Boxes, items' = Detached(b), NEW u \in Seq(Frames),
           Held(u, {}), boxes[b].made # "unborn",
           \A c \in Boxes : boxes'[c].lua = boxes[c].lua,
           \A i \in Items : InDrain(stack, i) => InDrain(u, i),
           NEW by \in {"call", "close"}, stack' = Append(u, DrainFrame(b, by))
    PROVE  ItemsEnd /\ Held(stack', {}) /\ \A i \in Items : items'[i].refs = items[i].refs
<1> DEFINE f == DrainFrame(b, by)
           S == At("queue", b)
<1>1. f \in Frames /\ f.k = "drain" /\ f.b = b /\ f.left = S
    BY DrainFrames
<1>2. Grown(f.b)
    BY <1>1 DEF Grown
<1>3. /\ \A i \in Items : i \in S => items'[i].at = "detached" /\ items'[i].of = items[i].of
      /\ \A i \in Items : i \notin S => items'[i] = items[i]
      /\ \A i \in Items : items'[i].refs = items[i].refs
    <2>1. items \in [Items -> ItemRecord]
        BY DEF Inv
    <2>2. MovedTo(items', S, "detached")
        BY DEF Detached, MovedTo
    <2> HIDE DEF S
    <2> QED
        BY <2>1, <2>2, MovedReads
<1> HIDE DEF f, S
<1>4. stack' = Append(u, f)
    BY DEF f
<1>5. Held(stack', {})
    BY <1>1, <1>2, <1>4, HeldMore
<1>6. ASSUME NEW i \in Items PROVE InDrain(u, i) \/ i \in S => InDrain(stack', i)
    BY <1>1, <1>4, DrainsMore
<1>7. ASSUME NEW i \in Items PROVE ItemEnds(stack', boxes', items'[i], i)
    <2>1. CASE i \in S
        <3>1. items'[i].at = "detached" /\ InDrain(stack', i)
            BY <1>3, <1>6, <2>1
        <3> QED
            BY <3>1 DEF ItemEnds
    <2>2. CASE i \notin S
        <3>1. items'[i] = items[i] /\ (InDrain(stack, i) => InDrain(stack', i))
            BY <1>3, <1>6, <2>2
        <3> QED
            BY <1>5, <3>1, OtherItems
    <2> QED
        BY <2>1, <2>2
<1> QED
    BY <1>3, <1>5, <1>7 DEF ItemsEnd

LEMMA HostReturnsEnds ==
    ASSUME Inv, EndInv, request # "over", HostReturns PROVE EndInv'
<1>1. /\ Dying = {} /\ stack # <<>> /\ Here.k \in {"php", "dtor"} /\ stack' = Below
      /\ liveList' = liveList /\ handles' = handles /\ request' = request
    BY DEF HostReturns, HereIs
<1>2. Held(stack', {})
    BY <1>1, HeldBelow
<1>3. \A i \in Items : InDrain(stack, i) => InDrain(stack', i)
    BY <1>1, DrainsBelow
<1>4. boxes \in [Boxes -> BoxRecord] /\ items \in [Items -> ItemRecord]
    BY DEF Inv
<1>5. /\ Elsewhere({}) /\ \A c \in Boxes : boxes'[c].lua = boxes[c].lua
      /\ \A c \in Boxes : boxes'[c].var => boxes[c].var \/ boxes[c].made # "unborn"
    <2>1. CASE boxes' = boxes
        BY <2>1, SameElsewhere
    <2>2. CASE boxes' # boxes
        <3> DEFINE b == Here.b
                   r == [boxes[b] EXCEPT !.inPhp = boxes[b].inPhp - 1]
        <3>1. boxes' = [boxes EXCEPT ![b] = r]
            BY <2>2 DEF HostReturns
        <3>2. b \in Boxes => /\ r.made = boxes[b].made /\ r.closed = boxes[b].closed
                             /\ r.lua = boxes[b].lua /\ r.var = boxes[b].var
            BY <1>4 DEF BoxRecord
        <3> HIDE DEF b, r
        <3> QED
            BY <1>4, <3>1, <3>2, OneElsewhere
    <2> QED
        BY <2>1, <2>2
<1>6. CASE items' = items
    <2>1. ItemsEnd
        BY <1>2, <1>3, <1>5, <1>6, ItemsStay
    <2>2. NoneHeld
        BY <1>1, <1>5, <1>6, NothingNewHeld
    <2> QED
        BY <1>1, <1>2, <1>5, <2>1, <2>2, QuietEnds
<1>7. CASE items' # items
    <2> DEFINE j == Here.i
    <2>1. /\ items' = [items EXCEPT ![j] = [items[j] EXCEPT !.at = "released", !.refs = Nothing]]
          /\ Here.k = "dtor" /\ j # Nothing
        BY <1>7 DEF HostReturns, HereIs
    <2>2. j \in Items
        <3>1. Here \in Frames
            BY <1>1, Shapes
        <3> QED
            BY <2>1, <3>1 DEF Frames
    <2> HIDE DEF j
    <2>3. /\ items'[j].at = "released" /\ items'[j].refs = Nothing
          /\ \A i \in Items : i # j => items'[i] = items[i]
        <3>1. items[j] \in ItemRecord
            BY <1>4, <2>2
        <3> QED
            BY <1>4, <2>1, <2>2, <3>1 DEF ItemRecord
    <2>4. ASSUME NEW i \in Items PROVE ItemEnds(stack', boxes', items'[i], i)
        <3>1. CASE i = j
            BY <2>3, <3>1, ItemGone
        <3>2. CASE i # j
            BY <1>2, <1>3, <1>5, <2>3, <3>2, OtherItems
        <3> QED
            BY <3>1, <3>2
    <2>5. NoneHeld
        <3>1. \A h \in Handles : handles'[h].of = handles[h].of
            BY <1>1
        <3>2. \A i \in Items : items'[i].refs = items[i].refs \/ Grown(items'[i].refs)
            BY <2>3, NobodyGrown
        <3> QED
            BY <1>5, <3>1, <3>2, NoneHeldStays
    <2> QED
        BY <1>1, <1>2, <1>5, <2>4, <2>5, QuietEnds DEF ItemsEnd
<1> QED
    BY <1>6, <1>7

LEMMA CallReturnsEnds ==
    ASSUME Inv, EndInv, request # "over", CallReturns PROVE EndInv'
<1> DEFINE b == Here.b
           r == [boxes[b] EXCEPT !.inLua = boxes[b].inLua - 1]
<1>1. /\ stack # <<>> /\ Here.k = "lua" /\ Dying = {} /\ boxes' = [boxes EXCEPT ![b] = r]
      /\ liveList' = liveList /\ handles' = handles /\ request' = request
      /\ \/ items' = Detached(b) /\ stack' = Append(Below, DrainFrame(b, "call"))
         \/ items' = items /\ stack' = Below
    BY DEF CallReturns, HereIs
<1>2. b \in Boxes /\ Grown(b) /\ Below \in Seq(Frames)
    <2>1. Here \in Frames /\ Below \in Seq(Frames)
        BY <1>1, Shapes
    <2> QED
        BY <1>1, <2>1, HereGrown DEF Frames
<1> HIDE DEF b
<1>3. boxes \in [Boxes -> BoxRecord] /\ boxes[b] \in BoxRecord
    BY <1>2 DEF Inv
<1>4. /\ r.made = boxes[b].made /\ r.closed = boxes[b].closed /\ r.lua = boxes[b].lua
      /\ r.var = boxes[b].var
    BY <1>3 DEF BoxRecord
<1> HIDE DEF r
<1>5. /\ Elsewhere({}) /\ \A c \in Boxes : boxes'[c].lua = boxes[c].lua
      /\ \A c \in Boxes : boxes'[c].var => boxes[c].var \/ boxes[c].made # "unborn"
    BY <1>1, <1>3, <1>4, OneElsewhere
<1>6. Held(Below, {})
    BY <1>1, HeldBelow
<1>7. \A i \in Items : InDrain(stack, i) => InDrain(Below, i)
    BY <1>1, DrainsBelow
<1>8. ItemsEnd /\ Held(stack', {}) /\ \A i \in Items : items'[i].refs = items[i].refs
    <2>1. CASE items' = items /\ stack' = Below
        <3>1. ItemsEnd
            BY <1>5, <1>6, <1>7, <2>1, ItemsStay
        <3> QED
            BY <1>6, <2>1, <3>1
    <2>2. CASE items' = Detached(b) /\ stack' = Append(Below, DrainFrame(b, "call"))
        BY <1>2, <1>5, <1>6, <1>7, <2>2, DetachedEnds DEF Grown
    <2> QED
        BY <1>1, <2>1, <2>2
<1>9. NoneHeld
    <2>1. \A h \in Handles : handles'[h].of = handles[h].of
        BY <1>1
    <2> QED
        BY <1>5, <1>8, <2>1, NoneHeldStays
<1> QED
    BY <1>1, <1>5, <1>8, <1>9, QuietEnds

LEMMA DrainDoneEnds ==
    ASSUME Inv, EndInv, request # "over", DrainDone PROVE EndInv'
<1>1. /\ stack # <<>> /\ Here.k = "drain" /\ Dying = {} /\ Here.left = {} /\ stack' = Below
      /\ boxes' = boxes /\ items' = items /\ liveList' = liveList /\ handles' = handles
      /\ request' = request
    BY DEF DrainDone, HereIs
<1>2. Held(stack', {})
    BY <1>1, HeldBelow
<1>3. \A i \in Items : InDrain(stack, i) => InDrain(stack', i)
    BY <1>1, DrainsBelow
<1>4. /\ Elsewhere({}) /\ \A c \in Boxes : boxes'[c].lua = boxes[c].lua
      /\ \A c \in Boxes : boxes'[c].var => boxes[c].var \/ boxes[c].made # "unborn"
    BY <1>1, SameElsewhere
<1>5. ItemsEnd
    BY <1>1, <1>2, <1>3, <1>4, ItemsStay
<1>6. NoneHeld
    BY <1>1, <1>4, NothingNewHeld
<1> QED
    BY <1>1, <1>2, <1>4, <1>5, <1>6, QuietEnds

LEMMA DrainOneEnds ==
    ASSUME Inv, EndInv, request # "over", DrainOne PROVE EndInv'
<1>1. /\ stack # <<>> /\ Here.k = "drain" /\ Dying = {} /\ boxes' = boxes
      /\ liveList' = liveList /\ handles' = handles /\ request' = request
    BY DEF DrainOne, HereIs
<1>2. PICK j \in Here.left :
        /\ items' = [items EXCEPT ![j].at = "dying"]
        /\ stack' = Append(Append(Below, [Here EXCEPT !.left = Here.left \ {j}]), Destructor(j))
    BY DEF DrainOne
<1> DEFINE f == [Here EXCEPT !.left = Here.left \ {j}]
           g == Destructor(j)
<1>3. /\ Here \in [k : {"drain"}, b : Boxes, by : {"call", "close"}, left : SUBSET Items]
      /\ Below \in Seq(Frames)
    BY <1>1, TopDrain, Shapes
<1>4. j \in Items
    BY <1>3
<1>5. f \in Frames /\ f.k = "drain" /\ f.left = Here.left \ {j} /\ f.b = Here.b
    <2>1. f \in [k : {"drain"}, b : Boxes, by : {"call", "close"}, left : SUBSET Items]
        BY <1>3
    <2>2. f.k = "drain" /\ f.left = Here.left \ {j} /\ f.b = Here.b
        BY <1>3
    <2> HIDE DEF f
    <2> QED
        BY <2>1, <2>2 DEF Frames
<1>6. g \in Frames /\ g.k = "dtor" /\ Grown(g.b)
    BY <1>4, DtorFrames
<1>7. Grown(f.b)
    BY <1>1, <1>5, HereGrown
<1> HIDE DEF f, g
<1>8. stack' = Append(Append(Below, f), g)
    BY <1>2 DEF f, g
<1>9. Held(Below, {})
    BY <1>1, HeldBelow
<1>10. Held(Append(Below, f), {}) /\ Append(Below, f) \in Seq(Frames)
    BY <1>3, <1>5, <1>7, <1>9, HeldMore
<1>11. Held(stack', {})
    BY <1>6, <1>8, <1>10, HeldMore
<1>12. ASSUME NEW i \in Items, i # j, InDrain(stack, i) PROVE InDrain(stack', i)
    <2>1. InDrain(Below, i) \/ i \in f.left
        BY <1>1, <1>5, <1>12, DrainsBelow
    <2>2. InDrain(Append(Below, f), i)
        BY <1>3, <1>5, <2>1, DrainsMore
    <2> QED
        BY <1>6, <1>8, <1>10, <2>2, DrainsMore
<1>13. /\ items'[j].at = "dying" /\ \A i \in Items : i # j => items'[i] = items[i]
       /\ \A i \in Items : items'[i].refs = items[i].refs
    <2>1. items \in [Items -> ItemRecord]
        BY DEF Inv
    <2> QED
        BY <1>2, <1>4, <2>1, OneMoved
<1>14. /\ Elsewhere({}) /\ \A c \in Boxes : boxes'[c].lua = boxes[c].lua
       /\ \A c \in Boxes : boxes'[c].var => boxes[c].var \/ boxes[c].made # "unborn"
    BY <1>1, SameElsewhere
<1>15. ASSUME NEW i \in Items PROVE ItemEnds(stack', boxes', items'[i], i)
    <2>1. CASE i = j
        BY <1>13, <2>1, ItemGone
    <2>2. CASE i # j
        BY <1>11, <1>12, <1>13, <1>14, <2>2, OtherItems
    <2> QED
        BY <2>1, <2>2
<1>16. NoneHeld
    <2>1. \A h \in Handles : handles'[h].of = handles[h].of
        BY <1>1
    <2> QED
        BY <1>13, <1>14, <2>1, NoneHeldStays
<1> QED
    BY <1>1, <1>11, <1>14, <1>15, <1>16, QuietEnds DEF ItemsEnd
--------------------------------------------------------------------------------
(* Closing.                                                                     *)

(* A sandbox is marked and its close begins, on a stack that keeps the rest.    *)
LEMMA BeginsEnds ==
    ASSUME Inv, EndInv, request # "over", request' = request, items' = items,
           liveList' = liveList, handles' = handles,
           NEW b \in Boxes, NEW by \in {"method", "free", "sweep"}, ~boxes[b].closed,
           boxes[b].made = "made", boxes' = [boxes EXCEPT ![b].closed = TRUE],
           NEW u \in Seq(Frames), Held(u, {}), stack' = Append(u, CloseFrame(b, by)),
           by = "sweep" => Len(u) > 0 /\ u[1].k = "sweep" /\ u[1].b = b,
           \A i \in Items : InDrain(stack, i) => InDrain(u, i),
           \A c \in Boxes : c # b /\ boxes[c].lua = "up" /\ ~boxes[c].closed =>
                Listed(liveList, c) \/ c \in Dying'
    PROVE  EndInv'
<1> DEFINE f == CloseFrame(b, by)
           r == [boxes[b] EXCEPT !.closed = TRUE]
<1>1. MaxPasses \in Nat
    BY LifecycleAssumption
<1>2. /\ f \in CloseFrames /\ f.k = "close" /\ f.b = b /\ f.stage = "own" /\ f.by = by
    BY <1>1 DEF CloseFrame, CloseFrames
<1>3. boxes \in [Boxes -> BoxRecord] /\ boxes[b] \in BoxRecord /\ boxes' = [boxes EXCEPT ![b] = r]
    BY DEF Inv
<1>4. r.made = "made" /\ r.closed /\ r.lua = boxes[b].lua /\ r.var = boxes[b].var
    BY <1>3 DEF BoxRecord
<1> HIDE DEF f, r
<1>5. f \in Frames /\ Grown(f.b) /\ stack' = Append(u, f)
    <2>1. f \in Frames
        BY <1>2 DEF Frames, CloseFrames
    <2>2. Grown(f.b)
        BY <1>2 DEF Grown
    <2>3. stack' = Append(u, f)
        BY DEF f
    <2> QED
        BY <2>1, <2>2, <2>3
<1>6. Held(stack', {})
    BY <1>2, <1>5, HeldMore
<1>7. Held(stack', {b})
    BY <1>6 DEF Held
<1>8. boxes'[b] = r /\ \A c \in Boxes : c # b => boxes'[c] = boxes[c]
    BY <1>3
<1>9. Elsewhere({b})
    BY <1>8 DEF Elsewhere
<1>10. BoxEnds(stack', boxes'[b], liveList, b)
    <2>1. "own" \in Stages /\ "own" \in {"own", "lua"}
        BY DEF Stages
    <2>2. ClosingAt(stack', b, Stages) /\ ClosingAt(stack', b, {"own", "lua"})
        BY <1>2, <1>5, <2>1, ClosingMore
    <2> QED
        BY <1>4, <1>8, <2>2 DEF BoxEnds
<1>11. Awaited'
    <2>1. ASSUME NEW c \in Boxes, boxes'[c].lua = "up", ~boxes'[c].closed
          PROVE  Listed(liveList', c) \/ c \in Dying'
        <3>1. c # b
            BY <1>4, <1>8, <2>1
        <3> QED
            BY <1>8, <2>1, <3>1
    <2> QED
        BY <2>1 DEF Awaited
<1>12. NoneHeld
    <2>1. \A c \in Boxes : boxes'[c].var => boxes[c].var \/ boxes[c].made # "unborn"
        BY <1>4, <1>8
    <2> QED
        BY <2>1, NothingNewHeld
<1>13. ItemsEnd
    <2>1. \A c \in Boxes : boxes[c].lua = "up" => boxes'[c].lua = "up"
        BY <1>4, <1>8
    <2>2. ASSUME NEW i \in Items, InDrain(stack, i) PROVE InDrain(stack', i)
        BY <1>5, <2>2, DrainsMore
    <2> QED
        BY <1>6, <2>1, <2>2, ItemsStay
<1>14. \A c \in Boxes : c \in {b} => /\ BoxEnds(stack', boxes'[c], liveList, c)
                                     /\ (boxes'[c].made = "unborn" => boxes[c].made = "unborn")
    BY <1>4, <1>8, <1>10
<1> QED
    BY <1>7, <1>9, <1>11, <1>12, <1>13, <1>14, EndStep

LEMMA CloseMethodEnds ==
    ASSUME Inv, EndInv, request # "over", NEW b \in Boxes, CloseMethod(b) \/ CollectCycle(b)
    PROVE  EndInv'
<1>1. /\ Dying = {} /\ boxes[b].made = "made" /\ ~boxes[b].closed
      /\ boxes' = [boxes EXCEPT ![b].closed = TRUE] /\ stack' = Append(stack, CloseFrame(b, "method"))
      /\ items' = items /\ liveList' = liveList /\ handles' = handles /\ request' = request
    BY DEF CloseMethod, CollectCycle, HostRuns, CloseBegins
<1>2. stack \in Seq(Frames)
    BY Shapes
<1>3. Held(stack, {})
    BY HeldStack
<1>4. \A c \in Boxes : boxes[c].lua = "up" /\ ~boxes[c].closed => Listed(liveList, c)
    BY <1>1 DEF EndInv, Awaited
<1> QED
    BY <1>1, <1>2, <1>3, <1>4, BeginsEnds

(* A sandbox nobody holds is on no list once it is closed. *)
LEMMA DyingIsUnlisted ==
    ASSUME Inv, EndInv, NEW b \in Dying, boxes[b].closed
    PROVE  ~Listed(liveList, b) /\ boxes[b].lua # "up"
<1>1. b \in Boxes /\ ~Referenced(b) /\ stack \in Seq(Frames)
    BY Shapes DEF Dying
<1>2. BoxEnds(stack, boxes[b], liveList, b) /\ SweptFits(stack)
    BY <1>1 DEF EndInv
<1>3. ASSUME NEW S, ClosingAt(stack, b, S) PROVE FALSE
    <2>1. PICK n \in 1 .. Len(stack) : stack[n].k = "close" /\ stack[n].b = b
        BY <1>3 DEF ClosingAt
    <2>2. DOMAIN stack = 1 .. Len(stack) /\ stack[n] \in Frames
        BY <1>1, <2>1
    <2>3. stack[n].by \in {"method", "free", "sweep"}
        BY <2>1, <2>2 DEF Frames
    <2>4. stack[n].by # "free"
        BY <2>1, <2>2 DEF Dying
    <2>5. stack[n].by # "method"
        BY <1>1, <2>1, <2>2 DEF Referenced
    <2>6. stack[n].by = "sweep"
        BY <2>3, <2>4, <2>5
    <2>7. stack[1].k = "sweep" /\ stack[1].b = b
        BY <1>2, <2>1, <2>6 DEF SweptFits
    <2>8. 1 \in DOMAIN stack
        BY <1>1, <2>1
    <2> QED
        BY <1>1, <2>7, <2>8 DEF Referenced
<1> QED
    BY <1>2, <1>3 DEF BoxEnds

LEMMA FreeEnds ==
    ASSUME Inv, EndInv, request # "over", NEW b \in Boxes, Free(b) PROVE EndInv'
<1>1. /\ b \in Dying /\ boxes[b].made = "made"
      /\ items' = items /\ liveList' = liveList /\ handles' = handles /\ request' = request
    BY DEF Free, Dying
<1>2. stack \in Seq(Frames) /\ Held(stack, {})
    BY Shapes, HeldStack
<1>3. CASE ~boxes[b].closed
    <2> DEFINE f == CloseFrame(b, "free")
    <2>1. boxes' = [boxes EXCEPT ![b].closed = TRUE] /\ stack' = Append(stack, f)
        BY <1>3 DEF Free, CloseBegins
    <2>2. f \in Frames /\ f.k = "close" /\ f.b = b
        <3>1. f.k = "close" /\ f.b = b
            BY DEF CloseFrame
        <3>2. [boxes EXCEPT ![b].closed = TRUE][b].closed
            BY DEF Inv, BoxRecord
        <3> HIDE DEF f
        <3> QED
            BY <2>1, <3>1, <3>2, NewCloseFrame DEF f
    <2> HIDE DEF f
    <2>3. /\ stack' \in Seq(Frames) /\ Len(stack') = Len(stack) + 1 /\ Len(stack) \in Nat
          /\ stack'[Len(stack) + 1] = f /\ \A n \in 1 .. Len(stack) : stack'[n] = stack[n]
        BY <1>2, <2>1, <2>2
    <2>4. ASSUME NEW c \in Boxes, c # b, boxes[c].lua = "up", ~boxes[c].closed
          PROVE  Listed(liveList, c) \/ c \in Dying'
        <3> SUFFICES ASSUME c \in Dying PROVE c \in Dying'
            BY <2>4 DEF EndInv, Awaited
        <3>1. boxes'[c] = boxes[c]
            BY <2>1, <2>4 DEF Inv
        <3>2. \A n \in DOMAIN stack' : stack'[n].b = c => n \in DOMAIN stack /\ stack'[n] = stack[n]
            <4>1. \A n \in DOMAIN stack' : n \in 1 .. Len(stack) \/ n = Len(stack) + 1
                BY <2>3
            <4> QED
                BY <1>2, <2>2, <2>3, <2>4, <4>1
        <3>3. ~Referenced(c)'
            BY <1>1, <3>1, <3>2 DEF Referenced, Dying
        <3>4. ~\E n \in DOMAIN stack' : stack'[n].k = "close" /\ stack'[n].b = c /\ stack'[n].by = "free"
            BY <3>2 DEF Dying
        <3> QED
            BY <3>1, <3>3, <3>4 DEF Dying
    <2>5. stack' = Append(stack, CloseFrame(b, "free"))
        BY <2>1 DEF f
    <2> QED
        BY <1>1, <1>2, <1>3, <2>1, <2>4, <2>5, BeginsEnds
<1>4. CASE boxes[b].closed
    <2> DEFINE r == [boxes[b] EXCEPT !.made = "freed"]
    <2>1. boxes' = [boxes EXCEPT ![b] = r] /\ stack' = stack
        BY <1>4 DEF Free, CloseBegins
    <2>2. boxes \in [Boxes -> BoxRecord] /\ boxes[b] \in BoxRecord
        BY DEF Inv
    <2>3. r.made = "freed" /\ r.closed /\ r.lua = boxes[b].lua /\ r.var = boxes[b].var
        BY <1>4, <2>2 DEF BoxRecord
    <2> HIDE DEF r
    <2>4. boxes'[b] = r /\ \A c \in Boxes : c # b => boxes'[c] = boxes[c]
        BY <2>1, <2>2
    <2>5. ~Listed(liveList, b) /\ boxes[b].lua # "up"
        BY <1>1, <1>4, DyingIsUnlisted
    <2>6. Elsewhere({b})
        BY <2>4 DEF Elsewhere
    <2>7. Held(stack', {b}) /\ Held(stack', {})
        BY <1>2, <2>1 DEF Held
    <2>8. \A c \in Boxes : c \in {b} => /\ BoxEnds(stack', boxes'[c], liveList, c)
                                        /\ (boxes'[c].made = "unborn" => boxes[c].made = "unborn")
        BY <2>3, <2>4, <2>5 DEF BoxEnds
    <2>9. Awaited'
        <3>1. ASSUME NEW c \in Boxes, boxes'[c].lua = "up", ~boxes'[c].closed
              PROVE  Listed(liveList', c) \/ c \in Dying'
            <4>1. c # b /\ boxes'[c] = boxes[c]
                BY <2>3, <2>4, <3>1
            <4>2. c \in Dying => c \in Dying'
                BY <1>1, <2>1, <4>1 DEF Dying, Referenced
            <4> QED
                BY <1>1, <3>1, <4>1, <4>2 DEF EndInv, Awaited
        <3> QED
            BY <3>1 DEF Awaited
    <2>10. NoneHeld
        <3>1. \A c \in Boxes : boxes'[c].var => boxes[c].var \/ boxes[c].made # "unborn"
            BY <2>3, <2>4
        <3> QED
            BY <1>1, <3>1, NothingNewHeld
    <2>11. ItemsEnd
        <3>1. \A c \in Boxes : boxes[c].lua = "up" => boxes'[c].lua = "up"
            BY <2>3, <2>4
        <3>2. \A i \in Items : InDrain(stack, i) => InDrain(stack', i)
            BY <2>1
        <3> QED
            BY <1>1, <2>7, <3>1, <3>2, ItemsStay
    <2> QED
        BY <1>1, <2>6, <2>7, <2>8, <2>9, <2>10, <2>11, EndStep
<1> QED
    BY <1>3, <1>4
LEMMA StageFrame ==
    ASSUME NEW h \in CloseFrames, NEW name \in Stages
    PROVE  /\ [h EXCEPT !.stage = name] \in CloseFrames
           /\ [h EXCEPT !.stage = name].b = h.b
           /\ [h EXCEPT !.stage = name].by = h.by
           /\ [h EXCEPT !.stage = name].stage = name
    BY DEF CloseFrames, Stages

(* The close on top goes on: what its own sandbox loses is only the stage left. *)
LEMMA TurnHeld ==
    ASSUME Inv, EndInv, NEW b, NEW name, Stage(b, name), NEW f \in CloseFrames, f.b = b,
           f.by = Here.by
    PROVE  /\ Append(Below, f) \in Seq(Frames)
           /\ Held(Append(Below, f), {b})
           /\ f.stage = name => Held(Append(Below, f), {})
           /\ \A S : f.stage \in S \/ (name \notin S /\ ClosingAt(stack, b, S))
                        => ClosingAt(Append(Below, f), b, S)
           /\ \A i : InDrain(stack, i) => InDrain(Append(Below, f), i)
<1> DEFINE t == Append(Below, f)
<1>1. /\ stack # <<>> /\ Here \in CloseFrames /\ Here.k = "close" /\ Here.b = b
      /\ Here.stage = name /\ b \in Boxes /\ Below \in Seq(Frames)
    BY TopClose
<1>2. f \in Frames /\ f.k = "close"
    BY DEF Frames, CloseFrames
<1>3. Grown(f.b)
    BY <1>1, HereGrown
<1>4. Held(Below, {b})
    BY <1>1, HeldBelow
<1>5. ASSUME f.by = "sweep" PROVE Len(Below) > 0 /\ Below[1].k = "sweep" /\ Below[1].b = f.b
    <2>1. /\ Len(stack) \in Nat /\ Len(stack) > 0 /\ Len(Below) = Len(stack) - 1
          /\ Here = stack[Len(stack)] /\ \A n \in 1 .. Len(stack) - 1 : Below[n] = stack[n]
        BY <1>1, Shapes
    <2>2. Len(stack) \in 1 .. Len(stack) /\ SweptFits(stack)
        BY <2>1 DEF EndInv
    <2>3. stack[1].k = "sweep" /\ stack[1].b = b
        BY <1>1, <1>5, <2>1, <2>2 DEF SweptFits
    <2>4. Len(stack) # 1
        BY <1>1, <2>1, <2>3
    <2>5. 1 \in 1 .. Len(stack) - 1
        BY <2>1, <2>4
    <2> QED
        BY <2>1, <2>3, <2>5
<1>6. Held(t, {b}) /\ t \in Seq(Frames)
    BY <1>1, <1>2, <1>3, <1>4, <1>5, HeldMore
<1>7. ASSUME NEW S, f.stage \in S \/ (name \notin S /\ ClosingAt(stack, b, S))
      PROVE  ClosingAt(t, b, S)
    <2>1. CASE f.stage \in S
        BY <1>1, <1>2, <2>1, ClosingMore
    <2>2. CASE name \notin S /\ ClosingAt(stack, b, S)
        <3>1. ClosingAt(Below, b, S)
            BY <1>1, <2>2, ClosingBelow
        <3> QED
            BY <1>1, <1>2, <3>1, ClosingMore
    <2> QED
        BY <1>7, <2>1, <2>2
<1>8. ASSUME NEW i, InDrain(stack, i) PROVE InDrain(t, i)
    <2>1. InDrain(Below, i)
        BY <1>1, <1>8, DrainsBelow
    <2> QED
        BY <1>1, <1>2, <2>1, DrainsMore
<1>9. ASSUME f.stage = name PROVE Held(t, {})
    <2>1. ASSUME NEW c \in Boxes, NEW S, ClosingAt(stack, c, S) PROVE ClosingAt(t, c, S)
        <3>1. CASE c = b
            BY <1>7, <1>9, <2>1, <3>1
        <3>2. CASE c # b
            BY <1>6, <2>1, <3>2 DEF Held
        <3> QED
            BY <3>1, <3>2
    <2> QED
        BY <1>6, <2>1 DEF Held
<1> HIDE DEF t
<1> QED
    BY <1>6, <1>7, <1>8, <1>9 DEF t

LEMMA TurnedItem ==
    ASSUME EndInv, NEW b \in Boxes, Held(stack', {b}), NEW i \in Items, items'[i] = items[i],
           \A c \in Boxes : c # b => boxes'[c].lua = boxes[c].lua,
           InDrain(stack, i) => InDrain(stack', i),
           items[i].at = "lua" /\ items[i].of = b =>
                boxes'[b].lua = "up" \/ ClosingAt(stack', b, {"abandon"}),
           items[i].at = "queue" /\ items[i].of = b =>
                boxes'[b].lua = "up" \/ ClosingAt(stack', b, {"abandon", "drain"})
    PROVE  ItemEnds(stack', boxes', items'[i], i)
<1> DEFINE y == items'[i]
<1>1. y.at = items[i].at /\ y.of = items[i].of
    OBVIOUS
<1> HIDE DEF y
<1>2. CASE y.of = b
    <2>1. y.at = "detached" => InDrain(stack', i)
        BY <1>1 DEF EndInv, ItemEnds
    <2> QED
        BY <1>1, <1>2, <2>1 DEF ItemEnds, y
<1>3. CASE y.of # b
    <2>1. y.at \in {"lua", "queue"} /\ y.of \in Boxes /\ boxes[y.of].lua = "up" => boxes'[y.of].lua = "up"
        BY <1>3
    <2>2. y.at # "detached" \/ (InDrain(stack, i) => InDrain(stack', i))
        OBVIOUS
    <2>3. ItemEnds(stack', boxes', y, i)
        BY <1>1, <1>3, <2>1, <2>2, ItemStays
    <2> QED
        BY <2>3 DEF y
<1> QED
    BY <1>2, <1>3

LEMMA TurnEnds ==
    ASSUME Inv, EndInv, request # "over", request' = request, Dying = {}, liveList' = liveList,
           handles' = handles, NEW b \in Boxes, Held(stack', {b}),
           \A c \in Boxes : c # b => boxes'[c] = boxes[c],
           boxes'[b].made = boxes[b].made, boxes'[b].closed, boxes[b].closed,
           boxes'[b].var = boxes[b].var,
           ClosingAt(stack', b, Stages),
           boxes'[b].lua = "up" => ClosingAt(stack', b, {"own", "lua"}),
           \A i \in Items : items'[i].refs = items[i].refs,
           ItemsEnd
    PROVE  EndInv'
<1>1. Elsewhere({b})
    BY DEF Elsewhere
<1>2. \A c \in Boxes : c \in {b} => /\ BoxEnds(stack', boxes'[c], liveList, c)
                                    /\ (boxes'[c].made = "unborn" => boxes[c].made = "unborn")
    BY DEF EndInv, BoxEnds
<1>3. Awaited'
    <2>1. \A c \in Boxes : boxes'[c].lua = "up" /\ ~boxes'[c].closed =>
                boxes[c].lua = "up" /\ ~boxes[c].closed
        OBVIOUS
    <2> QED
        BY <2>1, AwaitedStays
<1>4. NoneHeld
    <2>1. \A c \in Boxes : boxes'[c].var => boxes[c].var \/ boxes[c].made # "unborn"
        OBVIOUS
    <2>2. \A h \in Handles : handles'[h].of = handles[h].of
        OBVIOUS
    <2> QED
        BY <2>1, <2>2, NoneHeldStays
<1> QED
    BY <1>1, <1>2, <1>3, <1>4, EndStep

(* The stage changes and nothing else, or a destructor of no object's runs.     *)
LEMMA StageOnlyEnds ==
    ASSUME Inv, EndInv, request # "over", request' = request, liveList' = liveList,
           handles' = handles, boxes' = boxes, items' = items,
           NEW b \in Boxes, NEW name, NEW next \in Stages, Stage(b, name),
           \/ stack' = Append(Below, [Here EXCEPT !.stage = next])
           \/ stack' = Append(Append(Below, [Here EXCEPT !.stage = next]), Destructor(Nothing)),
           name \in {"own", "lua"},
           boxes[b].lua = "up" => next \in {"own", "lua"}
    PROVE  EndInv'
<1> DEFINE f == [Here EXCEPT !.stage = next]
           g == Destructor(Nothing)
           t == Append(Below, f)
<1>1. Dying = {} /\ Here \in CloseFrames /\ Here.b = b /\ boxes[b].closed
    BY TopClose DEF Stage, CloseFits
<1>2. f \in CloseFrames /\ f.b = b /\ f.by = Here.by /\ f.stage = next
    BY <1>1, StageFrame
<1>3. g \in Frames /\ g.k = "dtor" /\ Grown(g.b)
    BY DtorFrames
<1> HIDE DEF f, g
<1>4. /\ t \in Seq(Frames) /\ Held(t, {b})
      /\ \A S : f.stage \in S \/ (name \notin S /\ ClosingAt(stack, b, S)) => ClosingAt(t, b, S)
      /\ \A i : InDrain(stack, i) => InDrain(t, i)
    BY <1>2, TurnHeld
<1> HIDE DEF t
<1>5. stack' = t \/ stack' = Append(t, g)
    BY DEF t, f, g
<1>6. /\ Held(stack', {b})
      /\ \A S : f.stage \in S \/ (name \notin S /\ ClosingAt(stack, b, S)) => ClosingAt(stack', b, S)
      /\ \A i : InDrain(stack, i) => InDrain(stack', i)
    <2>1. CASE stack' = t
        BY <1>4, <2>1
    <2>2. CASE stack' = Append(t, g)
        <3>1. Held(stack', {b})
            BY <1>3, <1>4, <2>2, HeldMore
        <3>2. \A S : ClosingAt(t, b, S) => ClosingAt(stack', b, S)
            BY <1>3, <1>4, <2>2, ClosingMore
        <3>3. \A i : InDrain(t, i) => InDrain(stack', i)
            BY <1>3, <1>4, <2>2, DrainsMore
        <3> QED
            BY <1>4, <3>1, <3>2, <3>3
    <2> QED
        BY <1>5, <2>1, <2>2
<1>7. ClosingAt(stack', b, Stages)
    BY <1>2, <1>6
<1>8. boxes'[b].lua = "up" => ClosingAt(stack', b, {"own", "lua"})
    BY <1>2, <1>6
<1>9. /\ ClosingAt(stack, b, {"abandon"}) => ClosingAt(stack', b, {"abandon"})
      /\ ClosingAt(stack, b, {"abandon", "drain"}) => ClosingAt(stack', b, {"abandon", "drain"})
    <2>1. name \notin {"abandon"} /\ name \notin {"abandon", "drain"}
        OBVIOUS
    <2> QED
        BY <1>6, <2>1
<1>10. ASSUME NEW i \in Items PROVE ItemEnds(stack', boxes', items'[i], i)
    <2>1. ItemEnds(stack, boxes, items[i], i)
        BY DEF EndInv
    <2>2. /\ items[i].at = "lua" /\ items[i].of = b =>
                boxes'[b].lua = "up" \/ ClosingAt(stack', b, {"abandon"})
          /\ items[i].at = "queue" /\ items[i].of = b =>
                boxes'[b].lua = "up" \/ ClosingAt(stack', b, {"abandon", "drain"})
        BY <1>9, <2>1 DEF ItemEnds
    <2> QED
        BY <1>6, <2>2, TurnedItem
<1> QED
    BY <1>1, <1>6, <1>7, <1>8, <1>10, TurnEnds DEF ItemsEnd

LEMMA CloseDropsItsOwnEnds ==
    ASSUME Inv, EndInv, request # "over", NEW b \in Boxes, CloseDropsItsOwn(b) PROVE EndInv'
<1> DEFINE f == [Here EXCEPT !.stage = "lua"]
           g == Destructor(Nothing)
<1>1. /\ Stage(b, "own") /\ boxes' = boxes /\ items' = items /\ handles' = handles
      /\ request' = request /\ liveList' = liveList
      /\ stack' = Append(Below, f) \/ stack' = Below \o <<f, g>>
    BY DEF CloseDropsItsOwn, Onward
<1>2. Here \in CloseFrames /\ Below \in Seq(Frames) /\ "lua" \in Stages
    BY <1>1, TopClose DEF Stages
<1>3. f \in CloseFrames
    BY <1>2, StageFrame
<1>4. g \in Frames
    BY DtorFrames
<1>5. Below \o <<f, g>> = Append(Append(Below, f), g)
    <2> HIDE DEF f, g
    <2>1. f \in Frames
        BY <1>3 DEF Frames, CloseFrames
    <2> QED
        BY <1>2, <1>4, <2>1, TwoMore
<1> QED
    BY <1>1, <1>2, <1>5, StageOnlyEnds

LEMMA CloseHasNothingEnds ==
    ASSUME Inv, EndInv, request # "over", NEW b \in Boxes, CloseHasNothing(b) PROVE EndInv'
<1>1. /\ Stage(b, "lua") /\ boxes' = boxes /\ items' = items /\ handles' = handles
      /\ request' = request /\ liveList' = liveList /\ boxes[b].lua = "none"
      /\ stack' = Append(Below, [Here EXCEPT !.stage = "drain"])
    BY DEF CloseHasNothing, Onward
<1>2. "drain" \in Stages
    BY DEF Stages
<1> QED
    BY <1>1, <1>2, StageOnlyEnds
(* The interpreter goes, destroyed or abandoned, and what it held moves. *)
LEMMA StateGoesEnds ==
    ASSUME Inv, EndInv, request # "over", request' = request, liveList' = liveList,
           handles' = handles, NEW b \in Boxes, Stage(b, "lua"), NEW after, after # "up",
           boxes' = [boxes EXCEPT ![b].lua = after],
           NEW S, S \subseteq At("lua", b), NEW place \in {"queue", "leaked"},
           MovedTo(items', S, place),
           NEW next \in {"abandon", "drain"},
           place = "queue" => next = "drain",
           next = "drain" => S = At("lua", b),
           stack' = Append(Below, [Here EXCEPT !.stage = next])
    PROVE  EndInv'
<1> DEFINE f == [Here EXCEPT !.stage = next]
           r == [boxes[b] EXCEPT !.lua = after]
<1>1. Dying = {} /\ Here \in CloseFrames /\ Here.b = b /\ boxes[b].closed /\ next \in Stages
    BY TopClose DEF Stage, CloseFits, Stages
<1>2. f \in CloseFrames /\ f.b = b /\ f.by = Here.by /\ f.stage = next
    BY <1>1, StageFrame
<1> HIDE DEF f
<1>3. stack' = Append(Below, f)
    BY DEF f
<1>4. /\ Held(stack', {b})
      /\ \A T : next \in T \/ ("lua" \notin T /\ ClosingAt(stack, b, T)) => ClosingAt(stack', b, T)
      /\ \A i : InDrain(stack, i) => InDrain(stack', i)
    BY <1>2, <1>3, TurnHeld
<1>5. /\ ClosingAt(stack', b, Stages)
      /\ ClosingAt(stack', b, {"abandon", "drain"})
      /\ next = "abandon" => ClosingAt(stack', b, {"abandon"})
    BY <1>1, <1>4
<1>6. boxes \in [Boxes -> BoxRecord] /\ boxes[b] \in BoxRecord /\ items \in [Items -> ItemRecord]
    BY DEF Inv
<1>7. /\ r.made = boxes[b].made /\ r.closed = boxes[b].closed /\ r.lua = after
      /\ r.var = boxes[b].var
    BY <1>6 DEF BoxRecord
<1> HIDE DEF r
<1>8. boxes' = [boxes EXCEPT ![b] = r]
    BY DEF r
<1>9. boxes'[b] = r /\ \A c \in Boxes : c # b => boxes'[c] = boxes[c]
    BY <1>6, <1>8
<1>10. /\ \A i \in Items : i \in S => items'[i].at = place /\ items'[i].of = items[i].of
       /\ \A i \in Items : i \notin S => items'[i] = items[i]
       /\ \A i \in Items : items'[i].refs = items[i].refs
    BY <1>6, MovedReads
<1>11. ASSUME NEW i \in Items PROVE ItemEnds(stack', boxes', items'[i], i)
    <2>1. CASE i \in S
        <3>1. items[i].of = b
            BY <2>1 DEF At
        <3>2. items'[i].at = place /\ items'[i].of = b
            BY <1>10, <2>1, <3>1
        <3> QED
            BY <1>5, <3>2 DEF ItemEnds
    <2>2. CASE i \notin S
        <3>1. items'[i] = items[i]
            BY <1>10, <2>2
        <3>2. items[i].at = "lua" /\ items[i].of = b => ClosingAt(stack', b, {"abandon"})
            BY <1>5, <2>2 DEF At
        <3>3. \A c \in Boxes : c # b => boxes'[c].lua = boxes[c].lua
            BY <1>9
        <3>4. InDrain(stack, i) => InDrain(stack', i)
            BY <1>4
        <3> QED
            BY <1>4, <1>5, <3>1, <3>2, <3>3, <3>4, TurnedItem
    <2> QED
        BY <2>1, <2>2
<1>12. /\ boxes'[b].made = boxes[b].made /\ boxes'[b].closed
       /\ boxes'[b].var = boxes[b].var /\ boxes'[b].lua # "up"
    BY <1>1, <1>7, <1>9
<1> QED
    BY <1>1, <1>4, <1>5, <1>9, <1>10, <1>11, <1>12, TurnEnds DEF ItemsEnd

LEMMA CloseDestroysEnds ==
    ASSUME Inv, EndInv, request # "over", NEW b \in Boxes, CloseDestroys(b) PROVE EndInv'
<1> DEFINE S == At("lua", b)
<1>1. /\ Stage(b, "lua") /\ boxes' = [boxes EXCEPT ![b].lua = "destroyed"] /\ handles' = handles
      /\ request' = request /\ liveList' = liveList
      /\ stack' = Append(Below, [Here EXCEPT !.stage = "drain"])
    BY DEF CloseDestroys, Onward
<1>2. MovedTo(items', S, "queue")
    BY DEF CloseDestroys, MovedTo
<1> HIDE DEF S
<1> QED
    BY <1>1, <1>2, StateGoesEnds DEF S

LEMMA CloseAbandonsEnds ==
    ASSUME Inv, EndInv, request # "over", NEW b \in Boxes, CloseAbandons(b) PROVE EndInv'
<1> DEFINE S == {i \in At("lua", b) : ~items[i].proxy}
<1>1. /\ Stage(b, "lua") /\ boxes' = [boxes EXCEPT ![b].lua = "abandoned"] /\ handles' = handles
      /\ request' = request /\ liveList' = liveList
      /\ stack' = Append(Below, [Here EXCEPT !.stage = "abandon"])
    BY DEF CloseAbandons, Onward
<1>2. MovedTo(items', S, "leaked")
    <2>1. \A i : (i \in At("lua", b) /\ ~items[i].proxy) <=> i \in S
        OBVIOUS
    <2>2. \A i \in Items : items'[i] = IF i \in At("lua", b) /\ ~items[i].proxy
                                       THEN [items[i] EXCEPT !.at = "leaked"] ELSE items[i]
        BY DEF CloseAbandons
    <2> HIDE DEF S
    <2> QED
        BY <2>1, <2>2 DEF MovedTo
<1>3. S \subseteq At("lua", b)
    OBVIOUS
<1> HIDE DEF S
<1> QED
    BY <1>1, <1>2, <1>3, StateGoesEnds

LEMMA ReleaseAbandonedEnds ==
    ASSUME Inv, EndInv, request # "over", NEW b \in Boxes, ReleaseAbandoned(b) PROVE EndInv'
<1>1. /\ Stage(b, "abandon") /\ boxes' = boxes /\ handles' = handles
      /\ request' = request /\ liveList' = liveList /\ Dying = {}
    BY DEF ReleaseAbandoned, Stage
<1>2. /\ Here \in CloseFrames /\ Here.b = b /\ boxes[b].closed /\ boxes[b].lua = "abandoned"
      /\ Here.stage = "abandon" /\ stack \in Seq(Frames)
    BY <1>1, TopClose, Shapes DEF CloseFits
<1>3. boxes \in [Boxes -> BoxRecord] /\ items \in [Items -> ItemRecord]
    BY DEF Inv
<1>4. CASE At("lua", b) = {} /\ Onward("drain") /\ UNCHANGED items
    <2> DEFINE f == [Here EXCEPT !.stage = "drain"]
    <2>1. "drain" \in Stages
        BY DEF Stages
    <2>2. f \in CloseFrames /\ f.b = b /\ f.by = Here.by /\ f.stage = "drain"
        BY <1>2, <2>1, StageFrame
    <2> HIDE DEF f
    <2>3. stack' = Append(Below, f)
        BY <1>4 DEF f, Onward
    <2>4. /\ Held(stack', {b})
          /\ \A T : "drain" \in T \/ ("abandon" \notin T /\ ClosingAt(stack, b, T)) => ClosingAt(stack', b, T)
          /\ \A i : InDrain(stack, i) => InDrain(stack', i)
        BY <1>1, <2>2, <2>3, TurnHeld
    <2>5. ClosingAt(stack', b, Stages) /\ ClosingAt(stack', b, {"abandon", "drain"})
        BY <2>1, <2>4
    <2>6. ASSUME NEW i \in Items PROVE ItemEnds(stack', boxes', items'[i], i)
        <3>1. ~(items[i].at = "lua" /\ items[i].of = b)
            BY <1>4 DEF At
        <3>2. /\ items'[i] = items[i] /\ \A c \in Boxes : c # b => boxes'[c].lua = boxes[c].lua
              /\ InDrain(stack, i) => InDrain(stack', i)
            BY <1>1, <1>4, <2>4
        <3> QED
            BY <2>4, <2>5, <3>1, <3>2, TurnedItem
    <2>7. \A i \in Items : items'[i].refs = items[i].refs
        BY <1>4
    <2> QED
        BY <1>1, <1>2, <1>3, <2>4, <2>5, <2>6, <2>7, TurnEnds DEF ItemsEnd
<1>5. ASSUME NEW j \in At("lua", b), items' = [items EXCEPT ![j].at = "dying"],
             stack' = Append(stack, Destructor(j))
      PROVE  EndInv'
    <2> DEFINE g == Destructor(j)
    <2>1. j \in Items
        BY DEF At
    <2>2. g \in Frames /\ g.k = "dtor" /\ Grown(g.b)
        BY <2>1, DtorFrames
    <2> HIDE DEF g
    <2>3. stack' = Append(stack, g)
        BY <1>5 DEF g
    <2>4. Held(stack', {})
        BY <1>2, <2>2, <2>3, HeldStack, HeldMore
    <2>5. \A i \in Items : InDrain(stack, i) => InDrain(stack', i)
        BY <1>2, <2>2, <2>3, DrainsMore
    <2>6. /\ items'[j].at = "dying" /\ \A i \in Items : i # j => items'[i] = items[i]
          /\ \A i \in Items : items'[i].refs = items[i].refs
        BY <1>3, <1>5, <2>1, OneMoved
    <2>7. /\ Elsewhere({}) /\ \A c \in Boxes : boxes'[c].lua = boxes[c].lua
          /\ \A c \in Boxes : boxes'[c].var => boxes[c].var \/ boxes[c].made # "unborn"
        BY <1>1, SameElsewhere
    <2>8. ASSUME NEW i \in Items PROVE ItemEnds(stack', boxes', items'[i], i)
        <3>1. CASE i = j
            BY <2>6, <3>1, ItemGone
        <3>2. CASE i # j
            BY <2>4, <2>5, <2>6, <2>7, <3>2, OtherItems
        <3> QED
            BY <3>1, <3>2
    <2>9. NoneHeld
        <3>1. \A h \in Handles : handles'[h].of = handles[h].of
            BY <1>1
        <3> QED
            BY <2>6, <2>7, <3>1, NoneHeldStays
    <2> QED
        BY <1>1, <2>4, <2>7, <2>8, <2>9, QuietEnds DEF ItemsEnd
<1> QED
    BY <1>4, <1>5 DEF ReleaseAbandoned

LEMMA CloseDrainsEnds ==
    ASSUME Inv, EndInv, request # "over", NEW b \in Boxes, CloseDrains(b) PROVE EndInv'
<1>1. /\ Stage(b, "drain") /\ boxes' = boxes /\ handles' = handles
      /\ request' = request /\ liveList' = liveList /\ Dying = {}
    BY DEF CloseDrains, Stage
<1>2. /\ Here \in CloseFrames /\ Here.b = b /\ boxes[b].closed /\ boxes[b].lua # "up"
      /\ Here.stage = "drain" /\ stack # <<>> /\ Here.k = "close" /\ Below \in Seq(Frames)
    BY <1>1, TopClose DEF CloseFits
<1>3. boxes \in [Boxes -> BoxRecord] /\ items \in [Items -> ItemRecord] /\ boxes[b].made # "unborn"
    <2>1. Grown(b)
        BY <1>2, HereGrown
    <2> QED
        BY <2>1 DEF Inv, Grown
<1>4. CASE At("queue", b) # {} /\ Here.pass < MaxPasses
    <2> DEFINE f == [Here EXCEPT !.pass = Here.pass + 1]
               g == DrainFrame(b, "close")
               u == Append(Below, f)
    <2>1. items' = Detached(b) /\ stack' = Below \o <<f, g>>
        BY <1>4 DEF CloseDrains
    <2>2. f \in CloseFrames /\ f.b = b /\ f.by = Here.by /\ f.stage = "drain"
        <3>1. Here.pass + 1 \in 0 .. MaxPasses
            BY <1>2, <1>4, LifecycleAssumption DEF CloseFrames
        <3> QED
            BY <1>2, <3>1 DEF CloseFrames
    <2>3. g \in Frames
        BY DrainFrames
    <2> HIDE DEF f
    <2>4. /\ u \in Seq(Frames) /\ Held(u, {}) /\ \A i : InDrain(stack, i) => InDrain(u, i)
        BY <1>1, <2>2, TurnHeld
    <2>5. stack' = Append(u, g)
        <3>1. f \in Frames
            BY <2>2 DEF Frames, CloseFrames
        <3> HIDE DEF g
        <3> QED
            BY <1>2, <2>1, <2>3, <3>1, TwoMore
    <2> HIDE DEF u
    <2>6. \A c \in Boxes : boxes'[c].lua = boxes[c].lua
        BY <1>1
    <2>7. ItemsEnd /\ Held(stack', {}) /\ \A i \in Items : items'[i].refs = items[i].refs
        BY <1>3, <2>1, <2>4, <2>5, <2>6, DetachedEnds
    <2>8. /\ Elsewhere({}) /\ \A c \in Boxes : boxes'[c].var => boxes[c].var \/ boxes[c].made # "unborn"
        BY <1>1, SameElsewhere
    <2>9. NoneHeld
        <3>1. \A h \in Handles : handles'[h].of = handles[h].of
            BY <1>1
        <3> QED
            BY <2>7, <2>8, <3>1, NoneHeldStays
    <2> QED
        BY <1>1, <2>7, <2>8, <2>9, QuietEnds
<1>5. CASE ~(At("queue", b) # {} /\ Here.pass < MaxPasses)
    <2> DEFINE f == [Here EXCEPT !.stage = "finish"]
               S == At("queue", b)
    <2>1. MovedTo(items', S, "leaked") /\ stack' = Append(Below, f)
        BY <1>5 DEF CloseDrains, MovedTo, Onward
    <2>2. "finish" \in Stages
        BY DEF Stages
    <2>3. f \in CloseFrames /\ f.b = b /\ f.by = Here.by /\ f.stage = "finish"
        BY <1>2, <2>2, StageFrame
    <2> HIDE DEF f
    <2>4. /\ Held(stack', {b})
          /\ \A T : "finish" \in T \/ ("drain" \notin T /\ ClosingAt(stack, b, T)) => ClosingAt(stack', b, T)
          /\ \A i : InDrain(stack, i) => InDrain(stack', i)
        BY <1>1, <2>1, <2>3, TurnHeld
    <2>5. /\ ClosingAt(stack', b, Stages)
          /\ ClosingAt(stack, b, {"abandon"}) => ClosingAt(stack', b, {"abandon"})
        <3>1. "drain" \notin {"abandon"}
            OBVIOUS
        <3> QED
            BY <2>2, <2>4, <3>1
    <2>6. \A i \in Items : i \in S <=> items[i].at = "queue" /\ items[i].of = b
        BY DEF At
    <2> HIDE DEF S
    <2>7. /\ \A i \in Items : i \in S => items'[i].at = "leaked" /\ items'[i].of = items[i].of
          /\ \A i \in Items : i \notin S => items'[i] = items[i]
          /\ \A i \in Items : items'[i].refs = items[i].refs
        BY <1>3, <2>1, MovedReads
    <2>8. ASSUME NEW i \in Items PROVE ItemEnds(stack', boxes', items'[i], i)
        <3>1. CASE i \in S
            <4>1. items'[i].at = "leaked"
                BY <2>7, <3>1
            <4> QED
                BY <4>1, ItemGone
        <3>2. CASE i \notin S
            <4>1. items'[i] = items[i]
                BY <2>7, <3>2
            <4>2. items[i].at = "lua" /\ items[i].of = b => ClosingAt(stack', b, {"abandon"})
                BY <1>2, <2>5 DEF EndInv, ItemEnds
            <4>3. ~(items[i].at = "queue" /\ items[i].of = b)
                BY <2>6, <3>2
            <4>4. /\ \A c \in Boxes : c # b => boxes'[c].lua = boxes[c].lua
                  /\ InDrain(stack, i) => InDrain(stack', i)
                BY <1>1, <2>4
            <4> QED
                BY <2>4, <4>1, <4>2, <4>3, <4>4, TurnedItem
        <3> QED
            BY <3>1, <3>2
    <2> QED
        BY <1>1, <1>2, <1>3, <2>4, <2>5, <2>7, <2>8, TurnEnds DEF ItemsEnd
<1> QED
    BY <1>4, <1>5
LEMMA UnlinkedReads ==
    ASSUME liveList \in Seq(Boxes), NEW b \in Boxes, Once(liveList)
    PROVE  /\ Once(Unlinked(b))
           /\ \A c : Listed(Unlinked(b), c) <=> Listed(liveList, c) /\ c # b
<1>1. CASE b \notin Range(liveList)
    <2>1. Unlinked(b) = liveList
        BY <1>1 DEF Unlinked
    <2>2. ~Listed(liveList, b)
        BY <1>1 DEF Range, Listed
    <2> QED
        BY <2>1, <2>2 DEF Listed
<1>2. CASE b \in Range(liveList)
    <2> DEFINE x == CHOOSE n \in DOMAIN liveList : liveList[n] = b
               l == Len(liveList)
               s == SubSeq(liveList, 1, x - 1)
               t == SubSeq(liveList, x + 1, l)
               v == Unlinked(b)
    <2>1. x \in 1 .. l /\ l \in Nat /\ liveList[x] = b
        BY <1>2 DEF Range
    <2>2. v = s \o t
        BY <1>2 DEF Unlinked, RemoveAt
    <2> HIDE DEF x, v
    <2>3. s \in Seq(Boxes) /\ Len(s) = x - 1 /\ \A n \in 1 .. x - 1 : s[n] = liveList[n]
        BY <2>1
    <2>4. t \in Seq(Boxes) /\ Len(t) = l - x /\ \A n \in 1 .. l - x : t[n] = liveList[n + x]
        BY <2>1
    <2> HIDE DEF s, t
    <2>5. Len(v) = l - 1
        <3>1. Len(s \o t) = Len(s) + Len(t)
            BY <2>3, <2>4, Joined
        <3>2. (x - 1) + (l - x) = l - 1
            BY <2>1
        <3> QED
            BY <2>2, <2>3, <2>4, <3>1, <3>2
    <2>6. ASSUME NEW n \in 1 .. x - 1 PROVE v[n] = liveList[n] /\ n \in 1 .. l - 1
        <3>1. (s \o t)[n] = s[n]
            BY <2>3, <2>4
        <3>2. n \in 1 .. l - 1
            BY <2>1
        <3> QED
            BY <2>2, <2>3, <3>1, <3>2
    <2>7. ASSUME NEW n \in x .. l - 1 PROVE v[n] = liveList[n + 1] /\ n + 1 \in x + 1 .. l
        <3>1. (s \o t)[n] = t[n - (x - 1)]
            BY <2>1, <2>3, <2>4
        <3>2. n - (x - 1) \in 1 .. l - x /\ n - (x - 1) + x = n + 1 /\ n + 1 \in x + 1 .. l
            BY <2>1
        <3>3. t[n - (x - 1)] = liveList[n + 1]
            BY <2>4, <3>2
        <3> QED
            BY <2>2, <3>1, <3>2, <3>3
    <2> HIDE DEF l
    <2>8. ASSUME NEW n \in 1 .. l - 1
          PROVE  \E k \in 1 .. l : /\ v[n] = liveList[k] /\ k # x
                                   /\ (k = n /\ n < x) \/ (k = n + 1 /\ x <= n)
        <3>1. CASE n < x
            <4>1. n \in 1 .. x - 1 /\ n \in 1 .. l /\ n # x
                BY <2>1, <3>1
            <4> QED
                BY <2>6, <3>1, <4>1
        <3>2. CASE x <= n
            <4>1. n \in x .. l - 1 /\ n + 1 \in 1 .. l /\ n + 1 # x
                BY <2>1, <3>2
            <4> QED
                BY <2>7, <3>2, <4>1
        <3> QED
            BY <2>1, <3>1, <3>2
    <2>9. Once(v)
        <3>1. ASSUME NEW n \in 1 .. l - 1, NEW m \in 1 .. l - 1, n # m PROVE v[n] # v[m]
            <4>1. PICK k \in 1 .. l : /\ v[n] = liveList[k]
                                      /\ (k = n /\ n < x) \/ (k = n + 1 /\ x <= n)
                BY <2>8
            <4>2. PICK j \in 1 .. l : /\ v[m] = liveList[j]
                                      /\ (j = m /\ m < x) \/ (j = m + 1 /\ x <= m)
                BY <2>8
            <4>3. k # j
                BY <2>1, <3>1, <4>1, <4>2
            <4> QED
                BY <4>1, <4>2, <4>3 DEF Once, l
        <3> QED
            BY <2>5, <3>1 DEF Once
    <2>10. ASSUME NEW c, Listed(v, c) PROVE Listed(liveList, c) /\ c # b
        <3>1. PICK n \in 1 .. l - 1 : v[n] = c
            BY <2>5, <2>10 DEF Listed
        <3>2. PICK k \in 1 .. l : v[n] = liveList[k] /\ k # x
            BY <2>8
        <3>3. liveList[k] # liveList[x]
            BY <2>1, <3>2 DEF Once, l
        <3> QED
            BY <2>1, <3>1, <3>2, <3>3 DEF Listed, l
    <2>11. ASSUME NEW c, Listed(liveList, c), c # b PROVE Listed(v, c)
        <3>1. PICK k \in 1 .. l : liveList[k] = c
            BY <2>11 DEF Listed, l
        <3>2. k # x
            BY <2>1, <2>11, <3>1
        <3>3. CASE k < x
            <4>1. k \in 1 .. x - 1 /\ k \in 1 .. l - 1
                BY <2>1, <3>3
            <4>2. v[k] = c
                BY <2>6, <3>1, <4>1
            <4> QED
                BY <2>5, <4>1, <4>2 DEF Listed
        <3>4. CASE k > x
            <4>1. k - 1 \in x .. l - 1 /\ k - 1 \in 1 .. l - 1 /\ (k - 1) + 1 = k
                BY <2>1, <3>4
            <4>2. v[k - 1] = c
                BY <2>7, <3>1, <4>1
            <4> QED
                BY <2>5, <4>1, <4>2 DEF Listed
        <3> QED
            BY <2>1, <3>2, <3>3, <3>4
    <2> QED
        BY <2>9, <2>10, <2>11 DEF v
<1> QED
    BY <1>1, <1>2

LEMMA CloseUnlinksEnds ==
    ASSUME Inv, EndInv, request # "over", NEW b \in Boxes, CloseUnlinks(b) PROVE EndInv'
<1>1. /\ Stage(b, "finish") /\ liveList' = Unlinked(b) /\ stack' = Below /\ Dying = {}
      /\ items' = items /\ handles' = handles /\ request' = request
      /\ boxes' = [boxes EXCEPT ![b].made = "freed"] \/ boxes' = boxes
    BY DEF CloseUnlinks, Stage
<1>2. /\ Here.b = b /\ boxes[b].closed /\ boxes[b].lua # "up" /\ Here.stage = "finish"
      /\ stack # <<>> /\ Here.k = "close"
    BY <1>1, TopClose DEF CloseFits
<1>3. boxes \in [Boxes -> BoxRecord] /\ liveList \in Seq(Boxes) /\ boxes[b].made # "unborn"
    <2>1. Grown(b)
        BY <1>2, HereGrown
    <2> QED
        BY <2>1 DEF Inv, Born, Grown
<1>4. /\ Once(liveList')
      /\ \A c : Listed(liveList', c) <=> Listed(liveList, c) /\ c # b
    BY <1>1, <1>3, UnlinkedReads DEF EndInv
<1>5. /\ \A c \in Boxes : c # b => boxes'[c] = boxes[c]
      /\ boxes'[b].lua = boxes[b].lua /\ boxes'[b].closed = boxes[b].closed
      /\ boxes'[b].var = boxes[b].var /\ boxes'[b].made # "unborn"
    <2>1. CASE boxes' = boxes
        BY <1>3, <2>1
    <2>2. CASE boxes' = [boxes EXCEPT ![b].made = "freed"]
        <3>1. boxes[b] \in BoxRecord
            BY <1>3
        <3> QED
            BY <1>3, <2>2, <3>1 DEF BoxRecord
    <2> QED
        BY <1>1, <2>1, <2>2
<1>6. Held(stack', {b})
    BY <1>1, <1>2, HeldBelow
<1>7. ASSUME NEW i \in Items PROVE InDrain(stack, i) => InDrain(stack', i)
    BY <1>1, <1>2, DrainsBelow
<1>8. /\ ClosingAt(stack, b, {"abandon"}) => ClosingAt(stack', b, {"abandon"})
      /\ ClosingAt(stack, b, {"abandon", "drain"}) => ClosingAt(stack', b, {"abandon", "drain"})
    <2>1. Here.stage \notin {"abandon"} /\ Here.stage \notin {"abandon", "drain"}
        BY <1>2
    <2> QED
        BY <1>1, <1>2, <2>1, ClosingBelow
<1>9. ASSUME NEW c \in Boxes PROVE BoxEnds(stack', boxes'[c], liveList', c)
    <2>1. CASE c = b
        BY <1>2, <1>4, <1>5, <2>1 DEF BoxEnds
    <2>2. CASE c # b
        <3>1. BoxEnds(stack', boxes[c], liveList, c)
            BY <1>6, <2>2, BoxStays
        <3> QED
            BY <1>4, <1>5, <2>2, <3>1 DEF BoxEnds
    <2> QED
        BY <2>1, <2>2
<1>10. Awaited'
    <2>1. ASSUME NEW c \in Boxes, boxes'[c].lua = "up", ~boxes'[c].closed PROVE Listed(liveList', c)
        <3>1. c # b
            BY <1>2, <1>5, <2>1
        <3>2. Listed(liveList, c)
            BY <1>1, <1>5, <2>1, <3>1 DEF EndInv, Awaited
        <3> QED
            BY <1>4, <3>1, <3>2
    <2> QED
        BY <2>1 DEF Awaited
<1>11. ASSUME NEW i \in Items PROVE ItemEnds(stack', boxes', items'[i], i)
    <2>1. ItemEnds(stack, boxes, items[i], i)
        BY DEF EndInv
    <2>2. /\ items[i].at = "lua" /\ items[i].of = b => ClosingAt(stack', b, {"abandon"})
          /\ items[i].at = "queue" /\ items[i].of = b => ClosingAt(stack', b, {"abandon", "drain"})
        BY <1>2, <1>8, <2>1 DEF ItemEnds
    <2>3. items'[i] = items[i] /\ \A c \in Boxes : c # b => boxes'[c].lua = boxes[c].lua
        BY <1>1, <1>5
    <2> QED
        BY <1>6, <1>7, <2>2, <2>3, TurnedItem
<1>12. SweptFits(stack')
    BY <1>6 DEF Held
<1>13. ASSUME NEW c \in Boxes, boxes'[c].made = "unborn" PROVE Unheld(stack, c)'
    <2>1. c # b
        BY <1>5, <1>13
    <2>2. boxes'[c] = boxes[c] /\ Unheld(stack, c)
        BY <1>5, <1>13, <2>1 DEF EndInv
    <2>3. \A n \in 1 .. Len(stack') : stack'[n].b # c
        BY <1>5, <1>6, <1>13, <2>1 DEF Held
    <2> QED
        BY <1>1, <2>2, <2>3 DEF Unheld
<1> QED
    BY <1>1, <1>4, <1>9, <1>10, <1>11, <1>12, <1>13 DEF EndInv

--------------------------------------------------------------------------------
(* The end of the request, and the jump to it.                                  *)

LEMMA SweepFrames ==
    ASSUME NEW b \in Boxes \cup {Nothing}
    PROVE  SweepFrame(b) \in Frames /\ SweepFrame(b).k = "sweep" /\ SweepFrame(b).b = b
    BY DEF SweepFrame, Frames

LEMMA EndRequestEnds ==
    ASSUME Inv, EndInv, EndRequest PROVE EndInv'
<1> DEFINE f == SweepFrame(Nothing)
<1>1. /\ stack = <<>> /\ request' = "ending" /\ Dying = {} /\ stack' = <<f>>
      /\ boxes' = boxes /\ items' = items /\ handles' = handles /\ liveList' = liveList
    BY DEF EndRequest
<1>2. f \in Frames /\ f.k # "close" /\ f.b = Nothing
    BY SweepFrames
<1> HIDE DEF f
<1>3. stack' = Append(stack, f) /\ Grown(f.b)
    BY <1>1, <1>2, NobodyGrown
<1>4. /\ Elsewhere({}) /\ \A c \in Boxes : boxes'[c].lua = boxes[c].lua
      /\ \A c \in Boxes : boxes'[c].var => boxes[c].var \/ boxes[c].made # "unborn"
    BY <1>1, SameElsewhere
<1> QED
    BY <1>1, <1>2, <1>3, <1>4, PushEnds

(* The sweep on top, and what takes its place. *)
LEMMA SweepTurnHeld ==
    ASSUME Inv, EndInv, HereIs("sweep"), NEW b \in Boxes \cup {Nothing}, Grown(b)
    PROVE  /\ Append(Below, SweepFrame(b)) \in Seq(Frames) /\ Held(Append(Below, SweepFrame(b)), {})
           /\ Len(Append(Below, SweepFrame(b))) > 0
           /\ Append(Below, SweepFrame(b))[1].k = "sweep" /\ Append(Below, SweepFrame(b))[1].b = b
           /\ \A i \in Items : InDrain(stack, i) => InDrain(Append(Below, SweepFrame(b)), i)
<1> DEFINE f == SweepFrame(b)
<1>1. /\ stack # <<>> /\ Here.k = "sweep" /\ Below \in Seq(Frames) /\ Len(Below) = 0
    BY TopSweep
<1>2. f \in Frames /\ f.k = "sweep" /\ f.b = b
    BY SweepFrames
<1> HIDE DEF f
<1>3. Held(Below, {})
    BY <1>1, HeldBelow
<1>4. Held(Append(Below, f), {}) /\ Append(Below, f) \in Seq(Frames)
    BY <1>1, <1>2, <1>3, HeldMore
<1>5. ASSUME NEW i \in Items, InDrain(stack, i) PROVE InDrain(Append(Below, f), i)
    <2>1. InDrain(Below, i)
        BY <1>1, <1>5, DrainsBelow
    <2> QED
        BY <1>1, <1>2, <2>1, DrainsMore
<1>6. Len(Append(Below, f)) = 1 /\ Append(Below, f)[1] = f
    BY <1>1, <1>2
<1> QED
    BY <1>2, <1>4, <1>5, <1>6 DEF f

LEMMA SweepMovesEnds ==
    ASSUME Inv, EndInv, request # "over", request' = request, HereIs("sweep"), Dying = {},
           NEW b \in Boxes \cup {Nothing}, Grown(b), stack' = Append(Below, SweepFrame(b)),
           boxes' = boxes, items' = items, handles' = handles, liveList' = liveList
    PROVE  EndInv'
<1>1. Held(stack', {}) /\ \A i \in Items : InDrain(stack, i) => InDrain(stack', i)
    BY SweepTurnHeld
<1>2. /\ Elsewhere({}) /\ \A c \in Boxes : boxes'[c].lua = boxes[c].lua
      /\ \A c \in Boxes : boxes'[c].var => boxes[c].var \/ boxes[c].made # "unborn"
    BY SameElsewhere
<1>3. ItemsEnd
    BY <1>1, <1>2, ItemsStay
<1>4. NoneHeld
    BY <1>2, NothingNewHeld
<1> QED
    BY <1>1, <1>2, <1>3, <1>4, QuietEnds

LEMMA SweepClosesHeadEnds ==
    ASSUME Inv, EndInv, request # "over", SweepClosesHead PROVE EndInv'
<1> DEFINE b == Head(liveList)
           f == SweepFrame(b)
           g == CloseFrame(b, "sweep")
           u == Append(Below, f)
<1>1. /\ HereIs("sweep") /\ Dying = {} /\ liveList # <<>>
      /\ items' = items /\ handles' = handles /\ request' = request /\ liveList' = liveList
      /\ \/ stack' = u /\ boxes' = boxes
         \/ /\ stack' = Below \o <<f, g>> /\ boxes' = [boxes EXCEPT ![b].closed = TRUE]
            /\ ~boxes[b].closed
    BY DEF SweepClosesHead
<1>2. liveList \in Seq(Boxes)
    BY DEF Inv, Born
<1>3. b = liveList[1] /\ 1 \in 1 .. Len(liveList) /\ b \in Boxes
    BY <1>1, <1>2
<1>4. boxes[b].made = "made" /\ Grown(b)
    <2>1. Listed(liveList, b)
        BY <1>3 DEF Listed
    <2> QED
        BY <1>3, <2>1 DEF EndInv, BoxEnds, Grown
<1> HIDE DEF b
<1>5. CASE stack' = u /\ boxes' = boxes
    BY <1>1, <1>3, <1>4, <1>5, SweepMovesEnds
<1>6. CASE stack' = Below \o <<f, g>> /\ boxes' = [boxes EXCEPT ![b].closed = TRUE] /\ ~boxes[b].closed
    <2>1. /\ u \in Seq(Frames) /\ Held(u, {}) /\ Len(u) > 0 /\ u[1].k = "sweep" /\ u[1].b = b
          /\ \A i \in Items : InDrain(stack, i) => InDrain(u, i)
        BY <1>1, <1>3, <1>4, SweepTurnHeld
    <2>2. f \in Frames
        BY <1>3, SweepFrames
    <2>3. g \in Frames
        <3>1. MaxPasses \in Nat
            BY LifecycleAssumption
        <3>2. g \in CloseFrames
            BY <1>3, <3>1 DEF CloseFrame, CloseFrames
        <3> HIDE DEF g
        <3> QED
            BY <3>2 DEF Frames, CloseFrames
    <2>4. stack' = Append(u, g)
        <3>1. Below \in Seq(Frames)
            BY <1>1, TopSweep
        <3> HIDE DEF f, g
        <3> QED
            BY <1>6, <2>2, <2>3, <3>1, TwoMore
    <2> HIDE DEF u
    <2>5. \A c \in Boxes : boxes[c].lua = "up" /\ ~boxes[c].closed => Listed(liveList, c)
        BY <1>1 DEF EndInv, Awaited
    <2> QED
        BY <1>1, <1>3, <1>4, <1>6, <2>1, <2>4, <2>5, BeginsEnds
<1> QED
    BY <1>1, <1>5, <1>6

LEMMA SweepReleasesEnds ==
    ASSUME Inv, EndInv, request # "over", SweepReleases PROVE EndInv'
<1>1. /\ HereIs("sweep") /\ Dying = {} /\ stack' = Append(Below, SweepFrame(Nothing))
      /\ boxes' = boxes /\ items' = items /\ handles' = handles /\ request' = request
      /\ liveList' = liveList
    BY DEF SweepReleases
<1> QED
    BY <1>1, NobodyGrown, SweepMovesEnds

LEMMA BareSweep ==
    ASSUME Inv, HereIs("sweep")
    PROVE  /\ \A b, S : ~ClosingAt(stack, b, S)
           /\ \A i : ~InDrain(stack, i)
<1>1. Len(stack) = 1 /\ stack[1].k = "sweep"
    BY TopSweep
<1> QED
    BY <1>1 DEF ClosingAt, InDrain

LEMMA SweepOverEnds ==
    ASSUME Inv, EndInv, SweepOver PROVE EndInv'
<1>1. /\ HereIs("sweep") /\ Dying = {} /\ liveList = <<>> /\ stack' = <<>> /\ request' = "over"
      /\ boxes' = boxes /\ items' = items /\ handles' = handles /\ liveList' = liveList
    BY DEF SweepOver
<1>2. (\A b, S : ~ClosingAt(stack, b, S)) /\ \A i : ~InDrain(stack, i)
    BY <1>1, BareSweep
<1>3. \A b : ~Listed(liveList, b)
    BY <1>1 DEF Listed
<1>4. ASSUME NEW b \in Boxes PROVE BoxEnds(stack', boxes'[b], liveList', b)
    BY <1>1, <1>2, <1>3 DEF EndInv, BoxEnds
<1>5. Awaited'
    BY <1>1, <1>3 DEF EndInv, Awaited
<1>6. ASSUME NEW i \in Items PROVE ItemEnds(stack', boxes', items'[i], i)
    BY <1>1, <1>2 DEF EndInv, ItemEnds
<1>7. SweptFits(stack')
    BY <1>1 DEF SweptFits
<1>8. ASSUME NEW b \in Boxes, boxes'[b].made = "unborn" PROVE Unheld(stack, b)'
    BY <1>1, <1>8 DEF EndInv, Unheld
<1> QED
    BY <1>1, <1>4, <1>5, <1>6, <1>7, <1>8 DEF EndInv

(* A jump over a stack with no close on it: nothing waits for what it drops.    *)
LEMMA JumpOutEnds ==
    ASSUME Inv, EndInv, Dying = {}, handles' = handles, liveList' = liveList,
           ~\E n \in DOMAIN stack : stack[n].k = "close", NEW extra, JumpOut(extra)
    PROVE  EndInv'
<1> DEFINE f == SweepFrame(Nothing)
           S == {i \in Items : items[i].at = "detached"}
<1>1. request' = "crashed" /\ stack' = <<f>>
    BY DEF JumpOut
<1>2. stack \in Seq(Frames) /\ boxes \in [Boxes -> BoxRecord] /\ items \in [Items -> ItemRecord]
    BY Shapes DEF Inv
<1>3. \A b, T : ~ClosingAt(stack, b, T)
    BY <1>2 DEF ClosingAt
<1>4. f.k = "sweep" /\ f.b = Nothing
    BY SweepFrames
<1> HIDE DEF f
<1>5. Held(stack', {})
    <2>1. Len(stack') = 1 /\ stack'[1] = f
        BY <1>1
    <2>2. SweptFits(stack')
        BY <1>4, <2>1 DEF SweptFits
    <2>3. \A b \in Boxes : \A n \in 1 .. Len(stack') : stack'[n].b # b
        BY <1>4, <2>1, LifecycleAssumption
    <2> QED
        BY <1>3, <2>2, <2>3 DEF Held
<1>6. ASSUME NEW c \in Boxes
      PROVE  /\ boxes'[c].made = boxes[c].made /\ boxes'[c].closed = boxes[c].closed
             /\ boxes'[c].lua = boxes[c].lua
             /\ boxes'[c].var => boxes[c].var \/ boxes[c].made # "unborn"
    <2>1. PICK v, w, p :
            /\ boxes'[c] = [boxes[c] EXCEPT !.var = v, !.wreck = w, !.panicked = p]
            /\ v = (boxes[c].var \/ ((\E n \in DOMAIN stack : stack[n].b = c) /\ boxes[c].made = "made"))
        BY DEF JumpOut
    <2>2. boxes[c] \in BoxRecord
        BY <1>2
    <2>3. /\ boxes'[c].made = boxes[c].made /\ boxes'[c].closed = boxes[c].closed
          /\ boxes'[c].lua = boxes[c].lua /\ boxes'[c].var = v
        BY <2>1, <2>2 DEF BoxRecord
    <2>4. boxes'[c].var => boxes[c].var \/ boxes[c].made # "unborn"
        BY <2>1, <2>3
    <2> QED
        BY <2>3, <2>4
<1>7. MovedTo(items', S, "leaked")
    BY DEF JumpOut, MovedTo
<1>8. \A i \in Items : i \in S <=> items[i].at = "detached"
    OBVIOUS
<1> HIDE DEF S
<1>9. /\ \A i \in Items : i \in S => items'[i].at = "leaked"
      /\ \A i \in Items : i \notin S => items'[i] = items[i]
      /\ \A i \in Items : items'[i].refs = items[i].refs
    BY <1>2, <1>7, MovedReads
<1>10. ASSUME NEW i \in Items PROVE ItemEnds(stack', boxes', items'[i], i)
    <2>1. CASE i \in S
        BY <1>9, <2>1, ItemGone
    <2>2. CASE i \notin S
        <3>1. items'[i] = items[i] /\ items[i].at # "detached"
            BY <1>8, <1>9, <2>2
        <3>2. \A c \in Boxes : boxes[c].lua = "up" => boxes'[c].lua = "up"
            BY <1>6
        <3> QED
            BY <1>5, <3>1, <3>2, OtherItems
    <2> QED
        BY <2>1, <2>2
<1>11. Elsewhere({})
    BY <1>6 DEF Elsewhere
<1>12. NoneHeld
    <2>1. \A h \in Handles : handles'[h].of = handles[h].of
        OBVIOUS
    <2>2. \A c \in Boxes : boxes'[c].var => boxes[c].var \/ boxes[c].made # "unborn"
        BY <1>6
    <2> QED
        BY <1>9, <2>1, <2>2, NoneHeldStays
<1> QED
    BY <1>1, <1>5, <1>10, <1>11, <1>12, QuietEnds DEF ItemsEnd

--------------------------------------------------------------------------------

LEMMA InitEnds ==
    ASSUME LifecycleInit PROVE EndInv
<1>1. /\ boxes = [b \in Boxes |-> BlankBox] /\ liveList = <<>> /\ stack = <<>>
      /\ items = [i \in Items |-> BlankItem] /\ request = "running"
      /\ handles = [h \in Handles |-> [of |-> Nothing, slot |-> 0]]
    BY DEF LifecycleInit
<1>2. Len(liveList) = 0 /\ Len(stack) = 0
    BY <1>1
<1>3. \A b \in Boxes : boxes[b].lua = "none" /\ ~boxes[b].var
    BY <1>1 DEF BlankBox
<1>4. \A i \in Items : items[i].at = "host" /\ items[i].refs = Nothing
    BY <1>1 DEF BlankItem
<1>5. Once(liveList) /\ SweptFits(stack)
    BY <1>2 DEF Once, SweptFits
<1>6. \A b \in Boxes : BoxEnds(stack, boxes[b], liveList, b)
    BY <1>2, <1>3 DEF BoxEnds, Listed
<1>7. Awaited
    BY <1>3 DEF Awaited
<1>8. \A i \in Items : ItemEnds(stack, boxes, items[i], i)
    BY <1>4 DEF ItemEnds
<1>9. ASSUME NEW b \in Boxes PROVE Unheld(stack, b)
    <2>1. b # Nothing
        BY LifecycleAssumption
    <2>2. \A h \in Handles : handles[h].of = Nothing
        BY <1>1
    <2> QED
        BY <1>2, <1>3, <1>4, <2>1, <2>2 DEF Unheld
<1> QED
    BY <1>1, <1>5, <1>6, <1>7, <1>8, <1>9 DEF EndInv

LEMMA StepEnds ==
    ASSUME ~FatalInTeardown, Inv, EndInv, [LifecycleNext]_lifecycleVars PROVE EndInv'
<1>1. CASE UNCHANGED lifecycleVars
    <2>1. Awaited' /\ \A b \in Boxes : (Unheld(stack, b)' <=> Unheld(stack, b))
        BY <1>1 DEF lifecycleVars, EndInv, Awaited, Dying, Referenced, Unheld
    <2> QED
        BY <1>1, <2>1 DEF lifecycleVars, EndInv
<1>2. CASE LifecycleEngine
    <2>1. request # "over"
        BY <1>2, NotOver DEF LifecycleNext
    <2>2. CASE CallReturns \/ HostReturns \/ DrainOne \/ DrainDone
        BY <2>1, <2>2, CallReturnsEnds, HostReturnsEnds, DrainOneEnds, DrainDoneEnds
    <2>3. CASE SweepClosesHead \/ SweepReleases \/ SweepOver
        BY <2>1, <2>3, SweepClosesHeadEnds, SweepReleasesEnds, SweepOverEnds
    <2>4. ASSUME NEW b \in Boxes, \/ Free(b) \/ CloseDropsItsOwn(b) \/ CloseDestroys(b)
                                  \/ CloseHasNothing(b)
          PROVE  EndInv'
        BY <2>1, <2>4, FreeEnds, CloseDropsItsOwnEnds, CloseDestroysEnds, CloseHasNothingEnds
    <2>5. ASSUME NEW b \in Boxes, \/ CloseAbandons(b) \/ ReleaseAbandoned(b)
                                  \/ CloseDrains(b) \/ CloseUnlinks(b)
          PROVE  EndInv'
        BY <2>1, <2>5, CloseAbandonsEnds, ReleaseAbandonedEnds, CloseDrainsEnds, CloseUnlinksEnds
    <2> QED
        BY <1>2, <2>2, <2>3, <2>4, <2>5 DEF LifecycleEngine
<1>3. CASE CallOut \/ EndRequest \/ Bailout
    <2>1. request # "over"
        BY <1>3, NotOver DEF LifecycleNext
    <2>2. CASE Bailout
        BY <2>2, JumpOutEnds DEF Bailout, HostRuns
    <2> QED
        BY <1>3, <2>1, <2>2, CallOutEnds, EndRequestEnds
<1>4. CASE (\E i \in Items : Finalised(i)) \/ (\E h \in Handles : DropHandle(h))
    <2>1. request # "over"
        BY <1>4, NotOver DEF LifecycleNext
    <2> QED
        BY <1>4, <2>1, FinalisedEnds, SmallDataEnds
<1>5. ASSUME NEW b \in Boxes,
             \/ Construct(b) \/ ConstructFails(b) \/ DropVariable(b)
             \/ CallIn(b) \/ CloseMethod(b) \/ CollectCycle(b) \/ Panic(b) \/ MakeHandleFails(b)
             \/ \E i \in Items : HandOver(b, i)
             \/ \E h \in Handles : MakeHandle(b, h)
      PROVE  EndInv'
    <2>1. request # "over"
        BY <1>5, NotOver DEF LifecycleNext
    <2>2. CASE Panic(b)
        BY <2>2, JumpOutEnds DEF Panic, HostRuns
    <2>3. CASE Construct(b) \/ ConstructFails(b)
        BY <2>1, <2>3, ConstructEnds, ConstructFailsEnds
    <2>4. CASE DropVariable(b) \/ MakeHandleFails(b) \/ \E h \in Handles : MakeHandle(b, h)
        BY <2>1, <2>4, SmallDataEnds
    <2>5. CASE CallIn(b) \/ CloseMethod(b) \/ CollectCycle(b)
        BY <2>1, <2>5, CallInEnds, CloseMethodEnds
    <2>6. CASE \E i \in Items : HandOver(b, i)
        BY <2>1, <2>6, HandOverEnds
    <2> QED
        BY <1>5, <2>2, <2>3, <2>4, <2>5, <2>6
<1> QED
    BY <1>1, <1>2, <1>3, <1>4, <1>5 DEF LifecycleNext

LEMMA NothingIsLeft ==
    ASSUME Inv, EndInv PROVE NothingOutlivesTheRequest
<1>1. ASSUME request = "over"
      PROVE  /\ \A b \in Boxes : boxes[b].lua # "up"
             /\ \A i \in Items : items[i].at \notin {"lua", "queue", "detached"}
    <2>1. stack = <<>> /\ Dying = {} /\ liveList = <<>>
        BY <1>1 DEF Inv, EndInv
    <2>2. Len(stack) = 0 /\ Len(liveList) = 0
        BY <2>1
    <2>3. (\A b, S : ~ClosingAt(stack, b, S)) /\ (\A i : ~InDrain(stack, i)) /\ \A b : ~Listed(liveList, b)
        BY <2>2 DEF ClosingAt, InDrain, Listed
    <2>4. \A b \in Boxes : boxes[b].lua # "up"
        BY <2>1, <2>3 DEF EndInv, Awaited, BoxEnds
    <2>5. \A i \in Items : items[i].at \notin {"lua", "queue", "detached"}
        BY <2>3, <2>4 DEF EndInv, ItemEnds
    <2> QED
        BY <2>4, <2>5
<1>2. ASSUME NEW b \in Range(liveList) PROVE boxes[b].made = "made"
    <2>1. liveList \in Seq(Boxes)
        BY DEF Inv, Born
    <2>2. b \in Boxes /\ Listed(liveList, b)
        BY <1>2, <2>1 DEF Range, Listed
    <2> QED
        BY <2>2 DEF EndInv, BoxEnds
<1> QED
    BY <1>1, <1>2 DEF NothingOutlivesTheRequest

(* When no fatal error strikes a close under way, the end of the request leaves *)
(* no interpreter, no object in Lua's custody and no freed sandbox on the list, *)
(* whatever destructors do while it closes what it finds (PHP_RSHUTDOWN,        *)
(* luaext_sandbox_close).                                                       *)
THEOREM TheRequestEndsClean ==
    ASSUME ~FatalInTeardown
    PROVE  LifecycleSpec => []NothingOutlivesTheRequest
<1>1. LifecycleInit => EndInv
    BY InitEnds
<1>2. Inv /\ EndInv /\ [LifecycleNext]_lifecycleVars => EndInv'
    BY StepEnds
<1>3. Inv /\ EndInv => NothingOutlivesTheRequest
    BY NothingIsLeft
<1> QED
    BY <1>1, <1>2, <1>3, InvHolds, PTL DEF LifecycleSpec

--------------------------------------------------------------------------------
(* That every variable has its type is not inductive: in_php goes down by one   *)
(* whenever a callable returns.  It counts the callables on the C stack, as     *)
(* in_lua counts the calls, until a jump, after which neither moves; and both   *)
(* went up only with room on the stack.  A registry keeps its size when nobody  *)
(* uses it any more.                                                            *)

PhpFrames(s, b) == {n \in 1 .. Len(s) : s[n].k = "php" /\ s[n].b = b}
PhpDepth(s, b)  == Cardinality(PhpFrames(s, b))

PhpCounted == request \in {"running", "ending"} =>
                    \A b \in Boxes : boxes[b].inPhp = PhpDepth(stack, b)
Bounded    == /\ \A b \in Boxes : boxes[b].inLua \in 0 .. MaxStack /\ boxes[b].inPhp \in 0 .. MaxStack
              /\ \A b \in Boxes : registry[b].next \in 1 .. Cardinality(Handles) + 2
              /\ steps \in 0 .. MaxSteps

TallyInv == PhpCounted /\ Bounded

LEMMA PhpDepthIsNat ==
    ASSUME NEW s \in Seq(Frames), NEW b
    PROVE  /\ IsFiniteSet(PhpFrames(s, b)) /\ PhpDepth(s, b) \in 0 .. Len(s)
           /\ Depth(s, b) \in 0 .. Len(s)
           /\ (\E n \in 1 .. Len(s) : s[n].k = "php" /\ s[n].b = b) => PhpDepth(s, b) > 0
<1>1. Len(s) \in Nat
    OBVIOUS
<1>2. IsFiniteSet(1 .. Len(s)) /\ Cardinality(1 .. Len(s)) = Len(s)
    BY <1>1, FS_Interval
<1>3. PhpFrames(s, b) \subseteq 1 .. Len(s) /\ LuaFrames(s, b) \subseteq 1 .. Len(s)
    BY DEF PhpFrames, LuaFrames
<1>4. /\ IsFiniteSet(PhpFrames(s, b)) /\ PhpDepth(s, b) <= Len(s)
      /\ IsFiniteSet(LuaFrames(s, b)) /\ Depth(s, b) <= Len(s)
    BY <1>2, <1>3, FS_Subset DEF PhpDepth, Depth
<1>5. PhpDepth(s, b) \in Nat /\ Depth(s, b) \in Nat
    BY <1>4, FS_CardinalityType DEF PhpDepth, Depth
<1>6. PhpDepth(s, b) = 0 => PhpFrames(s, b) = {}
    BY <1>4, FS_EmptySet DEF PhpDepth
<1>7. ASSUME NEW n \in 1 .. Len(s), s[n].k = "php" /\ s[n].b = b PROVE PhpDepth(s, b) > 0
    <2>1. n \in PhpFrames(s, b)
        BY <1>7 DEF PhpFrames
    <2> QED
        BY <1>5, <1>6, <2>1
<1> QED
    BY <1>1, <1>4, <1>5, <1>7

LEMMA PhpPush ==
    ASSUME NEW s \in Seq(Frames), NEW t \in Seq(Frames), Len(t) = Len(s) + 1,
           \A n \in 1 .. Len(s) : t[n] = s[n], NEW b
    PROVE  /\ t[Len(t)].k = "php" /\ t[Len(t)].b = b => PhpDepth(t, b) = PhpDepth(s, b) + 1
           /\ ~(t[Len(t)].k = "php" /\ t[Len(t)].b = b) => PhpDepth(t, b) = PhpDepth(s, b)
<1> DEFINE l == Len(s)
<1>1. l \in Nat /\ Len(t) = l + 1
    OBVIOUS
<1>2. \A n \in 1 .. l + 1 : n \in 1 .. l \/ n = l + 1
    BY <1>1
<1>3. CASE t[l + 1].k = "php" /\ t[l + 1].b = b
    <2>1. PhpFrames(t, b) = PhpFrames(s, b) \cup {l + 1}
        BY <1>1, <1>2, <1>3 DEF PhpFrames
    <2>2. l + 1 \notin PhpFrames(s, b)
        BY <1>1 DEF PhpFrames
    <2>3. IsFiniteSet(PhpFrames(s, b))
        BY PhpDepthIsNat
    <2>4. Cardinality(PhpFrames(s, b) \cup {l + 1}) = Cardinality(PhpFrames(s, b)) + 1
        BY <2>2, <2>3, FS_AddElement
    <2> QED
        BY <1>1, <1>3, <2>1, <2>4 DEF PhpDepth
<1>4. CASE ~(t[l + 1].k = "php" /\ t[l + 1].b = b)
    <2>1. PhpFrames(t, b) = PhpFrames(s, b)
        BY <1>1, <1>2, <1>4 DEF PhpFrames
    <2> QED
        BY <1>1, <1>4, <2>1 DEF PhpDepth
<1> QED
    BY <1>1, <1>3, <1>4

LEMMA PhpAppend ==
    ASSUME NEW s \in Seq(Frames), NEW f \in Frames
    PROVE  /\ Append(s, f) \in Seq(Frames)
           /\ f.k # "php" => \A b \in Boxes : PhpDepth(Append(s, f), b) = PhpDepth(s, b)
           /\ f.k = "php" => \A b \in Boxes :
                PhpDepth(Append(s, f), b) = PhpDepth(s, b) + (IF b = f.b THEN 1 ELSE 0)
<1> DEFINE t == Append(s, f)
<1>1. /\ t \in Seq(Frames) /\ Len(t) = Len(s) + 1 /\ t[Len(s) + 1] = f
      /\ \A n \in 1 .. Len(s) : t[n] = s[n]
    BY OneMore
<1> HIDE DEF t
<1>2. \A b \in Boxes : PhpDepth(s, b) \in Nat
    BY PhpDepthIsNat
<1>3. ASSUME NEW b \in Boxes
      PROVE  /\ f.k = "php" /\ f.b = b => PhpDepth(t, b) = PhpDepth(s, b) + 1
             /\ ~(f.k = "php" /\ f.b = b) => PhpDepth(t, b) = PhpDepth(s, b)
    BY <1>1, PhpPush
<1> QED
    BY <1>1, <1>2, <1>3 DEF t

LEMMA PhpBelow ==
    ASSUME Inv, stack # <<>>
    PROVE  /\ Below \in Seq(Frames) /\ Here \in Frames /\ Here = stack[Len(stack)]
           /\ Here.k # "php" => \A b \in Boxes : PhpDepth(Below, b) = PhpDepth(stack, b)
           /\ Here.k = "php" => \A b \in Boxes :
                PhpDepth(stack, b) = PhpDepth(Below, b) + (IF b = Here.b THEN 1 ELSE 0)
<1>1. /\ stack \in Seq(Frames) /\ Here = stack[Len(stack)] /\ Here \in Frames
      /\ Below \in Seq(Frames) /\ Len(stack) = Len(Below) + 1
      /\ \A n \in 1 .. Len(Below) : stack[n] = Below[n]
    BY Shapes
<1>2. \A b \in Boxes : PhpDepth(Below, b) \in Nat
    BY <1>1, PhpDepthIsNat
<1>3. ASSUME NEW b \in Boxes
      PROVE  /\ Here.k = "php" /\ Here.b = b => PhpDepth(stack, b) = PhpDepth(Below, b) + 1
             /\ ~(Here.k = "php" /\ Here.b = b) => PhpDepth(stack, b) = PhpDepth(Below, b)
    BY <1>1, PhpPush
<1> QED
    BY <1>1, <1>2, <1>3

(* The stack as it was, but for what is no callable. *)
SamePhp(t) == \A b \in Boxes : PhpDepth(t, b) = PhpDepth(stack, b)

LEMMA SamePhpTurns ==
    ASSUME Inv, stack # <<>>, Here.k # "php", NEW f \in Frames, f.k # "php", NEW g \in Frames, g.k # "php"
    PROVE  SamePhp(Below) /\ SamePhp(Append(Below, f)) /\ SamePhp(Below \o <<f, g>>)
<1>1. Below \in Seq(Frames) /\ SamePhp(Below)
    BY PhpBelow DEF SamePhp
<1> DEFINE t == Append(Below, f)
<1>2. t \in Seq(Frames) /\ SamePhp(t)
    BY <1>1, PhpAppend DEF SamePhp
<1>3. Below \o <<f, g>> = Append(t, g)
    BY <1>1, TwoMore
<1> HIDE DEF t
<1>4. SamePhp(Append(t, g))
    BY <1>2, PhpAppend DEF SamePhp
<1> QED
    BY <1>1, <1>2, <1>3, <1>4 DEF t

LEMMA SamePhpPushed ==
    ASSUME Inv, NEW f \in Frames, f.k # "php"
    PROVE  SamePhp(Append(stack, f))
<1>1. stack \in Seq(Frames)
    BY Shapes
<1> QED
    BY <1>1, PhpAppend DEF SamePhp

--------------------------------------------------------------------------------
(* Sizes.                                                                       *)

Sizes == \A b \in Boxes : registry[b].next \in 1 .. Cardinality(Handles) + 2

LEMMA HandlesCounted == Cardinality(Handles) \in Nat
    BY LifecycleAssumption, FS_CardinalityType

LEMMA FittingSize ==
    ASSUME NEW r, FreeFits(r)
    PROVE  r.next \in 1 .. Cardinality(Handles) + 2
<1> DEFINE c == Cardinality(Handles)
<1>1. c \in Nat
    BY HandlesCounted
<1>2. r.next \in Nat \ {0} /\ 1 .. r.next - 1 \subseteq 1 .. c + 1
    BY DEF FreeFits, RegistryRecord, Used, Slots
<1> HIDE DEF c
<1>3. CASE r.next = 1
    BY <1>1, <1>3 DEF c
<1>4. CASE r.next # 1
    <2>1. r.next - 1 \in 1 .. c + 1
        BY <1>2, <1>4
    <2> QED
        BY <1>1, <1>2, <2>1 DEF c
<1> QED
    BY <1>3, <1>4

LEMMA OneSize ==
    ASSUME RegistryInv, RegistryInv', Sizes, NEW b, NEW r, registry' = [registry EXCEPT ![b] = r],
           b \in Boxes => Usable(b)' \/ r = BlankRegistry
    PROVE  Sizes'
<1>1. registry \in [Boxes -> RegistryRecord]
    BY DEF RegistryInv
<1>2. ASSUME NEW c \in Boxes, c # b PROVE registry'[c].next \in 1 .. Cardinality(Handles) + 2
    BY <1>1, <1>2 DEF Sizes
<1>3. ASSUME b \in Boxes, Usable(b)' PROVE registry'[b].next \in 1 .. Cardinality(Handles) + 2
    <2>1. FreeFits(registry'[b])
        BY <1>3 DEF RegistryInv
    <2> QED
        BY <2>1, FittingSize
<1>4. ASSUME b \in Boxes, r = BlankRegistry PROVE registry'[b].next \in 1 .. Cardinality(Handles) + 2
    <2>1. registry'[b].next = 1
        BY <1>1, <1>4 DEF BlankRegistry
    <2> QED
        BY <2>1, HandlesCounted
<1> QED
    BY <1>2, <1>3, <1>4 DEF Sizes

LEMMA StepSizes ==
    ASSUME RegistryInv, RegistryInv', Sizes, [LifecycleNext]_lifecycleVars
    PROVE  Sizes'
<1>1. CASE UNCHANGED registry
    BY <1>1 DEF Sizes
<1>2. CASE UNCHANGED lifecycleVars
    BY <1>1, <1>2 DEF lifecycleVars
<1>3. CASE CallReturns \/ HostReturns \/ DrainOne \/ DrainDone \/ CallOut
    BY <1>1, <1>3 DEF CallReturns, HostReturns, DrainOne, DrainDone, CallOut
<1>4. CASE SweepClosesHead \/ SweepReleases \/ SweepOver \/ EndRequest \/ Bailout
    BY <1>1, <1>4 DEF SweepClosesHead, SweepReleases, SweepOver, EndRequest, Bailout
<1>5. ASSUME NEW b \in Boxes, \/ Free(b) \/ CloseDropsItsOwn(b) \/ CloseHasNothing(b)
                              \/ CloseAbandons(b) \/ ReleaseAbandoned(b) \/ CloseDrains(b)
                              \/ CloseUnlinks(b)
      PROVE  Sizes'
    BY <1>1, <1>5 DEF Free, CloseDropsItsOwn, CloseHasNothing, CloseAbandons, ReleaseAbandoned,
                      CloseDrains, CloseUnlinks
<1>6. ASSUME NEW b \in Boxes, \/ Construct(b) \/ ConstructFails(b) \/ DropVariable(b)
                              \/ CallIn(b) \/ CloseMethod(b) \/ CollectCycle(b) \/ Panic(b)
      PROVE  Sizes'
    BY <1>1, <1>6 DEF Construct, ConstructFails, DropVariable, CallIn, CloseMethod, CollectCycle,
                      Panic
<1>7. ASSUME NEW i \in Items, Finalised(i) \/ \E b \in Boxes : HandOver(b, i)
      PROVE  Sizes'
    BY <1>1, <1>7 DEF Finalised, HandOver
<1>8. ASSUME NEW h \in Handles, DropHandle(h) PROVE Sizes'
    <2> DEFINE b == handles[h].of
               r == Recycled(registry[b], handles[h].slot)
    <2>1. boxes' = boxes /\ (UNCHANGED registry \/ (Usable(b) /\ registry' = [registry EXCEPT ![b] = r]))
        BY <1>8 DEF DropHandle
    <2>2. Usable(b) => UsableBox(boxes'[b])
        BY <2>1 DEF Usable, UsableBox
    <2>3. ASSUME Usable(b), registry' = [registry EXCEPT ![b] = r] PROVE Sizes'
        <3>1. PICK c : c = b
            OBVIOUS
        <3>2. Usable(c)'
            BY <2>2, <2>3, <3>1 DEF Usable, UsableBox
        <3>3. registry' = [registry EXCEPT ![c] = r]
            BY <2>3, <3>1
        <3> QED
            BY <3>2, <3>3, OneSize
    <2> QED
        BY <1>1, <2>1, <2>3
<1>9. ASSUME NEW b \in Boxes, NEW h \in Handles, MakeHandle(b, h) PROVE Sizes'
    <2> DEFINE t == Taken(registry[b])
               r == [t.r EXCEPT !.held[t.slot] = h]
    <2>1. boxes' = boxes /\ Usable(b) /\ registry' = [registry EXCEPT ![b] = r]
        BY <1>9 DEF MakeHandle
    <2>2. Usable(b)'
        BY <2>1 DEF Usable
    <2> QED
        BY <2>1, <2>2, OneSize
<1>10. ASSUME NEW b \in Boxes, MakeHandleFails(b) PROVE Sizes'
    <2> DEFINE t == Taken(registry[b])
               r == Recycled(t.r, t.slot)
    <2>1. boxes' = boxes /\ Usable(b) /\ registry' = [registry EXCEPT ![b] = r]
        BY <1>10 DEF MakeHandleFails
    <2>2. Usable(b)'
        BY <2>1 DEF Usable
    <2> QED
        BY <2>1, <2>2, OneSize
<1>11. ASSUME NEW b \in Boxes, CloseDestroys(b) PROVE Sizes'
    <2>1. registry' = [registry EXCEPT ![b] = BlankRegistry]
        BY <1>11 DEF CloseDestroys
    <2> QED
        BY <2>1, OneSize
<1> QED
    BY <1>2, <1>3, <1>4, <1>5, <1>6, <1>7, <1>8, <1>9, <1>10, <1>11 DEF LifecycleNext, LifecycleEngine

(* What hosts and scripts decide is paid for; what is on the stack runs on. *)
LEMMA StepSteps ==
    ASSUME steps \in 0 .. MaxSteps, [LifecycleNext]_lifecycleVars
    PROVE  steps' \in 0 .. MaxSteps
<1>1. steps' = steps \/ Step => steps' \in 0 .. MaxSteps
    BY LifecycleAssumption DEF Step
<1>2. LifecycleEngine => steps' = steps
    BY DEF LifecycleEngine, CallReturns, HostReturns, DrainOne, DrainDone, SweepClosesHead,
           SweepReleases, SweepOver, Free, CloseDropsItsOwn, CloseDestroys, CloseHasNothing,
           CloseAbandons, ReleaseAbandoned, CloseDrains, CloseUnlinks
<1>3. CallOut \/ EndRequest \/ Bailout => steps' = steps \/ Step
    BY DEF CallOut, EndRequest, Bailout
<1>4. ASSUME NEW b \in Boxes
      PROVE  /\ Construct(b) \/ ConstructFails(b) \/ DropVariable(b) \/ CallIn(b) \/ CloseMethod(b)
                \/ CollectCycle(b) \/ Panic(b) \/ MakeHandleFails(b) => steps' = steps \/ Step
             /\ \A i \in Items : HandOver(b, i) => Step
             /\ \A h \in Handles : MakeHandle(b, h) => Step
    BY DEF Construct, ConstructFails, DropVariable, CallIn, CloseMethod, CollectCycle, Panic,
           MakeHandleFails, HandOver, MakeHandle
<1>5. /\ \A i \in Items : Finalised(i) => Step
      /\ \A h \in Handles : DropHandle(h) => Step
    BY DEF Finalised, DropHandle
<1>6. UNCHANGED lifecycleVars => steps' = steps
    BY DEF lifecycleVars
<1>7. LifecycleNext => steps' = steps \/ Step
    <2> HIDE DEF Step
    <2> QED
    BY <1>2, <1>3, <1>4, <1>5 DEF LifecycleNext
<1> QED
    BY <1>1, <1>6, <1>7

--------------------------------------------------------------------------------
(* Counters.                                                                    *)

CountsStay == \A b \in Boxes : /\ boxes'[b].inLua = boxes[b].inLua
                               /\ boxes'[b].inPhp = boxes[b].inPhp

(* A step that moves no counter, and under which no callable comes or goes. *)
LEMMA QuietTally ==
    ASSUME TallyInv, CountsStay, Sizes', steps' \in 0 .. MaxSteps,
           request' \in {"running", "ending"} => request \in {"running", "ending"} /\ SamePhp(stack')
    PROVE  TallyInv'
<1>1. PhpCounted'
    BY DEF TallyInv, PhpCounted, CountsStay, SamePhp
<1>2. Bounded'
    BY DEF TallyInv, Bounded, CountsStay, Sizes
<1> QED
    BY <1>1, <1>2 DEF TallyInv

LEMMA BoxStepCounts ==
    ASSUME boxes \in [Boxes -> BoxRecord], NEW b \in Boxes,
           \/ boxes' = boxes
           \/ \E v : \/ boxes' = [boxes EXCEPT ![b].made = v]
                     \/ boxes' = [boxes EXCEPT ![b].lua = v]
                     \/ boxes' = [boxes EXCEPT ![b].var = v]
                     \/ boxes' = [boxes EXCEPT ![b].closed = v]
                     \/ \E w : boxes' = [boxes EXCEPT ![b] = [@ EXCEPT !.made = v, !.lua = w]]
                     \/ \E w : boxes' = [boxes EXCEPT ![b] = [@ EXCEPT !.made = v, !.lua = w, !.var = TRUE]]
    PROVE  CountsStay
<1>1. boxes[b] \in BoxRecord
    OBVIOUS
<1>2. CASE boxes' = boxes
    BY <1>2 DEF CountsStay
<1>3. ASSUME NEW v, boxes' = [boxes EXCEPT ![b].made = v] PROVE CountsStay
    BY <1>1, <1>3 DEF CountsStay, BoxRecord
<1>4. ASSUME NEW v, boxes' = [boxes EXCEPT ![b].lua = v] PROVE CountsStay
    BY <1>1, <1>4 DEF CountsStay, BoxRecord
<1>5. ASSUME NEW v, boxes' = [boxes EXCEPT ![b].var = v] PROVE CountsStay
    BY <1>1, <1>5 DEF CountsStay, BoxRecord
<1>6. ASSUME NEW v, boxes' = [boxes EXCEPT ![b].closed = v] PROVE CountsStay
    BY <1>1, <1>6 DEF CountsStay, BoxRecord
<1>7. ASSUME NEW v, NEW w, boxes' = [boxes EXCEPT ![b] = [@ EXCEPT !.made = v, !.lua = w]]
      PROVE  CountsStay
    BY <1>1, <1>7 DEF CountsStay, BoxRecord
<1>8. ASSUME NEW v, NEW w, boxes' = [boxes EXCEPT ![b] = [@ EXCEPT !.made = v, !.lua = w, !.var = TRUE]]
      PROVE  CountsStay
    BY <1>1, <1>8 DEF CountsStay, BoxRecord
<1> QED
    BY <1>2, <1>3, <1>4, <1>5, <1>6, <1>7, <1>8

(* A call goes in, and comes back, and a callable does. *)
LEMMA CallInTally ==
    ASSUME Inv, Inv', TallyInv, Sizes', steps' \in 0 .. MaxSteps, NEW b \in Boxes, CallIn(b)
    PROVE  TallyInv'
<1> DEFINE f == [k |-> "lua", b |-> b]
<1>1. /\ HostRuns /\ Len(stack) < MaxStack /\ stack' = Append(stack, f)
      /\ boxes' = [boxes EXCEPT ![b].inLua = @ + 1] /\ request' = request
    BY DEF CallIn, PushFrame
<1>2. f \in Frames /\ f.k = "lua"
    BY PlainFrames
<1> HIDE DEF f
<1>3. boxes \in [Boxes -> BoxRecord] /\ boxes' \in [Boxes -> BoxRecord] /\ boxes[b] \in BoxRecord
    BY DEF Inv
<1>4. \A c \in Boxes : boxes'[c].inPhp = boxes[c].inPhp /\ (c # b => boxes'[c].inLua = boxes[c].inLua)
    BY <1>1, <1>3 DEF BoxRecord
<1>5. request \in {"running", "ending"}
    BY <1>1, HostRunsEarly
<1>6. stack \in Seq(Frames) /\ stack' \in Seq(Frames) /\ Len(stack') = Len(stack) + 1
    BY <1>1, <1>2, Shapes, OneMore
<1>7. boxes'[b].inLua \in 0 .. MaxStack
    <2>1. Counted(stack', boxes', request')
        BY DEF Inv
    <2>2. boxes'[b].inLua = Depth(stack', b)
        BY <1>1, <1>5, <2>1 DEF Counted
    <2>3. Depth(stack', b) \in 0 .. Len(stack')
        BY <1>6, PhpDepthIsNat
    <2>4. Len(stack') <= MaxStack
        BY <1>1, <1>6, LifecycleAssumption
    <2> QED
        BY <1>6, <2>2, <2>3, <2>4, LifecycleAssumption
<1>8. SamePhp(stack')
    BY <1>1, <1>2, SamePhpPushed
<1>9. PhpCounted'
    BY <1>1, <1>4, <1>8 DEF TallyInv, PhpCounted, SamePhp
<1>10. Bounded'
    BY <1>4, <1>7 DEF TallyInv, Bounded, Sizes
<1> QED
    BY <1>9, <1>10 DEF TallyInv

LEMMA CallOutTally ==
    ASSUME Inv, Inv', TallyInv, Sizes', steps' \in 0 .. MaxSteps, CallOut
    PROVE  TallyInv'
<1> DEFINE b == Here.b
           f == [k |-> "php", b |-> b]
<1>1. /\ HereIs("lua") /\ Len(stack) < MaxStack /\ stack' = Append(stack, f)
      /\ boxes' = [boxes EXCEPT ![b].inPhp = @ + 1] /\ request' = request
    BY DEF CallOut, PushFrame
<1>2. b \in Boxes
    <2>1. Here \in Frames /\ Here.k = "lua"
        BY <1>1, Shapes DEF HereIs
    <2> QED
        BY <2>1 DEF Frames
<1> HIDE DEF b
<1>3. f \in Frames /\ f.k = "php" /\ f.b = b
    BY <1>2, PlainFrames
<1> HIDE DEF f
<1>4. boxes \in [Boxes -> BoxRecord] /\ boxes[b] \in BoxRecord /\ boxes[b].inPhp \in Int
    BY <1>2 DEF Inv, BoxRecord
<1>5. \A c \in Boxes : /\ boxes'[c].inLua = boxes[c].inLua
                       /\ boxes'[c].inPhp = boxes[c].inPhp + (IF c = b THEN 1 ELSE 0)
    <2>1. \A c \in Boxes : boxes[c].inPhp \in Int
        BY <1>4 DEF BoxRecord
    <2> QED
        BY <1>1, <1>2, <1>4, <2>1 DEF BoxRecord
<1>6. request \in {"running", "ending"}
    BY <1>1, HostRunsEarly
<1>7. stack \in Seq(Frames) /\ stack' \in Seq(Frames) /\ Len(stack') = Len(stack) + 1
    BY <1>1, <1>3, Shapes, OneMore
<1>8. \A c \in Boxes : PhpDepth(stack', c) = PhpDepth(stack, c) + (IF c = b THEN 1 ELSE 0)
    BY <1>1, <1>3, <1>7, PhpAppend
<1>9. PhpCounted'
    BY <1>1, <1>5, <1>6, <1>8 DEF TallyInv, PhpCounted
<1>10. \A c \in Boxes : boxes'[c].inPhp \in 0 .. MaxStack
    <2>1. \A c \in Boxes : boxes'[c].inPhp = PhpDepth(stack', c)
        BY <1>1, <1>6, <1>9 DEF PhpCounted
    <2>2. \A c \in Boxes : PhpDepth(stack', c) \in 0 .. Len(stack')
        BY <1>7, PhpDepthIsNat
    <2>3. Len(stack') <= MaxStack
        BY <1>1, <1>7, LifecycleAssumption
    <2> QED
        BY <1>7, <2>1, <2>2, <2>3, LifecycleAssumption
<1>11. Bounded'
    BY <1>5, <1>10 DEF TallyInv, Bounded, Sizes
<1> QED
    BY <1>9, <1>11 DEF TallyInv

LEMMA HostReturnsTally ==
    ASSUME Inv, Inv', TallyInv, Sizes', steps' \in 0 .. MaxSteps, request # "over", HostReturns
    PROVE  TallyInv'
<1>1. /\ stack' = Below /\ request' = request /\ stack # <<>>
      /\ \/ Here.k = "php" /\ boxes' = [boxes EXCEPT ![Here.b].inPhp = @ - 1]
         \/ Here.k = "dtor" /\ boxes' = boxes
    BY DEF HostReturns, HereIs
<1>2. Here \in Frames /\ Here = stack[Len(stack)] /\ Len(stack) \in 1 .. Len(stack)
      /\ stack \in Seq(Frames)
    BY <1>1, Shapes
<1>3. CASE Here.k = "dtor" /\ boxes' = boxes
    <2>1. SamePhp(stack')
        BY <1>1, <1>3, PhpBelow DEF SamePhp
    <2>2. CountsStay
        BY <1>3 DEF CountsStay
    <2> QED
        BY <1>1, <2>1, <2>2, QuietTally
<1>4. CASE Here.k = "php" /\ boxes' = [boxes EXCEPT ![Here.b].inPhp = @ - 1]
    <2> DEFINE b == Here.b
    <2>1. b \in Boxes /\ boxes' = [boxes EXCEPT ![b].inPhp = @ - 1]
        BY <1>2, <1>4 DEF Frames
    <2>2. request \in {"running", "ending"}
        <3>1. stack[Len(stack)].k = "php"
            BY <1>2, <1>4
        <3>2. Counted(stack, boxes, request)
            BY DEF Inv
        <3> QED
            BY <1>2, <3>1, <3>2 DEF Counted
    <2>3. PhpDepth(stack, b) > 0
        BY <1>2, <1>4, PhpDepthIsNat
    <2>4. \A c \in Boxes : PhpDepth(stack, c) = PhpDepth(Below, c) + (IF c = b THEN 1 ELSE 0)
        BY <1>1, <1>4, PhpBelow
    <2> HIDE DEF b
    <2>5. \A c \in Boxes : boxes[c] \in BoxRecord /\ boxes[c].inPhp \in Int
        BY DEF Inv, BoxRecord
    <2>6. \A c \in Boxes : /\ boxes'[c].inLua = boxes[c].inLua
                           /\ boxes'[c].inPhp = boxes[c].inPhp - (IF c = b THEN 1 ELSE 0)
        <3>1. boxes \in [Boxes -> BoxRecord]
            BY DEF Inv
        <3> QED
            BY <2>1, <2>5, <3>1 DEF BoxRecord
    <2>7. \A c \in Boxes : PhpDepth(Below, c) \in Nat
        <3>1. Below \in Seq(Frames)
            BY <1>1, PhpBelow
        <3> QED
            BY <3>1, PhpDepthIsNat
    <2>8. \A c \in Boxes : boxes[c].inPhp = PhpDepth(stack, c)
        BY <2>2 DEF TallyInv, PhpCounted
    <2>9. \A c \in Boxes : boxes'[c].inPhp = PhpDepth(Below, c)
        BY <2>4, <2>6, <2>7, <2>8
    <2>10. PhpCounted'
        BY <1>1, <2>9 DEF PhpCounted
    <2>11. \A c \in Boxes : boxes'[c].inPhp \in 0 .. MaxStack
        <3>1. \A c \in Boxes : boxes[c].inPhp \in 0 .. MaxStack
            BY DEF TallyInv, Bounded
        <3> QED
            BY <2>6, <2>7, <2>9, <3>1, LifecycleAssumption
    <2>12. Bounded'
        BY <2>6, <2>11 DEF TallyInv, Bounded, Sizes
    <2> QED
        BY <2>10, <2>12 DEF TallyInv
<1> QED
    BY <1>1, <1>3, <1>4

LEMMA CallReturnsTally ==
    ASSUME Inv, Inv', TallyInv, Sizes', steps' \in 0 .. MaxSteps, CallReturns
    PROVE  TallyInv'
<1> DEFINE b == Here.b
<1>1. /\ stack # <<>> /\ Here.k = "lua" /\ request' = request
      /\ boxes' = [boxes EXCEPT ![b].inLua = @ - 1]
      /\ stack' = Below \/ stack' = Append(Below, DrainFrame(b, "call"))
    BY DEF CallReturns, HereIs
<1>2. b \in Boxes
    <2>1. Here \in Frames
        BY <1>1, Shapes
    <2> QED
        BY <1>1, <2>1 DEF Frames
<1> HIDE DEF b
<1>3. SamePhp(stack')
    <2>1. DrainFrame(b, "call") \in Frames /\ DrainFrame(b, "call").k = "drain"
        BY <1>2, DrainFrames
    <2> QED
        BY <1>1, <2>1, SamePhpTurns
<1>4. boxes \in [Boxes -> BoxRecord] /\ boxes' \in [Boxes -> BoxRecord] /\ boxes[b] \in BoxRecord
    BY <1>2 DEF Inv
<1>5. /\ \A c \in Boxes : boxes'[c].inPhp = boxes[c].inPhp
      /\ \A c \in Boxes : c # b => boxes'[c].inLua = boxes[c].inLua
      /\ boxes'[b].inLua = boxes[b].inLua - 1
    BY <1>1, <1>2, <1>4 DEF BoxRecord
<1>6. boxes'[b].inLua \in 0 .. MaxStack
    <2>1. boxes'[b].inLua \in Nat
        BY <1>2, <1>4 DEF BoxRecord
    <2>2. boxes[b].inLua \in 0 .. MaxStack
        BY <1>2 DEF TallyInv, Bounded
    <2> QED
        BY <1>5, <2>1, <2>2, LifecycleAssumption
<1>7. PhpCounted'
    BY <1>1, <1>3, <1>5 DEF TallyInv, PhpCounted, SamePhp
<1>8. Bounded'
    BY <1>5, <1>6 DEF TallyInv, Bounded, Sizes
<1> QED
    BY <1>7, <1>8 DEF TallyInv

(* Everything else moves no counter, and puts no callable on the stack. *)
LEMMA CloseTally ==
    ASSUME Inv, TallyInv, Sizes', steps' \in 0 .. MaxSteps, request' = request,
           NEW b \in Boxes, NEW by \in {"method", "free", "sweep"}, CloseBegins(b, by)
    PROVE  TallyInv'
<1>1. boxes' = [boxes EXCEPT ![b].closed = TRUE] /\ stack' = Append(stack, CloseFrame(b, by))
    BY DEF CloseBegins
<1>2. CountsStay
    BY <1>1, BoxStepCounts DEF Inv
<1>3. CloseFrame(b, by) \in Frames /\ CloseFrame(b, by).k = "close"
    <2>1. PICK bx : bx = [c \in Boxes |-> [closed |-> TRUE]]
        OBVIOUS
    <2>2. bx[b].closed
        BY <2>1
    <2> QED
        BY <2>2, NewCloseFrame
<1>4. SamePhp(stack')
    BY <1>1, <1>3, SamePhpPushed
<1> QED
    BY <1>2, <1>4, QuietTally

(* The frame on top is a close, or a drain, or the sweep, and stays one. *)
LEMMA StageTally ==
    ASSUME Inv, TallyInv, Sizes', steps' \in 0 .. MaxSteps, request' = request, CountsStay,
           NEW b, NEW name, Stage(b, name),
           \/ \E to \in Stages : Onward(to)
           \/ \E to \in Stages, g \in Frames : /\ g.k # "php"
                                               /\ stack' = Below \o <<[Here EXCEPT !.stage = to], g>>
           \/ \E g \in Frames : g.k # "php" /\ stack' = Append(stack, g)
           \/ stack' = Below
    PROVE  TallyInv'
<1>1. stack # <<>> /\ Here \in CloseFrames /\ Here.k = "close"
    BY TopClose
<1>2. ASSUME NEW to \in Stages
      PROVE  [Here EXCEPT !.stage = to] \in Frames /\ [Here EXCEPT !.stage = to].k = "close"
    BY <1>1, NextStage DEF Stages
<1>3. ASSUME NEW to \in Stages, Onward(to) PROVE SamePhp(stack')
    <2>1. stack' = Append(Below, [Here EXCEPT !.stage = to])
        BY <1>3 DEF Onward
    <2> QED
        BY <1>1, <1>2, <2>1, SamePhpTurns
<1>4. ASSUME NEW to \in Stages, NEW g \in Frames, g.k # "php",
             stack' = Below \o <<[Here EXCEPT !.stage = to], g>>
      PROVE  SamePhp(stack')
    BY <1>1, <1>2, <1>4, SamePhpTurns
<1>5. ASSUME NEW g \in Frames, g.k # "php", stack' = Append(stack, g) PROVE SamePhp(stack')
    BY <1>5, SamePhpPushed
<1>6. ASSUME stack' = Below PROVE SamePhp(stack')
    BY <1>1, <1>6, PhpBelow DEF SamePhp
<1>7. SamePhp(stack')
    BY <1>3, <1>4, <1>5, <1>6
<1> QED
    BY <1>7, QuietTally

LEMMA CloseStagesTally ==
    ASSUME Inv, TallyInv, Sizes', steps' \in 0 .. MaxSteps, NEW b \in Boxes,
           \/ CloseDropsItsOwn(b) \/ CloseDestroys(b) \/ CloseHasNothing(b)
           \/ CloseAbandons(b) \/ ReleaseAbandoned(b) \/ CloseDrains(b) \/ CloseUnlinks(b)
    PROVE  TallyInv'
<1>1. request' = request
    BY DEF CloseDropsItsOwn, CloseDestroys, CloseHasNothing, CloseAbandons, ReleaseAbandoned,
           CloseDrains, CloseUnlinks
<1>2. CountsStay
    <2>1. \/ boxes' = boxes
          \/ \E v : \/ boxes' = [boxes EXCEPT ![b].made = v]
                    \/ boxes' = [boxes EXCEPT ![b].lua = v]
        BY DEF CloseDropsItsOwn, CloseDestroys, CloseHasNothing, CloseAbandons, ReleaseAbandoned,
               CloseDrains, CloseUnlinks
    <2> QED
        BY <2>1, BoxStepCounts DEF Inv
<1>3. {"lua", "drain", "abandon", "finish"} \subseteq Stages
    BY DEF Stages
<1>4. CASE CloseDropsItsOwn(b)
    <2>1. Destructor(Nothing) \in Frames /\ Destructor(Nothing).k = "dtor"
        BY DtorFrames
    <2> QED
        BY <1>1, <1>2, <1>3, <1>4, <2>1, StageTally DEF CloseDropsItsOwn
<1>5. CASE CloseDestroys(b) \/ CloseHasNothing(b)
    BY <1>1, <1>2, <1>3, <1>5, StageTally DEF CloseDestroys, CloseHasNothing
<1>6. CASE CloseAbandons(b)
    BY <1>1, <1>2, <1>3, <1>6, StageTally DEF CloseAbandons
<1>7. CASE ReleaseAbandoned(b)
    <2>1. Stage(b, "abandon")
        BY <1>7 DEF ReleaseAbandoned
    <2>2. CASE Onward("drain")
        BY <1>1, <1>2, <1>3, <2>1, <2>2, StageTally
    <2>3. ASSUME NEW i \in At("lua", b), stack' = Append(stack, Destructor(i)) PROVE TallyInv'
        <3>1. i \in Items
            BY DEF At
        <3>2. Destructor(i) \in Frames /\ Destructor(i).k = "dtor"
            BY <3>1, DtorFrames
        <3> QED
            BY <1>1, <1>2, <2>1, <2>3, <3>2, StageTally
    <2> QED
        BY <1>7, <2>2, <2>3 DEF ReleaseAbandoned
<1>8. CASE CloseDrains(b)
    <2>1. Stage(b, "drain")
        BY <1>8 DEF CloseDrains
    <2>2. CASE Onward("finish")
        BY <1>1, <1>2, <1>3, <2>1, <2>2, StageTally
    <2> DEFINE f == [Here EXCEPT !.pass = @ + 1]
               g == DrainFrame(b, "close")
    <2>3. ASSUME At("queue", b) # {} /\ Here.pass < MaxPasses, stack' = Below \o <<f, g>>
          PROVE  TallyInv'
        <3>1. stack # <<>> /\ Here \in CloseFrames /\ Here.k = "close"
            BY <2>1, TopClose
        <3>2. Here.pass + 1 \in 0 .. MaxPasses
            BY <2>3, <3>1, LifecycleAssumption DEF CloseFrames
        <3>3. f \in CloseFrames /\ f.k = "close"
            BY <3>1, <3>2 DEF CloseFrames
        <3>4. g \in Frames /\ g.k = "drain"
            BY DrainFrames
        <3> HIDE DEF f, g
        <3>5. f \in Frames
            BY <3>3 DEF Frames, CloseFrames
        <3>6. SamePhp(stack')
            BY <2>3, <3>1, <3>3, <3>4, <3>5, SamePhpTurns
        <3> QED
            BY <1>1, <1>2, <3>6, QuietTally
    <2> QED
        BY <1>8, <2>2, <2>3 DEF CloseDrains
<1>9. CASE CloseUnlinks(b)
    BY <1>1, <1>2, <1>9, StageTally DEF CloseUnlinks
<1> QED
    BY <1>4, <1>5, <1>6, <1>7, <1>8, <1>9

LEMMA DrainsTally ==
    ASSUME Inv, TallyInv, Sizes', steps' \in 0 .. MaxSteps, DrainOne \/ DrainDone
    PROVE  TallyInv'
<1>1. stack # <<>> /\ Here.k = "drain" /\ boxes' = boxes /\ request' = request
    BY DEF DrainOne, DrainDone, HereIs
<1>2. CountsStay
    BY <1>1 DEF CountsStay
<1>3. Here \in [k : {"drain"}, b : Boxes, by : {"call", "close"}, left : SUBSET Items]
    BY <1>1, TopDrain
<1>4. CASE DrainOne
    <2>1. PICK i \in Here.left :
            stack' = Append(Append(Below, [Here EXCEPT !.left = @ \ {i}]), Destructor(i))
        BY <1>4 DEF DrainOne
    <2> DEFINE f == [Here EXCEPT !.left = @ \ {i}]
               g == Destructor(i)
    <2>2. f \in [k : {"drain"}, b : Boxes, by : {"call", "close"}, left : SUBSET Items] /\ f.k = "drain"
        BY <1>3
    <2>3. i \in Items
        BY <1>3
    <2>4. g \in Frames /\ g.k = "dtor"
        BY <2>3, DtorFrames
    <2>5. f \in Frames
        BY <2>2 DEF Frames
    <2>6. stack' = Append(Append(Below, f), g)
        BY <2>1
    <2> HIDE DEF f, g
    <2>7. Below \in Seq(Frames)
        BY <1>1, PhpBelow
    <2>8. stack' = Below \o <<f, g>>
        BY <2>4, <2>5, <2>6, <2>7, TwoMore
    <2>9. SamePhp(stack')
        BY <1>1, <2>2, <2>4, <2>5, <2>8, SamePhpTurns
    <2> QED
        BY <1>1, <1>2, <2>9, QuietTally
<1>5. CASE DrainDone
    <2>1. stack' = Below
        BY <1>5 DEF DrainDone
    <2>2. SamePhp(stack')
        BY <1>1, <2>1, PhpBelow DEF SamePhp
    <2> QED
        BY <1>1, <1>2, <2>2, QuietTally
<1> QED
    BY <1>4, <1>5

LEMMA SweepTally ==
    ASSUME Inv, TallyInv, Sizes', steps' \in 0 .. MaxSteps,
           SweepClosesHead \/ SweepReleases \/ SweepOver \/ EndRequest
    PROVE  TallyInv'
<1>1. boxes \in [Boxes -> BoxRecord] /\ liveList \in Seq(Boxes)
    BY DEF Inv, Born
<1>2. CASE SweepOver \/ EndRequest
    <2>1. CountsStay
        BY <1>2 DEF CountsStay, SweepOver, EndRequest
    <2>2. CASE SweepOver
        BY <2>1, <2>2, QuietTally DEF SweepOver
    <2>3. CASE EndRequest
        <3>1. SweepFrame(Nothing) \in Frames /\ SweepFrame(Nothing).k = "sweep"
            BY SweepFrames
        <3>2. stack' = Append(stack, SweepFrame(Nothing)) /\ request = "running"
            BY <2>3 DEF EndRequest
        <3>3. SamePhp(stack')
            BY <3>1, <3>2, SamePhpPushed
        <3> QED
            BY <2>1, <3>2, <3>3, QuietTally
    <2> QED
        BY <1>2, <2>2, <2>3
<1>3. CASE SweepReleases
    <2>1. /\ stack # <<>> /\ Here.k = "sweep" /\ request' = request
          /\ stack' = Append(Below, SweepFrame(Nothing))
        BY <1>3 DEF SweepReleases, HereIs
    <2>2. SweepFrame(Nothing) \in Frames /\ SweepFrame(Nothing).k = "sweep"
        BY SweepFrames
    <2>3. CountsStay
        BY <1>3 DEF CountsStay, SweepReleases
    <2>4. SamePhp(stack')
        BY <2>1, <2>2, SamePhpTurns
    <2> QED
        BY <2>1, <2>3, <2>4, QuietTally
<1>4. CASE SweepClosesHead
    <2> DEFINE b == Head(liveList)
    <2>1. /\ stack # <<>> /\ Here.k = "sweep" /\ request' = request /\ liveList # <<>>
          /\ \/ stack' = Append(Below, SweepFrame(b)) /\ boxes' = boxes
             \/ /\ stack' = Below \o <<SweepFrame(b), CloseFrame(b, "sweep")>>
                /\ boxes' = [boxes EXCEPT ![b].closed = TRUE]
        BY <1>4 DEF SweepClosesHead, HereIs
    <2>2. b \in Boxes
        BY <1>1, <2>1
    <2> HIDE DEF b
    <2>3. SweepFrame(b) \in Frames /\ SweepFrame(b).k = "sweep"
        BY <2>2, SweepFrames
    <2>4. CloseFrame(b, "sweep") \in Frames /\ CloseFrame(b, "sweep").k = "close"
        <3>1. PICK bx : bx = [c \in Boxes |-> [closed |-> TRUE]]
            OBVIOUS
        <3>2. bx[b].closed
            BY <2>2, <3>1
        <3> QED
            BY <2>2, <3>2, NewCloseFrame
    <2>5. CountsStay
        BY <1>1, <2>1, <2>2, BoxStepCounts
    <2>6. SamePhp(stack')
        BY <2>1, <2>3, <2>4, SamePhpTurns
    <2> QED
        BY <2>1, <2>5, <2>6, QuietTally
<1> QED
    BY <1>2, <1>3, <1>4

LEMMA JumpTally ==
    ASSUME Inv, TallyInv, Sizes', steps' \in 0 .. MaxSteps, NEW extra, JumpOut(extra)
    PROVE  TallyInv'
<1>1. request' = "crashed"
    BY DEF JumpOut
<1>2. CountsStay
    <2>1. boxes \in [Boxes -> BoxRecord]
        BY DEF Inv
    <2>2. ASSUME NEW b \in Boxes
          PROVE  boxes'[b].inLua = boxes[b].inLua /\ boxes'[b].inPhp = boxes[b].inPhp
        <3>1. PICK v, w, x : boxes'[b] = [boxes[b] EXCEPT !.var = v, !.wreck = w, !.panicked = x]
            BY <2>2, JumpReads
        <3> QED
            BY <2>1, <2>2, <3>1 DEF BoxRecord
    <2> QED
        BY <2>2 DEF CountsStay
<1> QED
    BY <1>1, <1>2, QuietTally

LEMMA DataTally ==
    ASSUME Inv, TallyInv, Sizes', steps' \in 0 .. MaxSteps, request' = request, stack' = stack, CountsStay
    PROVE  TallyInv'
    BY QuietTally DEF SamePhp

LEMMA StepTally ==
    ASSUME Inv, Inv', RegistryInv, RegistryInv', TallyInv, [LifecycleNext]_lifecycleVars
    PROVE  TallyInv'
<1>1. Sizes' /\ steps' \in 0 .. MaxSteps
    BY StepSizes, StepSteps DEF TallyInv, Bounded, Sizes
<1>2. boxes \in [Boxes -> BoxRecord]
    BY DEF Inv
<1>3. boxes' = boxes => CountsStay
    BY DEF CountsStay
<1>4. CASE UNCHANGED lifecycleVars
    BY <1>1, <1>3, <1>4, DataTally DEF lifecycleVars
<1>5. CASE LifecycleNext /\ HostReturns
    BY <1>1, <1>5, NotOver, HostReturnsTally
<1>6. CASE CallReturns
    BY <1>1, <1>6, CallReturnsTally
<1>7. CASE DrainOne \/ DrainDone
    BY <1>1, <1>7, DrainsTally
<1>8. CASE CallOut
    BY <1>1, <1>8, CallOutTally
<1>9. CASE SweepClosesHead \/ SweepReleases \/ SweepOver \/ EndRequest
    BY <1>1, <1>9, SweepTally
<1>10. CASE Bailout
    BY <1>1, <1>10, JumpTally DEF Bailout
<1>11. ASSUME NEW i \in Items, Finalised(i) PROVE TallyInv'
    BY <1>1, <1>3, <1>11, DataTally DEF Finalised
<1>12. ASSUME NEW h \in Handles, DropHandle(h) PROVE TallyInv'
    BY <1>1, <1>3, <1>12, DataTally DEF DropHandle
<1>13. ASSUME NEW b \in Boxes, Free(b) PROVE TallyInv'
    <2>1. request' = request
        BY <1>13 DEF Free
    <2>2. CASE CloseBegins(b, "free")
        BY <1>1, <2>1, <2>2, CloseTally
    <2>3. CASE boxes' = [boxes EXCEPT ![b].made = "freed"] /\ UNCHANGED stack
        <3>1. CountsStay
            BY <1>2, <2>3, BoxStepCounts
        <3> QED
            BY <1>1, <2>1, <2>3, <3>1, DataTally
    <2> QED
        BY <1>13, <2>2, <2>3 DEF Free
<1>14. ASSUME NEW b \in Boxes, \/ CloseDropsItsOwn(b) \/ CloseDestroys(b) \/ CloseHasNothing(b)
                               \/ CloseAbandons(b) \/ ReleaseAbandoned(b) \/ CloseDrains(b)
                               \/ CloseUnlinks(b)
       PROVE  TallyInv'
    BY <1>1, <1>14, CloseStagesTally
<1>15. ASSUME NEW b \in Boxes, Construct(b) \/ ConstructFails(b) \/ DropVariable(b) PROVE TallyInv'
    <2>1. request' = request /\ stack' = stack
        BY <1>15 DEF Construct, ConstructFails, DropVariable
    <2>2. CountsStay
        <3>1. CASE Construct(b)
            <4>1. boxes' = [boxes EXCEPT ![b] = [@ EXCEPT !.made = "made", !.lua = "up", !.var = TRUE]]
                BY <3>1 DEF Construct
            <4> QED
                BY <1>2, <4>1, BoxStepCounts
        <3>2. CASE ConstructFails(b)
            <4>1. \E w : boxes' = [boxes EXCEPT ![b] = [@ EXCEPT !.made = "made", !.lua = w]]
                BY <3>2 DEF ConstructFails
            <4> QED
                BY <1>2, <4>1, BoxStepCounts
        <3>3. CASE DropVariable(b)
            <4>1. boxes' = [boxes EXCEPT ![b].var = FALSE]
                BY <3>3 DEF DropVariable
            <4> QED
                BY <1>2, <4>1, BoxStepCounts
        <3> QED
            BY <1>15, <3>1, <3>2, <3>3
    <2> QED
        BY <1>1, <2>1, <2>2, DataTally
<1>16. ASSUME NEW b \in Boxes, CallIn(b) PROVE TallyInv'
    BY <1>1, <1>16, CallInTally
<1>17. ASSUME NEW b \in Boxes, CloseMethod(b) \/ CollectCycle(b) PROVE TallyInv'
    BY <1>1, <1>17, CloseTally DEF CloseMethod, CollectCycle
<1>18. ASSUME NEW b \in Boxes, Panic(b) PROVE TallyInv'
    BY <1>1, <1>18, JumpTally DEF Panic
<1>19. ASSUME NEW b \in Boxes, MakeHandleFails(b) PROVE TallyInv'
    BY <1>1, <1>3, <1>19, DataTally DEF MakeHandleFails
<1>20. ASSUME NEW b \in Boxes, NEW i \in Items, HandOver(b, i) PROVE TallyInv'
    BY <1>1, <1>3, <1>20, DataTally DEF HandOver
<1>21. ASSUME NEW b \in Boxes, NEW h \in Handles, MakeHandle(b, h) PROVE TallyInv'
    BY <1>1, <1>3, <1>21, DataTally DEF MakeHandle
<1> QED
    BY <1>4, <1>5, <1>6, <1>7, <1>8, <1>9, <1>10, <1>11, <1>12, <1>13, <1>14, <1>15, <1>16, <1>17,
       <1>18, <1>19, <1>20, <1>21 DEF LifecycleNext, LifecycleEngine

LEMMA InitTally ==
    ASSUME LifecycleInit
    PROVE  TallyInv
<1>1. /\ stack = <<>> /\ steps = MaxSteps
      /\ \A b \in Boxes : /\ boxes[b].inLua = 0 /\ boxes[b].inPhp = 0
                          /\ registry[b].next = 1
    BY DEF LifecycleInit, BlankBox, BlankRegistry
<1>2. \A b \in Boxes : PhpDepth(stack, b) = 0
    <2>1. Len(stack) = 0 /\ stack \in Seq(Frames)
        BY <1>1
    <2>2. ASSUME NEW b \in Boxes PROVE PhpDepth(stack, b) \in 0 .. Len(stack)
        BY <2>1, PhpDepthIsNat
    <2> QED
        BY <2>1, <2>2
<1>3. PhpCounted
    BY <1>1, <1>2 DEF PhpCounted
<1>4. Bounded
    BY <1>1, HandlesCounted, LifecycleAssumption DEF Bounded
<1> QED
    BY <1>3, <1>4 DEF TallyInv

(* Types: in_lua and in_php never fall below zero nor pass the frames there can *)
(* be, whatever jumps out of them, and no registry hands out a slot it lacks    *)
(* (luaext_exec_pcall, luaext_convert_ref_create).                              *)
THEOREM LifecycleTyped == LifecycleSpec => []LifecycleTypeOK
<1>1. LifecycleInit => RegistryInv /\ TallyInv
    BY InitNames, InitTally
<1>2. Inv /\ RegistryInv /\ [LifecycleNext]_lifecycleVars => RegistryInv'
    BY StepNames
<1>3. Inv /\ Inv' /\ RegistryInv /\ RegistryInv' /\ TallyInv /\ [LifecycleNext]_lifecycleVars => TallyInv'
    BY StepTally
<1>4. ASSUME Inv, RegistryInv, TallyInv PROVE LifecycleTypeOK
    <2>1. boxes \in [Boxes -> [made : {"unborn", "made", "freed"},
                               lua : {"none", "up", "destroyed", "abandoned"},
                               closed : BOOLEAN, panicked : BOOLEAN, var : BOOLEAN, wreck : BOOLEAN,
                               inLua : 0 .. MaxStack, inPhp : 0 .. MaxStack]]
        BY <1>4 DEF Inv, BoxRecord, TallyInv, Bounded
    <2>2. /\ liveList \in Seq(Boxes) /\ stack \in Seq(Frames)
          /\ request \in {"running", "ending", "crashed", "over"}
        BY <1>4 DEF Inv, Born, Counted, Waits, Placed
    <2>3. items \in [Items -> ItemRecord]
        BY <1>4 DEF Inv
    <2>4. registry \in [Boxes -> [held : [Slots -> Handles \cup {Nothing}], free : Seq(Slots),
                                  next : 1 .. Cardinality(Handles) + 2]]
        BY <1>4 DEF RegistryInv, RegistryRecord, TallyInv, Bounded
    <2>5. handles \in [Handles -> [of : Boxes \cup {Nothing}, slot : Slots \cup {0}]]
        BY <1>4 DEF RegistryInv
    <2>6. steps \in 0 .. MaxSteps
        BY <1>4 DEF TallyInv, Bounded
    <2> QED
        BY <2>1, <2>2, <2>3, <2>4, <2>5, <2>6 DEF LifecycleTypeOK, ItemRecord
<1> QED
    BY <1>1, <1>2, <1>3, <1>4, InvHolds, PTL DEF LifecycleSpec
================================================================================
