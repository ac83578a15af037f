---- MODULE Lifecycle ----
(* Sandboxes over one request on one thread: building, calling, closing and     *)
(* freeing them (luaext_sandbox.c), the list the end of the request walks       *)
(* (luaext.c), the host's objects Lua holds and the queue that releases them    *)
(* (luaext_defer.c, luaext_proxy.c), and the handles the host holds on Lua's    *)
(* functions with the registry slots they name (luaext_function.c,              *)
(* luaext_convert.c).                                                           *)
(*                                                                              *)
(* `stack` is the C stack across every sandbox.  A frame of kind "lua" is the   *)
(* bracket of luaext_exec_pcall, "php" a callable Lua called out to, "dtor" a   *)
(* host destructor, "close" luaext_sandbox_close, "drain" luaext_defer_drain,   *)
(* "sweep" PHP_RSHUTDOWN.  Where the code drops a reference that may be the     *)
(* last one, the model runs the destructor, and the destructor may do anything  *)
(* a host may: that is the whole difficulty of this part of the system.         *)
(* Left out: what runs inside a call (Calls), finalisers the collector runs     *)
(* while the interpreter works outside the bracket (README, section 6).         *)
EXTENDS Naturals, FiniteSets, SequencesExt

CONSTANTS
    Boxes,       \* sandboxes
    Items,       \* the host's objects a Lua value may hold a reference to
    Handles,     \* LuaFunction objects
    Nothing,     \* no sandbox, no object
    MaxPasses,   \* passes of luaext_defer_shutdown, 8 in the code
    MaxStack,    \* bound on the C stack
    MaxSteps,    \* bound on what hosts and scripts decide
    FatalInTeardown  \* may a fatal error strike while a close is on the stack

ASSUME LifecycleAssumption ==
    /\ Nothing \notin Boxes \cup Items \cup Handles
    /\ IsFiniteSet(Handles)
    /\ MaxPasses \in Nat \ {0}
    /\ MaxStack \in Nat /\ MaxSteps \in Nat

VARIABLES
    boxes,       \* struct luaext_sandbox, and whether the host holds the object
    liveList,    \* LUAEXT_G(live_sandboxes), head first
    items,       \* where each host object is, and what it refers to
    handles,     \* struct luaext_function_obj
    registry,    \* the refs table, ref_freelist and next_ref of each sandbox
    stack,       \* the C stack, innermost last
    request,     \* the request's own phase
    steps        \* what is left of MaxSteps

lifecycleVars == <<boxes, liveList, items, handles, registry, stack, request, steps>>

Slots == 1 .. Cardinality(Handles) + 1

BlankBox == [made |-> "unborn", lua |-> "none", closed |-> FALSE, panicked |-> FALSE,
             inLua |-> 0, inPhp |-> 0, var |-> FALSE, wreck |-> FALSE]
BlankItem == [at |-> "host", of |-> Nothing, refs |-> Nothing, proxy |-> FALSE]
BlankRegistry == [held |-> [n \in Slots |-> Nothing], free |-> <<>>, next |-> 1]

LifecycleInit ==
    /\ boxes = [b \in Boxes |-> BlankBox]
    /\ liveList = <<>>
    /\ items = [i \in Items |-> BlankItem]
    /\ handles = [h \in Handles |-> [of |-> Nothing, slot |-> 0]]
    /\ registry = [b \in Boxes |-> BlankRegistry]
    /\ stack = <<>>
    /\ request = "running"
    /\ steps = MaxSteps

Here      == Last(stack)
Below     == Front(stack)
HereIs(k) == stack # <<>> /\ Here.k = k
OnStack(k, b) == \E n \in DOMAIN stack : stack[n].k = k /\ stack[n].b = b
At(place, b)  == {i \in Items : items[i].at = place /\ items[i].of = b}
Step      == steps > 0 /\ steps' = steps - 1

(* Who holds a reference to the sandbox object: a variable of the host's, a     *)
(* handle, an object that has not been destroyed, or a method's own frame.      *)
Referenced(b) ==
    \/ boxes[b].var
    \/ \E h \in Handles : handles[h].of = b
    \/ \E i \in Items : items[i].refs = b
    \/ \E n \in DOMAIN stack : /\ stack[n].b = b
                               /\ \/ stack[n].k \in {"lua", "sweep"}
                                  \/ stack[n].k = "drain" /\ stack[n].by = "call"
                                  \/ stack[n].k = "close" /\ stack[n].by = "method"

(* The last reference went: the object's destructor comes before anything else. *)
Dying == {b \in Boxes : /\ boxes[b].made = "made"
                        /\ ~Referenced(b)
                        /\ ~\E n \in DOMAIN stack : /\ stack[n].k = "close"
                                                    /\ stack[n].b = b
                                                    /\ stack[n].by = "free"}

HostRuns ==
    /\ Dying = {}
    /\ \/ stack = <<>> /\ request = "running"
       \/ HereIs("php")
       \/ HereIs("dtor") /\ request # "crashed"

(* luaext_sandbox_check_open, luaext_exec_ready. *)
Usable(b) == boxes[b].made = "made" /\ ~boxes[b].closed /\ boxes[b].lua = "up"

PushFrame(f) == Len(stack) < MaxStack /\ stack' = Append(stack, f)

(* Dropping a reference whose object has a destructor.                          *)
Destructor(i) == [k |-> "dtor", b |-> Nothing, i |-> i]

--------------------------------------------------------------------------------
(* Building.                                                                    *)

Construct(b) ==
    /\ HostRuns /\ Step
    /\ boxes[b].made = "unborn"
    /\ boxes' = [boxes EXCEPT ![b] = [@ EXCEPT !.made = "made", !.lua = "up", !.var = TRUE]]
    /\ liveList' = <<b>> \o liveList
    /\ UNCHANGED <<items, handles, registry, stack, request>>

(* Each refusal of the constructor leaves the sandbox out of the list, with an  *)
(* interpreter or without.                                                      *)
ConstructFails(b) ==
    /\ HostRuns /\ Step
    /\ boxes[b].made = "unborn"
    /\ \E lua \in {"none", "up"} :
        boxes' = [boxes EXCEPT ![b] = [@ EXCEPT !.made = "made", !.lua = lua]]
    /\ UNCHANGED <<liveList, items, handles, registry, stack, request>>

(* A registered callable, a proxy, or an exception Lua carries: the object's    *)
(* reference is now a Lua value's.  Proxies alone are on the live-proxy list.   *)
HandOver(b, i) ==
    /\ HostRuns /\ Step
    /\ Usable(b)
    /\ items[i].at = "host"
    /\ \E refs \in {r \in Boxes : boxes[r].var} \cup {Nothing}, proxy \in BOOLEAN :
        items' = [items EXCEPT ![i] = [at |-> "lua", of |-> b, refs |-> refs, proxy |-> proxy]]
    /\ UNCHANGED <<boxes, liveList, handles, registry, stack, request>>

DropVariable(b) ==
    /\ HostRuns /\ Step
    /\ boxes[b].var
    /\ boxes' = [boxes EXCEPT ![b].var = FALSE]
    /\ UNCHANGED <<liveList, items, handles, registry, stack, request>>

--------------------------------------------------------------------------------
(* Handles on Lua functions.                                                    *)

LivingHandles(b) == {h \in Handles : handles[h].of = b}

\* Mutant: the slot stays on the freelist.
TakenAndOffered(r) == IF r.free # <<>> THEN [slot |-> Last(r.free), r |-> r]
                      ELSE [slot |-> r.next, r |-> [r EXCEPT !.next = @ + 1]]

(* luaext_convert_ref_create: the freelist first, then a slot never used.       *)
Taken(r) == IF r.free # <<>>
            THEN [slot |-> Last(r.free), r |-> [r EXCEPT !.free = Front(@)]]
            ELSE [slot |-> r.next,       r |-> [r EXCEPT !.next = @ + 1]]

Recycled(r, n) == [r EXCEPT !.held[n] = Nothing, !.free = Append(@, n)]

MakeHandle(b, h) ==
    /\ HostRuns /\ Step
    /\ Usable(b) /\ boxes[b].var
    /\ handles[h].of = Nothing
    /\ LET t == Taken(registry[b])
       IN  /\ registry' = [registry EXCEPT ![b] = [t.r EXCEPT !.held[t.slot] = h]]
           /\ handles'  = [handles EXCEPT ![h] = [of |-> b, slot |-> t.slot]]
    /\ UNCHANGED <<boxes, liveList, items, stack, request>>

(* The store runs out of memory under its lua_pcall: the slot goes back.        *)
MakeHandleFails(b) ==
    /\ HostRuns /\ Step
    /\ Usable(b) /\ boxes[b].var
    /\ LET t == Taken(registry[b])
       IN  registry' = [registry EXCEPT ![b] = Recycled(t.r, t.slot)]
    /\ UNCHANGED <<boxes, liveList, items, handles, stack, request>>

(* luaext_function_free_object. *)
DropHandle(h) ==
    /\ HostRuns /\ Step
    /\ handles[h].of # Nothing
    /\ LET b == handles[h].of
       IN  registry' = IF Usable(b)
                       THEN [registry EXCEPT ![b] = Recycled(@, handles[h].slot)]
                       ELSE registry
    /\ handles' = [handles EXCEPT ![h] = [of |-> Nothing, slot |-> 0]]
    /\ UNCHANGED <<boxes, liveList, items, stack, request>>

--------------------------------------------------------------------------------
(* Calling.                                                                     *)

(* A method of the sandbox's, or a handle whose slot still holds a function.    *)
CallIn(b) ==
    /\ HostRuns /\ Step
    /\ Usable(b)
    /\ \/ boxes[b].var
       \/ \E h \in LivingHandles(b) : registry[b].held[handles[h].slot] # Nothing
    /\ PushFrame([k |-> "lua", b |-> b])
    /\ boxes' = [boxes EXCEPT ![b].inLua = @ + 1]
    /\ UNCHANGED <<liveList, items, handles, registry, request>>

CallOut ==
    /\ HereIs("lua") /\ Dying = {} /\ Step
    /\ PushFrame([k |-> "php", b |-> Here.b])
    /\ boxes' = [boxes EXCEPT ![Here.b].inPhp = @ + 1]
    /\ UNCHANGED <<liveList, items, handles, registry, request>>

(* The collector finalises a proxy, a callable's storage or an error.           *)
Finalised(i) ==
    /\ HereIs("lua") /\ Dying = {} /\ Step
    /\ i \in At("lua", Here.b)
    /\ items' = [items EXCEPT ![i].at = "queue"]
    /\ UNCHANGED <<boxes, liveList, handles, registry, stack, request>>

(* A callable or a destructor returns.  A destructor's object lets go of what   *)
(* it refers to when the destructor is over.                                    *)
HostReturns ==
    /\ Dying = {}
    /\ \/ /\ HereIs("php")
          /\ boxes' = [boxes EXCEPT ![Here.b].inPhp = @ - 1]
          /\ UNCHANGED items
       \/ /\ HereIs("dtor")
          /\ items' = IF Here.i = Nothing THEN items
                      ELSE [items EXCEPT ![Here.i] = [@ EXCEPT !.at = "released", !.refs = Nothing]]
          /\ UNCHANGED boxes
    /\ stack' = Below
    /\ UNCHANGED <<liveList, handles, registry, request, steps>>

(* Detaching the queue: what a destructor adds goes to a fresh one.             *)
Detached(b) == [i \in Items |-> IF i \in At("queue", b)
                                THEN [items[i] EXCEPT !.at = "detached"] ELSE items[i]]

DrainFrame(b, by) == [k |-> "drain", b |-> b, by |-> by, left |-> At("queue", b)]

(* luaext_exec_pcall returns: the outermost return drains, after its last use   *)
(* of the interpreter.                                                          *)
CallReturns ==
    /\ HereIs("lua") /\ Dying = {}
    /\ boxes' = [boxes EXCEPT ![Here.b].inLua = @ - 1]
    /\ IF boxes'[Here.b].inLua = 0 /\ At("queue", Here.b) # {}
       THEN /\ items' = Detached(Here.b)
            /\ stack' = Append(Below, DrainFrame(Here.b, "call"))
       ELSE /\ stack' = Below
            /\ UNCHANGED items
    /\ UNCHANGED <<liveList, handles, registry, request, steps>>

DrainOne ==
    /\ HereIs("drain") /\ Dying = {}
    /\ \E i \in Here.left :
        /\ items' = [items EXCEPT ![i].at = "dying"]
        /\ stack' = Append(Append(Below, [Here EXCEPT !.left = @ \ {i}]), Destructor(i))
    /\ UNCHANGED <<boxes, liveList, handles, registry, request, steps>>

DrainDone ==
    /\ HereIs("drain") /\ Dying = {}
    /\ Here.left = {}
    /\ stack' = Below
    /\ UNCHANGED <<boxes, liveList, items, handles, registry, request, steps>>

--------------------------------------------------------------------------------
(* Closing: luaext_sandbox_close.                                               *)

CloseFrame(b, by) == [k |-> "close", b |-> b, by |-> by, stage |-> "own", pass |-> 0]

CloseBegins(b, by) ==
    /\ ~boxes[b].closed
    /\ boxes' = [boxes EXCEPT ![b].closed = TRUE]
    /\ stack' = Append(stack, CloseFrame(b, by))

(* close(): refused while the sandbox runs. *)
CloseMethod(b) ==
    /\ HostRuns /\ Step
    /\ boxes[b].made = "made" /\ boxes[b].var
    /\ boxes[b].inLua = 0 /\ boxes[b].inPhp = 0
    /\ Len(stack) < MaxStack
    /\ CloseBegins(b, "method")
    /\ UNCHANGED <<liveList, items, handles, registry, request>>

(* luaext_sandbox_dtor_object, luaext_sandbox_free_object. *)
Free(b) ==
    /\ b \in Dying
    /\ \/ CloseBegins(b, "free")
       \/ /\ boxes[b].closed
          /\ boxes' = [boxes EXCEPT ![b].made = "freed"]
          /\ UNCHANGED stack
    /\ UNCHANGED <<liveList, items, handles, registry, request, steps>>

(* The cycle collector destroys a sandbox only its own proxies refer to:        *)
(* luaext_sandbox_get_gc shows it those.                                        *)
CollectCycle(b) ==
    /\ HostRuns
    /\ boxes[b].made = "made" /\ ~boxes[b].var
    /\ LivingHandles(b) = {} /\ ~OnStack("lua", b)
    /\ \E i \in Items : items[i].refs = b
    /\ \A i \in Items : items[i].refs = b => i \in At("lua", b) /\ items[i].proxy
    /\ Len(stack) < MaxStack
    /\ CloseBegins(b, "method")
    /\ UNCHANGED <<liveList, items, handles, registry, request, steps>>

Stage(b, name) ==
    /\ Dying = {}
    /\ HereIs("close") /\ Here.b = b /\ Here.stage = name

Onward(name) == stack' = Append(Below, [Here EXCEPT !.stage = name])

(* The sandbox's own references, to its backend, resolver and output callback,  *)
(* go while the interpreter is still there and already closed to everybody.     *)
CloseDropsItsOwn(b) ==
    /\ Stage(b, "own")
    /\ \/ Onward("lua")
       \/ /\ steps > 0
          /\ stack' = Below \o <<[Here EXCEPT !.stage = "lua"], Destructor(Nothing)>>
    /\ UNCHANGED <<boxes, liveList, items, handles, registry, request, steps>>

\* Mutant: a state cut off in the middle of a call is destroyed as well.
CloseDestroysRunning(b) ==
    /\ Stage(b, "lua")
    /\ boxes[b].lua = "up" /\ ~boxes[b].panicked
    /\ boxes' = [boxes EXCEPT ![b].lua = "destroyed"]
    /\ items' = [i \in Items |-> IF i \in At("lua", b)
                                 THEN [items[i] EXCEPT !.at = "queue"] ELSE items[i]]
    /\ registry' = [registry EXCEPT ![b] = BlankRegistry]
    /\ Onward("drain")
    /\ UNCHANGED <<liveList, handles, request, steps>>

(* lua_close(): every finaliser runs, and its owner frees the freelist.         *)
CloseDestroys(b) ==
    /\ Stage(b, "lua")
    /\ boxes[b].lua = "up" /\ boxes[b].inLua = 0 /\ ~boxes[b].panicked
    /\ boxes' = [boxes EXCEPT ![b].lua = "destroyed"]
    /\ items' = [i \in Items |-> IF i \in At("lua", b)
                                 THEN [items[i] EXCEPT !.at = "queue"] ELSE items[i]]
    /\ registry' = [registry EXCEPT ![b] = BlankRegistry]
    /\ Onward("drain")
    /\ UNCHANGED <<liveList, handles, request, steps>>

CloseHasNothing(b) ==
    /\ Stage(b, "lua")
    /\ boxes[b].lua = "none"
    /\ Onward("drain")
    /\ UNCHANGED <<boxes, liveList, items, handles, registry, request, steps>>

(* A state still executing is not closed, it is abandoned: its proxies are      *)
(* released one by one, everything else it holds goes with its heap.            *)
CloseAbandons(b) ==
    /\ Stage(b, "lua")
    /\ boxes[b].lua = "up" /\ (boxes[b].inLua > 0 \/ boxes[b].panicked)
    /\ boxes' = [boxes EXCEPT ![b].lua = "abandoned"]
    /\ items' = [i \in Items |-> IF i \in At("lua", b) /\ ~items[i].proxy
                                 THEN [items[i] EXCEPT !.at = "leaked"] ELSE items[i]]
    /\ Onward("abandon")
    /\ UNCHANGED <<liveList, handles, registry, request, steps>>

ReleaseAbandoned(b) ==
    /\ Stage(b, "abandon")
    /\ \/ /\ At("lua", b) = {}
          /\ Onward("drain")
          /\ UNCHANGED items
       \/ \E i \in At("lua", b) :
            /\ items' = [items EXCEPT ![i].at = "dying"]
            /\ stack' = Append(stack, Destructor(i))
    /\ UNCHANGED <<boxes, liveList, handles, registry, request, steps>>

(* luaext_defer_shutdown: a bounded number of passes, and what is left leaks.   *)
CloseDrains(b) ==
    /\ Stage(b, "drain")
    /\ IF At("queue", b) # {} /\ Here.pass < MaxPasses
       THEN /\ items' = Detached(b)
            /\ stack' = Below \o <<[Here EXCEPT !.pass = @ + 1], DrainFrame(b, "close")>>
       ELSE /\ items' = [i \in Items |-> IF i \in At("queue", b)
                                         THEN [items[i] EXCEPT !.at = "leaked"] ELSE items[i]]
            /\ Onward("finish")
    /\ UNCHANGED <<boxes, liveList, handles, registry, request, steps>>

(* luaext_sandbox_unlink, which leaves alone what was never linked. *)
Unlinked(b) ==
    IF b \in Range(liveList)
    THEN RemoveAt(liveList, CHOOSE n \in DOMAIN liveList : liveList[n] = b)
    ELSE liveList

\* Mutant: only close() and the end of the request unlink.
CloseUnlinksUnlessFreed(b) ==
    /\ Stage(b, "finish")
    /\ liveList' = IF Here.by = "free" THEN liveList ELSE Unlinked(b)
    /\ boxes' = IF Here.by = "free" THEN [boxes EXCEPT ![b].made = "freed"] ELSE boxes
    /\ stack' = Below
    /\ UNCHANGED <<items, handles, registry, request, steps>>

CloseUnlinks(b) ==
    /\ Stage(b, "finish")
    /\ liveList' = Unlinked(b)
    /\ boxes' = IF Here.by = "free" THEN [boxes EXCEPT ![b].made = "freed"] ELSE boxes
    /\ stack' = Below
    /\ UNCHANGED <<items, handles, registry, request, steps>>

--------------------------------------------------------------------------------
(* The end of the request, and the ways it comes early.                         *)

SweepFrame(b) == [k |-> "sweep", b |-> b]

EndRequest ==
    /\ stack = <<>> /\ request = "running" /\ Dying = {}
    /\ request' = "ending"
    /\ stack' = <<SweepFrame(Nothing)>>
    /\ UNCHANGED <<boxes, liveList, items, handles, registry, steps>>

(* PHP_RSHUTDOWN looks at the current head only, and owns what it holds.        *)
SweepClosesHead ==
    /\ HereIs("sweep") /\ Dying = {} /\ Here.b = Nothing
    /\ liveList # <<>>
    /\ LET b == Head(liveList)
       IN  IF boxes[b].closed
           THEN /\ stack' = Append(Below, SweepFrame(b))
                /\ UNCHANGED boxes
           ELSE /\ stack' = Below \o <<SweepFrame(b), CloseFrame(b, "sweep")>>
                /\ boxes' = [boxes EXCEPT ![b].closed = TRUE]
    /\ UNCHANGED <<liveList, items, handles, registry, request, steps>>

SweepReleases ==
    /\ HereIs("sweep") /\ Dying = {} /\ Here.b # Nothing
    /\ stack' = Append(Below, SweepFrame(Nothing))
    /\ UNCHANGED <<boxes, liveList, items, handles, registry, request, steps>>

SweepOver ==
    /\ HereIs("sweep") /\ Dying = {} /\ Here.b = Nothing
    /\ liveList = <<>>
    /\ stack' = <<>>
    /\ request' = "over"
    /\ UNCHANGED <<boxes, liveList, items, handles, registry, steps>>

(* zend_bailout: the C stack is jumped over, so nothing on it counts back down  *)
(* or drops what it held, and no destructor runs from here on.                  *)
JumpOut(extra) ==
    LET held(b) == \E n \in DOMAIN stack : stack[n].b = b
    IN  /\ boxes' = [b \in Boxes |->
                        [boxes[b] EXCEPT !.var   = @ \/ (held(b) /\ boxes[b].made = "made"),
                                         !.wreck = @ \/ OnStack("lua", b) \/ b \in extra,
                                         !.panicked = @ \/ b \in extra]]
        /\ items' = [i \in Items |-> IF items[i].at = "detached"
                                     THEN [items[i] EXCEPT !.at = "leaked"] ELSE items[i]]
        /\ request' = "crashed"
        /\ stack' = <<SweepFrame(Nothing)>>

Bailout ==
    /\ HostRuns /\ request = "running" /\ Step
    /\ FatalInTeardown \/ ~\E n \in DOMAIN stack : stack[n].k = "close"
    /\ JumpOut({})
    /\ UNCHANGED <<liveList, handles, registry>>

(* luaext_sandbox_panic: an error no protected call was there to take.          *)
Panic(b) ==
    /\ HostRuns /\ request = "running" /\ Step
    /\ Usable(b)
    /\ ~\E n \in DOMAIN stack : stack[n].k = "close"
    /\ JumpOut({b})
    /\ UNCHANGED <<liveList, handles, registry>>

--------------------------------------------------------------------------------

LifecycleEngine ==
    \/ CallReturns \/ HostReturns \/ DrainOne \/ DrainDone
    \/ SweepClosesHead \/ SweepReleases \/ SweepOver
    \/ \E b \in Boxes : \/ Free(b) \/ CloseDropsItsOwn(b) \/ CloseDestroys(b) \/ CloseHasNothing(b)
                        \/ CloseAbandons(b) \/ ReleaseAbandoned(b) \/ CloseDrains(b)
                        \/ CloseUnlinks(b)

LifecycleNext ==
    \/ LifecycleEngine
    \/ CallOut \/ EndRequest \/ Bailout
    \/ \E i \in Items : Finalised(i)
    \/ \E h \in Handles : DropHandle(h)
    \/ \E b \in Boxes : \/ Construct(b) \/ ConstructFails(b) \/ DropVariable(b)
                        \/ CallIn(b) \/ CloseMethod(b) \/ CollectCycle(b) \/ Panic(b)
                        \/ MakeHandleFails(b)
                        \/ \E i \in Items : HandOver(b, i)
                        \/ \E h \in Handles : MakeHandle(b, h)

LifecycleSpec == LifecycleInit /\ [][LifecycleNext]_lifecycleVars

(* What is on the C stack runs.                                                 *)
LifecycleFairSpec == LifecycleSpec /\ WF_lifecycleVars(LifecycleEngine)

--------------------------------------------------------------------------------

Frames ==
    [k : {"lua", "php"}, b : Boxes]
    \cup [k : {"sweep"}, b : Boxes \cup {Nothing}]
    \cup [k : {"dtor"}, b : {Nothing}, i : Items \cup {Nothing}]
    \cup [k : {"drain"}, b : Boxes, by : {"call", "close"}, left : SUBSET Items]
    \cup [k : {"close"}, b : Boxes, by : {"method", "free", "sweep"}, pass : 0 .. MaxPasses,
          stage : {"own", "lua", "abandon", "drain", "finish"}]

(* The counters never go below zero and never count past the frames there can   *)
(* be; every frame is one the code can leave on the C stack.                    *)
LifecycleTypeOK ==
    /\ boxes \in [Boxes -> [made : {"unborn", "made", "freed"},
                            lua : {"none", "up", "destroyed", "abandoned"},
                            closed : BOOLEAN, panicked : BOOLEAN, var : BOOLEAN, wreck : BOOLEAN,
                            inLua : 0 .. MaxStack, inPhp : 0 .. MaxStack]]
    /\ liveList \in Seq(Boxes)
    /\ items \in [Items -> [at : {"host", "lua", "queue", "detached", "dying", "released", "leaked"},
                            of : Boxes \cup {Nothing}, refs : Boxes \cup {Nothing},
                            proxy : BOOLEAN]]
    /\ handles \in [Handles -> [of : Boxes \cup {Nothing}, slot : Slots \cup {0}]]
    /\ registry \in [Boxes -> [held : [Slots -> Handles \cup {Nothing}], free : Seq(Slots),
                               next : 1 .. Cardinality(Handles) + 2]]
    /\ stack \in Seq(Frames)
    /\ request \in {"running", "ending", "crashed", "over"}
    /\ steps \in 0 .. MaxSteps

(* Every handle the host holds on an open sandbox names the function it was     *)
(* made for, whatever was released and recycled since, and the slots not in use *)
(* are each offered once (luaext_function.c, luaext_convert_ref_create).        *)
HandlesNameTheirOwn ==
    \A b \in Boxes : Usable(b) =>
        LET r == registry[b]
        IN  /\ \A h \in LivingHandles(b) : r.held[handles[h].slot] = h
            /\ IsInjective(r.free)
            /\ \A n \in 1 .. r.next - 1 : (r.held[n] = Nothing) = (n \in Range(r.free))

(* When the request is over no interpreter is left, no queue holds an object,   *)
(* and no sandbox is listed that was freed (PHP_RSHUTDOWN).                     *)
NothingOutlivesTheRequest ==
    /\ request = "over" => /\ \A b \in Boxes : boxes[b].lua # "up"
                           /\ \A i \in Items : items[i].at \notin {"lua", "queue", "detached"}
    /\ \A b \in Range(liveList) : boxes[b].made = "made"

(* PHP_RSHUTDOWN ends: "luaext_sandbox_close() always unlinks, so the head      *)
(* advances and this terminates".                                               *)
ShutdownEnds == request # "running" ~> request = "over"

(* The abstract view. *)
Executing(b) == IF boxes[b].wreck THEN "wrecked" ELSE IF OnStack("lua", b) THEN "busy" ELSE "idle"

CustodyOf(at) ==
    CASE at \in {"lua", "queue", "detached"} -> "lua"
      [] at \in {"dying", "released"}        -> "returned"
      [] at = "leaked"                       -> "lost"
      [] OTHER                               -> "host"

Guardian == INSTANCE Custody WITH
    interp  <- [b \in Boxes |-> boxes[b].lua],
    exec    <- [b \in Boxes |-> Executing(b)],
    keeper  <- [i \in Items |-> items[i].of],
    custody <- [i \in Items |-> CustodyOf(items[i].at)]

(* Objects and interpreters are kept as Custody promises.                       *)
KeepsCustody == Guardian!Spec
====
