---- MODULE Require ----
(* require(): the modules loaded and being loaded, the circular guard, the two  *)
(* limits, and what a search, a loader, or require itself leaves behind when it *)
(* fails (luaext_require.c).                                                    *)
(*                                                                              *)
(* `loads` is the C stack: "call" is a call of the host's into the interpreter, *)
(* "co" a coroutine being resumed, "gc" a finaliser of a script's that the      *)
(* collector runs (GCTM), and a require is a frame that goes through stages:    *)
(*   "mark"    its checks have passed, it has not marked the module             *)
(*   "push"    marked and counted in the depth, the search not yet protected    *)
(*   "ask"     the search runs: host code that may call back                    *)
(*   "found"   the search has ended with a loader, not yet called               *)
(*   "load"    the loader runs, a script like any other                         *)
(*   "unmark"  out of the depth, still marked                                   *)
(*   "leave"   unmarked; a module that loaded is not yet stored or counted      *)
(* In "mark", "push", "found", "unmark" and "leave" require pushes a string     *)
(* with nothing protected around it: lua_pushlstring may run a finaliser, and   *)
(* raise.                                                                       *)
(* The pushes before the checks need no stage: what they let a finaliser change *)
(* a script may change just before, or in "mark".                               *)
(*                                                                              *)
(* Left out: what a module's name may be and where each pattern leads, and what *)
(* bytecode is accepted: each is one way for the search to fail.                *)
EXTENDS Naturals, FiniteSets, SequencesExt

CONSTANTS
    Modules,          \* module names
    NoModule,
    MaxModules,       \* Limits::$maxModules
    MaxRequireDepth,  \* Limits::$maxRequireDepth
    MaxLoads          \* bound on the C stack

ASSUME RequireAssumption ==
    /\ IsFiniteSet(Modules)
    /\ NoModule \notin Modules
    /\ MaxModules \in Nat \ {0} /\ MaxRequireDepth \in Nat \ {0}

VARIABLES
    marked,       \* the table of modules in progress
    loaded,       \* package.loaded
    preload,      \* package.preload
    depth,        \* require_depth
    count,        \* modules_loaded
    loads,        \* the C stack, innermost last
    failing,      \* the Lua error in flight
    interrupted,  \* irq.interrupted
    stranded      \* history: the depth and the marks of requires that were left
                  \* without their own clean-up

packageVars == <<loaded, preload>>
booksVars   == <<marked, depth, count, stranded>>
requireVars == <<marked, loaded, preload, depth, count, loads, failing, interrupted, stranded>>

RequireInit ==
    /\ marked = {} /\ loaded = {} /\ preload = {}
    /\ depth = 0 /\ count = 0
    /\ loads = <<>>
    /\ failing = "none" /\ interrupted = FALSE
    /\ stranded = [depth |-> 0, marks |-> {}]

\* The stages with the mark set, counted in the depth, pushing unprotected.
Marking   == {"push", "ask", "found", "load", "unmark"}
Deepening == {"push", "ask", "found", "load"}
Windows   == {"mark", "push", "found", "unmark", "leave"}
Stages    == Marking \cup Windows

(* `out`: the error an "unmark" or "leave" frame is about to raise.             *)
Load(k, m)   == [k |-> k, m |-> m, out |-> "none", breach |-> FALSE]
Inside(ks)   == {n \in DOMAIN loads : loads[n].k \in ks}
On(ks)       == loads # <<>> /\ Last(loads).k \in ks
Requires     == Inside(Stages)
Scripted     == On({"call", "co", "load", "gc"})
ScriptRuns   == Scripted /\ failing = "none"
Base         == CHOOSE n \in DOMAIN loads :
                    /\ loads[n].k = "call"
                    /\ \A later \in n + 1 .. Len(loads) : loads[later].k # "call"
Becomes(k, out) == [loads EXCEPT ![Len(loads)].k = k, ![Len(loads)].out = out]

(* An error is raised in the stack `below`.  A limit's error is remembered by   *)
(* the call it must end, unless a finaliser may yet swallow it.                 *)
Fails(below, e) ==
    /\ failing' = e
    /\ loads' = IF e = "plain" \/ \E n \in Base + 1 .. Len(below) : below[n].k = "gc"
                THEN below ELSE [below EXCEPT ![Base].breach = TRUE]

(* The frames from n on go without a clean-up.                                  *)
Strands(n) ==
    stranded' = [depth |-> stranded.depth + Cardinality({r \in Inside(Deepening) : r >= n}),
                 marks |-> stranded.marks \cup {loads[r].m : r \in {q \in Inside(Marking) : q >= n}}]

\* Mutant: it is raised again as the string it was.
ReraisedAsIs(e) == IF e = "nomem" THEN "plain" ELSE e

(* Lua's own out-of-memory string, re-raised as the unforgeable marker.         *)
Reraised(e) == IF e = "nomem" THEN "fatal" ELSE e

--------------------------------------------------------------------------------
(* The host and the scripts.                                                    *)

(* The host calls in, or its code that a search or a script called does.        *)
HostCalls ==
    /\ loads = <<>> \/ (On({"ask"}) /\ failing = "none") \/ ScriptRuns
    /\ Len(loads) < MaxLoads
    /\ loads' = Append(loads, Load("call", NoModule))
    /\ UNCHANGED <<booksVars, packageVars, failing, interrupted>>

(* What the call ended with is the host's, whoever made it.                     *)
HostCallEnds ==
    /\ On({"call"})
    /\ loads' = Front(loads)
    /\ failing' = "none"
    /\ interrupted' = (interrupted /\ Len(loads) > 1)
    /\ UNCHANGED <<booksVars, packageVars>>

Interrupts ==
    /\ loads # <<>>
    /\ interrupted' = TRUE
    /\ UNCHANGED <<booksVars, packageVars, loads, failing>>

CoroutineBegins ==
    /\ ScriptRuns
    /\ Len(loads) < MaxLoads
    /\ loads' = Append(loads, Load("co", NoModule))
    /\ UNCHANGED <<booksVars, packageVars, failing, interrupted>>

CoroutineEnds ==
    /\ On({"co"})
    /\ loads' = Front(loads)
    /\ failing' = IF failing = "plain" THEN "none" ELSE Reraised(failing)
    /\ UNCHANGED <<booksVars, packageVars, interrupted>>

(* The running coroutine closes itself: luaD_throwbaselevel unwinds to where it *)
(* was resumed, past every protected call in between.  From a finaliser it goes *)
(* past the error a require was about to raise, which nobody then hears of.     *)
ClosesItself ==
    /\ ScriptRuns
    /\ \E n \in Inside({"co"}) :
        /\ \A later \in Inside({"co"}) : later <= n
        /\ LET below == SubSeq(loads, 1, n - 1)
           IN  loads' = [b \in DOMAIN below |->
                            [below[b] EXCEPT !.breach =
                                @ /\ \A r \in n .. Len(loads) : loads[r].out = "none"]]
        /\ Strands(n)
    /\ UNCHANGED <<marked, depth, count, packageVars, failing, interrupted>>

ScriptRaises ==
    /\ ScriptRuns
    /\ \E e \in {"plain", "fatal", "nomem"} : Fails(loads, e)
    /\ UNCHANGED <<booksVars, packageVars, interrupted>>

ScriptCatches ==
    /\ Scripted /\ failing = "plain"
    /\ failing' = "none"
    /\ UNCHANGED <<booksVars, packageVars, loads, interrupted>>

(* package.loaded and package.preload are a script's to write, and              *)
(* preloadModule() the host's.                                                  *)
WritesPackage(m) ==
    /\ ScriptRuns
    /\ \/ loaded' \in {loaded \cup {m}, loaded \ {m}} /\ UNCHANGED preload
       \/ preload' \in {preload \cup {m}, preload \ {m}} /\ UNCHANGED loaded
    /\ UNCHANGED <<booksVars, loads, failing, interrupted>>

(* Whatever allocates may run a finaliser, one at a time.  (One left by         *)
(* ClosesItself keeps the collector stopped for good; here it does not.)        *)
Finalises ==
    /\ ScriptRuns \/ (On({"ask"} \cup Windows) /\ failing = "none")
    /\ Inside({"gc"}) = {}
    /\ Len(loads) < MaxLoads
    /\ loads' = Append(loads, Load("gc", NoModule))
    /\ UNCHANGED <<booksVars, packageVars, failing, interrupted>>

(* GCTM makes a warning of the error a finaliser ended with, unless the sandbox *)
(* was interrupted: then it is thrown on, out of the function that allocated.   *)
FinaliserEnds ==
    /\ On({"gc"})
    /\ \/ /\ loads' = Front(loads)
          /\ failing' = "none"
          /\ UNCHANGED stranded
       \/ /\ failing # "none" /\ interrupted
          /\ LET below == Front(loads)
                 kept  == IF below[Len(below)].k \in Windows THEN Front(below) ELSE below
             IN  Fails(kept, failing) /\ Strands(Len(kept) + 1)
    /\ UNCHANGED <<marked, depth, count, packageVars, interrupted>>

--------------------------------------------------------------------------------
(* require.                                                                     *)

RequireRefused(m) ==
    /\ ScriptRuns /\ m \notin loaded
    /\ IF m \in marked
       THEN Fails(loads, "plain")
       ELSE (depth >= MaxRequireDepth \/ count >= MaxModules) /\ Fails(loads, "fatal")
    /\ UNCHANGED <<booksVars, packageVars, interrupted>>

RequireBegins(m) ==
    /\ ScriptRuns /\ m \notin loaded /\ m \notin marked
    /\ depth < MaxRequireDepth /\ count < MaxModules
    /\ Len(loads) < MaxLoads
    /\ loads' = Append(loads, Load("mark", m))
    /\ UNCHANGED <<booksVars, packageVars, failing, interrupted>>

(* Out of memory between two stages: the frame is gone as it was.               *)
WindowFails ==
    /\ On(Windows) /\ failing = "none"
    /\ Fails(Front(loads), "nomem")
    /\ Strands(Len(loads))
    /\ UNCHANGED <<marked, depth, count, packageVars, interrupted>>

Marks ==
    /\ On({"mark"}) /\ failing = "none"
    /\ marked' = marked \cup {Last(loads).m}
    /\ depth' = depth + 1
    /\ loads' = Becomes("push", "none")
    /\ UNCHANGED <<count, stranded, packageVars, failing, interrupted>>

(* A preloaded module is found without asking anybody.                          *)
Searches ==
    /\ On({"push"}) /\ failing = "none"
    /\ loads' = Becomes(IF Last(loads).m \in preload THEN "found" ELSE "ask", "none")
    /\ UNCHANGED <<booksVars, packageVars, failing, interrupted>>

RequireFinds ==
    /\ On({"ask"}) /\ failing = "none"
    /\ loads' = Becomes("found", "none")
    /\ UNCHANGED <<booksVars, packageVars, failing, interrupted>>

LoaderBegins ==
    /\ On({"found"}) /\ failing = "none"
    /\ loads' = Becomes("load", "none")
    /\ UNCHANGED <<booksVars, packageVars, failing, interrupted>>

(* The protected call has returned, with an error or without.                   *)
Surfaces(e) ==
    /\ depth' = depth - 1
    /\ loads' = Becomes("unmark", Reraised(e))
    /\ failing' = "none"
    /\ UNCHANGED <<marked, count, stranded, packageVars, interrupted>>

(* Nothing found, or a search that raised.                                      *)
SearchFails ==
    /\ On({"ask"})
    /\ \E e \in IF failing = "none" THEN {"plain", "fatal", "nomem"} ELSE {failing} :
        Surfaces(e)

LoaderEnds == On({"load"}) /\ Surfaces(failing)

Unmarks ==
    /\ On({"unmark"}) /\ failing = "none"
    /\ marked' = marked \ {Last(loads).m}
    /\ stranded' = [stranded EXCEPT !.marks = @ \ {Last(loads).m}]
    /\ loads' = Becomes("leave", Last(loads).out)
    /\ UNCHANGED <<depth, count, packageVars, failing, interrupted>>

RequireRaises ==
    /\ On({"leave"}) /\ failing = "none" /\ Last(loads).out # "none"
    /\ Fails(Front(loads), Last(loads).out)
    /\ UNCHANGED <<booksVars, packageVars, interrupted>>

RequireReturns ==
    /\ On({"leave"}) /\ failing = "none" /\ Last(loads).out = "none"
    /\ loaded' = loaded \cup {Last(loads).m}
    /\ count' = count + 1
    /\ loads' = Front(loads)
    /\ UNCHANGED <<marked, depth, stranded, preload, failing, interrupted>>

--------------------------------------------------------------------------------

RequireNext ==
    \/ HostCalls \/ HostCallEnds \/ Interrupts
    \/ CoroutineBegins \/ CoroutineEnds \/ ClosesItself
    \/ ScriptRaises \/ ScriptCatches \/ Finalises \/ FinaliserEnds
    \/ \E m \in Modules : WritesPackage(m) \/ RequireRefused(m) \/ RequireBegins(m)
    \/ WindowFails \/ Marks \/ Searches \/ RequireFinds \/ SearchFails
    \/ LoaderBegins \/ LoaderEnds \/ Unmarks \/ RequireRaises \/ RequireReturns

RequireSpec == RequireInit /\ [][RequireNext]_requireVars

--------------------------------------------------------------------------------

RequireTypeOK ==
    /\ marked \subseteq Modules /\ loaded \subseteq Modules /\ preload \subseteq Modules
    /\ depth \in 0 .. MaxRequireDepth + 1
    /\ count \in Nat
    /\ failing \in {"none", "plain", "fatal", "nomem"} /\ interrupted \in BOOLEAN
    /\ stranded.depth \in Nat /\ stranded.marks \subseteq Modules

(* A module is marked in progress while a require of it is between its mark and *)
(* its unmark and at no other time, except for what a jump or an error past     *)
(* require's frame left behind; no two requires hold one module's mark at once; *)
(* the depth is theirs.                                                         *)
MarksFollowTheFrames ==
    /\ marked = {loads[n].m : n \in Inside(Marking)} \cup stranded.marks
    /\ \A n, o \in Inside(Marking) : n # o => loads[n].m # loads[o].m
    /\ depth = Cardinality(Inside(Deepening)) + stranded.depth

(* However modules nest, each require still passes the check of maxModules on   *)
(* its way in.  What nesting adds past it is bounded by the nesting allowed and *)
(* the one require that a finaliser makes while another is out of the depth and *)
(* not yet counted.                                                             *)
OvershootIsBounded == count <= MaxModules + MaxRequireDepth

(* A limit that struck anywhere under a call of the host's is still an error    *)
(* when that call ends: no search, loader or coroutine turned it into one a     *)
(* script may catch.  A require carries it across its own clean-up, and only an *)
(* interrupted finaliser there replaces it, with the flag up that ends the call. *)
BreachEndsTheCall ==
    \A n \in DOMAIN loads : loads[n].breach =>
        \/ n = Base /\ failing \in {"fatal", "nomem"}
        \/ \E r \in n + 1 .. Len(loads) : loads[r].out = "fatal"
        \/ interrupted

RequireHoldsItsLimits ==
    /\ MarksFollowTheFrames
    /\ OvershootIsBounded
    /\ BreachEndsTheCall
====
