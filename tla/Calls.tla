---- MODULE Calls ----
(* One sandbox and one thread: the bracket around every entry into Lua          *)
(* (luaext_exec.c), the protected calls and coroutines a script nests inside it *)
(* (luaext_baselib.c, luaext_corolib.c), the callables it crosses out through   *)
(* (luaext_phpcall.c), and the errors that unwind through all of them           *)
(* (luaext_error.c).                                                            *)
(*                                                                              *)
(* `frames` is the C stack.  A Lua error in flight is `err`, a PHP exception in *)
(* flight is `pending`.  An error is one of                                     *)
(*   "soft"     anything a script may catch and keep                            *)
(*   "runtime"  a RuntimeError of the host's, carried as the same object        *)
(*   "nomem"    LUA_ERRMEM with Lua's own string, which carries no marker       *)
(*   "fatal"    the extension's marker: a limit, a cap, a withheld feature      *)
(*   "foreign"  the marker carrying any other exception of the host's           *)
(*   "exit"     the marker raised over exit()'s sentinel, which stays pending   *)
(* Left out: memory (Memory), time (Timers), files other than the sweep's       *)
(* crossing (Files), teardown and deferred releases (Lifecycle), yields across a*)
(* pcall, a self-close with anything between it and its resume.                 *)
EXTENDS Naturals, FiniteSets, SequencesExt

CONSTANTS
    Threads,     \* coroutines a script can have at once, at most
    Main,        \* the main state, sandbox->L
    None,        \* no error, no exception
    MaxLive,     \* Limits::$maxLiveCoroutines
    MaxDepth,    \* Limits::$maxCoroutineDepth
    MaxPhp,      \* Limits::$maxCallDepth
    SettleCallsHost, \* may a finaliser call out while results are converted
    MaxFrames,   \* bound on the C stack
    MaxMoves     \* bound on what scripts, hosts and the collector decide

VARIABLES
    frames,      \* the C stack, innermost last
    err,         \* the Lua error in flight
    pending,     \* EG(exception)
    threads,     \* the coroutines
    co,          \* co_live, co_depth, co_sweeping and the weak table of threads
    running,     \* running_L
    inLua,       \* in_lua
    inPhp,       \* in_php
    flag,        \* irq.interrupted
    moves        \* what is left of MaxMoves

callsVars == <<frames, err, pending, threads, co, running, inLua, inPhp, flag, moves>>

Errors == {"soft", "runtime", "nomem", "fatal", "foreign", "exit"}

ASSUME CallsAssumption ==
    /\ IsFiniteSet(Threads) /\ Main \notin Threads /\ None \notin Errors
    /\ MaxLive \in Nat /\ MaxMoves \in Nat

(* luaext_error_is_fatal: the marker, which LUA_ERRMEM's string does not carry. *)
IsFatal(e) == e \in {"fatal", "foreign", "exit"}

Uncatchable(e) == IsFatal(e) \/ e = "nomem"

(* luaext_error_class_for and luaext_error_throw_from_lua: what the host sees.  *)
ThrownFor(e) ==
    CASE e \in {"soft", "runtime"}  -> "runtime"
      [] e \in {"nomem", "fatal"}   -> "fatal"
      [] OTHER                      -> e

(* luaext_error_raise_from_exception: what a script sees of the host's.         *)
RaisedFor(x) ==
    CASE x = "runtime" -> "runtime"
      [] x = "exit"    -> "exit"
      [] OTHER         -> "foreign"

--------------------------------------------------------------------------------
(* The stack.                                                                   *)

Top     == Last(frames)
Under   == Front(frames)
TopKind == IF frames = <<>> THEN "none" ELSE Top.kind
Is(k)   == TopKind = k
Room    == Len(frames) < MaxFrames /\ moves > 0

CallFrame == [kind : {"call"}, todo : SUBSET {"close"}, outer : BOOLEAN,
              phase : {"run", "walk", "files", "sample", "settle"},
              result : Errors \cup {None}, owed : Errors \cup {None}]
Frame ==
    CallFrame
    \cup [kind : {"pcall", "xpcall"}, todo : SUBSET {"message", "close"}]
    \cup [kind : {"resume", "wrap"}, on : Threads, from : Threads \cup {Main}]
    \cup [kind : {"closing"}, on : Threads, from : Threads \cup {Main},
          who : {"sweep", "wrap", "close", "self"}]
    \cup [kind : {"create"}, phase : {"collect", "make"}]
    \cup [kind : {"handler"}, over : Errors \cup {None}]
    \cup [kind : {"gc", "callable", "backend"}]

BlankThread == [status |-> "unborn", open |-> FALSE, err |-> None, late |-> FALSE]

ThreadState == [status : {"unborn", "suspended", "active", "failed", "dead"},
                open   : BOOLEAN,               \* a to-be-closed variable is pending
                err    : Errors \cup {None},    \* lua_status and the value under it
                late   : BOOLEAN]               \* auxiliary, see Late

CallsInit ==
    /\ frames = <<>>
    /\ err = None
    /\ pending = None
    /\ threads = [t \in Threads |-> BlankThread]
    /\ co = [live |-> 0, depth |-> 0, sweeping |-> FALSE, tracked |-> {}, left |-> {}]
    /\ running = Main
    /\ inLua = 0
    /\ inPhp = 0
    /\ flag = FALSE
    /\ moves = MaxMoves

(* Script code runs: on the entry's own body, or above one of Lua's C functions.*)
LuaOnTop ==
    /\ err = None
    /\ \/ TopKind \in {"pcall", "xpcall", "resume", "wrap", "handler", "gc"}
       \/ Is("call") /\ Top.phase = "run"

HostOnTop == TopKind \in {"none", "callable", "backend"}

(* The innermost entry, and the innermost entry made with in_lua at zero.       *)
CallsOf(fs)  == {i \in DOMAIN fs : fs[i].kind = "call"}
Boundary(fs) == IF CallsOf(fs) = {} THEN 0 ELSE Max(CallsOf(fs))
Outermost(fs) == LET outer == {i \in CallsOf(fs) : fs[i].outer}
                 IN  IF outer = {} THEN 0 ELSE Max(outer)

(* Auxiliary: an entry owes its host an uncatchable error raised by the script  *)
(* it runs.  Finalisers and the sweep's handlers have nobody to report to.      *)
Owing(fs, e) ==
    LET b == Boundary(fs)
    IN  IF /\ Uncatchable(e) /\ b # 0 /\ fs[b].phase = "run"
           /\ \A i \in b + 1 .. Len(fs) : fs[i].kind # "gc"
        THEN [fs EXCEPT ![b].owed = ThrownFor(e)]
        ELSE fs

(* A <close> or message handler that raises replaces what it was run over.      *)
Forgiving(fs, over, e) ==
    LET b == Boundary(fs)
    IN  IF Uncatchable(over) /\ ~Uncatchable(e) /\ b # 0
        THEN [fs EXCEPT ![b].owed = None] ELSE fs

(* The coroutine sweep of the outermost entry is over: what is created from     *)
(* here on, by a backend or a finaliser, is the next entry's to sweep.          *)
Late == LET o == Outermost(frames) IN o = 0 \/ frames[o].phase \notin {"run", "walk"}

Push(f)      == frames' = Append(frames, f)
Become(f)    == frames' = Append(Under, f)
Throw(fs, e) == /\ frames' = Owing(fs, e)
                /\ err' = e
Move         == moves' = moves - 1

--------------------------------------------------------------------------------
(* Entering: luaext_exec_pcall up to lua_pcall.                                 *)

Entry(close) == [kind |-> "call", todo |-> IF close THEN {"close"} ELSE {},
                 outer |-> inLua = 0, phase |-> "run", result |-> None, owed |-> None]

Enter ==
    /\ HostOnTop /\ pending = None /\ Room
    /\ \E close \in BOOLEAN : Push(Entry(close))
    /\ inLua' = inLua + 1
    /\ threads' = IF inLua = 0 THEN [t \in Threads |-> [threads[t] EXCEPT !.late = FALSE]]
                  ELSE threads
    /\ Move
    /\ UNCHANGED <<err, pending, co, running, inPhp, flag>>

(* luaext_exec_push_values: an argument is refused under a pcall of its own,    *)
(* before the bracket opens.                                                    *)
EnterRefused ==
    /\ HostOnTop /\ pending = None /\ moves > 0
    /\ pending' = "fatal"
    /\ Move
    /\ UNCHANGED <<frames, err, threads, co, running, inLua, inPhp, flag>>

(* The watchdog, or Sandbox::interrupt().                                       *)
Trip ==
    /\ ~flag /\ inLua > 0 /\ moves > 0
    /\ flag' = TRUE
    /\ Move
    /\ UNCHANGED <<frames, err, pending, threads, co, running, inLua, inPhp>>

(* luaext_raise_interrupt, from any check site.                                 *)
Interrupted ==
    /\ LuaOnTop /\ flag
    /\ Throw(frames, "fatal")
    /\ UNCHANGED <<pending, threads, co, running, inLua, inPhp, flag, moves>>

(* The script, a library or the allocator raises.                               *)
Raise ==
    /\ LuaOnTop /\ moves > 0
    /\ \E e \in {"soft", "nomem", "fatal"} : Throw(frames, e)
    /\ Move
    /\ UNCHANGED <<pending, threads, co, running, inLua, inPhp, flag>>

--------------------------------------------------------------------------------
(* pcall and xpcall (luaext_baselib.c).                                         *)

Protect ==
    /\ LuaOnTop /\ Room
    /\ \E k \in {"pcall", "xpcall"}, close \in BOOLEAN :
         Push([kind |-> k, todo |-> (IF close THEN {"close"} ELSE {})
                                    \cup (IF k = "xpcall" THEN {"message"} ELSE {})])
    /\ Move
    /\ UNCHANGED <<err, pending, threads, co, running, inLua, inPhp, flag>>

ProtectedReturns ==
    /\ LuaOnTop /\ TopKind \in {"pcall", "xpcall"} /\ "close" \notin Top.todo
    /\ frames' = Under
    /\ UNCHANGED <<err, pending, threads, co, running, inLua, inPhp, flag, moves>>

(* luaext_baselib_xpcall_handler: the script's handler sees no marker, and      *)
(* LUA_ERRMEM is thrown past every message handler.                             *)
SkipsHandler(e) == Uncatchable(e)

RunMessageHandler ==
    /\ err # None /\ Is("xpcall") /\ "message" \in Top.todo
    /\ LET f == [Top EXCEPT !.todo = @ \ {"message"}]
       IN  IF SkipsHandler(err)
           THEN /\ Become(f)
                /\ UNCHANGED err
           ELSE /\ frames' = Under \o <<f, [kind |-> "handler", over |-> err]>>
                /\ err' = None
    /\ UNCHANGED <<pending, threads, co, running, inLua, inPhp, flag, moves>>

(* A scope is left, by an error or by its end, and its <close> handler runs.    *)
RunCloseHandler ==
    /\ TopKind \in {"pcall", "xpcall", "call"}
    /\ "close" \in Top.todo /\ (err # None => "message" \notin Top.todo)
    /\ Is("call") => Top.phase = "run"
    /\ frames' = Under \o <<[Top EXCEPT !.todo = {}], [kind |-> "handler", over |-> err]>>
    /\ err' = None
    /\ UNCHANGED <<pending, threads, co, running, inLua, inPhp, flag, moves>>

HandlerReturns ==
    /\ LuaOnTop /\ Is("handler")
    /\ frames' = Under
    /\ err' = Top.over
    /\ UNCHANGED <<pending, threads, co, running, inLua, inPhp, flag, moves>>

HandlerFails ==
    /\ err # None /\ Is("handler")
    /\ frames' = Forgiving(Under, Top.over, err)
    /\ UNCHANGED <<err, pending, threads, co, running, inLua, inPhp, flag, moves>>

\* Mutant: Lua's own out-of-memory string is any error the script may keep.
KeptUnlessMarked(e) == IF IsFatal(e) THEN e ELSE None

(* What a protected construct does with an error: a refused allocation becomes  *)
(* the marker, the marker goes on, anything else is the script's to keep.       *)
Kept(e) == IF e = "nomem" THEN "fatal" ELSE IF IsFatal(e) THEN e ELSE None

(* luaext_baselib_finish.                                                       *)
Finish ==
    /\ err # None /\ TopKind \in {"pcall", "xpcall"} /\ Top.todo = {}
    /\ frames' = Under
    /\ err' = Kept(err)
    /\ UNCHANGED <<pending, threads, co, running, inLua, inPhp, flag, moves>>

--------------------------------------------------------------------------------
(* Coroutines (luaext_corolib.c).                                               *)

Unfinished(t) == threads[t].status \in {"suspended", "active"}

(* To whoever asks, a thread whose scope a close is ending runs: it is "normal" *)
(* to other threads, and lua_resume and close() refuse it.                      *)
BeingClosed(t) == \E i \in DOMAIN frames : frames[i].kind = "closing" /\ frames[i].on = t
Alive(t)       == Unfinished(t) \/ BeingClosed(t)

(* luaext_corolib_count.                                                        *)
Count(onlyAlive) == Cardinality({t \in co.tracked : onlyAlive => Alive(t)})

\* Mutant: the sweep does not forbid creation.
CreateBeginsAnyway ==
    /\ LuaOnTop /\ Room
    /\ Push([kind |-> "create", phase |-> IF co.live >= MaxLive THEN "collect" ELSE "make"])
    /\ Move
    /\ UNCHANGED <<err, pending, threads, co, running, inLua, inPhp, flag>>

(* luaext_corolib_create, up to its first allocation.                           *)
CreateBegins ==
    /\ LuaOnTop /\ Room
    /\ IF co.sweeping
       THEN Throw(frames, "soft")
       ELSE /\ Push([kind |-> "create",
                     phase |-> IF co.live >= MaxLive THEN "collect" ELSE "make"])
            /\ UNCHANGED err
    /\ Move
    /\ UNCHANGED <<pending, threads, co, running, inLua, inPhp, flag>>

\* Mutant: co_live from who is alive.
CreateCountsAlive ==
    /\ err = None /\ Is("create") /\ Top.phase = "collect"
    /\ co' = [co EXCEPT !.live = Count(TRUE)]
    /\ IF Count(TRUE) >= MaxLive
       THEN Throw(Under, "fatal")
       ELSE /\ Become([Top EXCEPT !.phase = "make"])
            /\ UNCHANGED err
    /\ UNCHANGED <<pending, threads, running, inLua, inPhp, flag, moves>>

(* After lua_gc: co_live from membership, the refusal from who is alive.        *)
CreateCounts ==
    /\ err = None /\ Is("create") /\ Top.phase = "collect"
    /\ co' = [co EXCEPT !.live = Count(FALSE)]
    /\ IF Count(TRUE) >= MaxLive
       THEN Throw(Under, "fatal")
       ELSE /\ Become([Top EXCEPT !.phase = "make"])
            /\ UNCHANGED err
    /\ UNCHANGED <<pending, threads, running, inLua, inPhp, flag, moves>>

(* lua_newthread has allocated: the thread is filled, tracked and counted.      *)
CreateMakes ==
    /\ err = None /\ Is("create") /\ Top.phase = "make"
    /\ \E t \in Threads :
         /\ threads[t].status = "unborn"
         /\ threads' = [threads EXCEPT ![t] = [BlankThread EXCEPT !.status = "suspended",
                                                                 !.late = Late]]
         /\ co' = [co EXCEPT !.tracked = @ \cup {t}, !.live = @ + 1]
    /\ frames' = Under
    /\ UNCHANGED <<err, pending, running, inLua, inPhp, flag, moves>>

CreateFails ==
    /\ err # None /\ Is("create")
    /\ frames' = Under
    /\ UNCHANGED <<err, pending, threads, co, running, inLua, inPhp, flag, moves>>

(* luaext_corolib_do_resume up to lua_resume; the body may open a scope.        *)
Resume ==
    /\ LuaOnTop /\ Room
    /\ \E t \in Threads, k \in {"resume", "wrap"}, open \in BOOLEAN :
         /\ threads[t].status = "suspended" /\ ~BeingClosed(t)
         /\ IF co.depth >= MaxDepth
            THEN /\ Throw(frames, "fatal")
                 /\ UNCHANGED <<threads, co, running>>
            ELSE /\ Push([kind |-> k, on |-> t, from |-> running])
                 /\ threads' = [threads EXCEPT ![t].status = "active", ![t].open = @ \/ open]
                 /\ co' = [co EXCEPT !.depth = @ + 1]
                 /\ running' = t
                 /\ UNCHANGED err
    /\ Move
    /\ UNCHANGED <<pending, inLua, inPhp, flag>>

(* lua_resume is back, with the thread in this state; the caller puts running_L *)
(* back.                                                                        *)
BackFromResume(state) ==
    /\ threads' = [threads EXCEPT ![Top.on] = state]
    /\ co' = [co EXCEPT !.depth = @ - 1]
    /\ UNCHANGED <<pending, inLua, inPhp, flag>>

Resuming == TopKind \in {"resume", "wrap"}

Yield ==
    /\ LuaOnTop /\ Resuming /\ moves > 0
    /\ BackFromResume([threads[Top.on] EXCEPT !.status = "suspended"])
    /\ running' = Top.from
    /\ frames' = Under
    /\ Move
    /\ UNCHANGED err

(* The body's scope ends before the body does.                                  *)
BodyClosesScope ==
    /\ LuaOnTop /\ Resuming /\ threads[Top.on].open
    /\ threads' = [threads EXCEPT ![Top.on].open = FALSE]
    /\ Push([kind |-> "handler", over |-> None])
    /\ UNCHANGED <<err, pending, co, running, inLua, inPhp, flag, moves>>

BodyReturns ==
    /\ LuaOnTop /\ Resuming /\ ~threads[Top.on].open
    /\ BackFromResume([threads[Top.on] EXCEPT !.status = "dead"])
    /\ running' = Top.from
    /\ frames' = Under
    /\ UNCHANGED <<err, moves>>

(* luaext_corolib_resume on an error: the thread keeps its open scope.          *)
ResumeFails ==
    /\ err # None /\ Is("resume")
    /\ BackFromResume([threads[Top.on] EXCEPT !.status = "failed", !.err = err])
    /\ running' = Top.from
    /\ frames' = Under
    /\ err' = Kept(err)
    /\ UNCHANGED moves

(* luaext_corolib_wrapped on an error: it closes the thread where it stands.    *)
WrapFails ==
    /\ err # None /\ Is("wrap")
    /\ BackFromResume([threads[Top.on] EXCEPT !.status = "failed", !.err = err])
    /\ running' = Top.on
    /\ Become([kind |-> "closing", on |-> Top.on, from |-> Top.from, who |-> "wrap"])
    /\ err' = None
    /\ UNCHANGED moves

(* luaext_corolib_close: a thread nobody is inside of.                          *)
Close ==
    /\ LuaOnTop /\ Room
    /\ \E t \in Threads :
         /\ threads[t].status \in {"suspended", "failed", "dead"} /\ ~BeingClosed(t)
         /\ Push([kind |-> "closing", on |-> t, from |-> running, who |-> "close"])
         /\ running' = t
    /\ Move
    /\ UNCHANGED <<err, pending, threads, co, inLua, inPhp, flag>>

(* luaext_corolib_close of the running coroutine, from its own body.            *)
SelfClose ==
    /\ LuaOnTop /\ Resuming /\ Room
    /\ Push([kind |-> "closing", on |-> Top.on, from |-> running, who |-> "self"])
    /\ Move
    /\ UNCHANGED <<err, pending, threads, co, running, inLua, inPhp, flag>>

(* lua_closethread: the open scope's handler runs over the thread's error.      *)
ClosingRunsHandler ==
    /\ err = None /\ Is("closing") /\ threads[Top.on].open
    /\ threads' = [threads EXCEPT ![Top.on].open = FALSE]
    /\ Push([kind |-> "handler", over |-> threads[Top.on].err])
    /\ UNCHANGED <<err, pending, co, running, inLua, inPhp, flag, moves>>

(* ... and what it leaves is the thread's error from then on.                   *)
ClosingHears ==
    /\ err # None /\ Is("closing")
    /\ threads' = [threads EXCEPT ![Top.on].err = err]
    /\ err' = None
    /\ UNCHANGED <<frames, pending, co, running, inLua, inPhp, flag, moves>>

\* Mutant: running_L is left at the thread that was closed.
ClosedInside(who) ==
    /\ err = None /\ Is("closing") /\ Top.who = who /\ ~threads[Top.on].open
    /\ threads' = [threads EXCEPT ![Top.on] = [@ EXCEPT !.status = "dead", !.err = None]]
    /\ running' = running

(* luaext_corolib_close_thread is back.                                         *)
Closed(who) ==
    /\ err = None /\ Is("closing") /\ Top.who = who /\ ~threads[Top.on].open
    /\ threads' = [threads EXCEPT ![Top.on] = [@ EXCEPT !.status = "dead", !.err = None]]
    /\ running' = Top.from

CloseEnds ==
    /\ Closed("close")
    /\ LET e == Kept(threads[Top.on].err)
       IN  IF e = None THEN frames' = Under /\ UNCHANGED err ELSE Throw(Under, e)
    /\ UNCHANGED <<pending, co, inLua, inPhp, flag, moves>>

WrapEnds ==
    /\ Closed("wrap")
    /\ LET e == threads[Top.on].err
       IN  /\ frames' = Under
           /\ err' = IF e = "nomem" THEN "fatal" ELSE e
    /\ UNCHANGED <<pending, co, inLua, inPhp, flag, moves>>

(* luaD_throwbaselevel: the resume returns, with the error closing left if any. *)
SelfCloseEnds ==
    /\ err = None /\ Is("closing") /\ Top.who = "self" /\ ~threads[Top.on].open
    /\ LET e == threads[Top.on].err
       IN  IF e = None
           THEN /\ frames' = Front(Under)
                /\ threads' = [threads EXCEPT ![Top.on].status = "dead"]
                /\ co' = [co EXCEPT !.depth = @ - 1]
                /\ running' = Last(Under).from
                /\ UNCHANGED err
           ELSE /\ frames' = Under
                /\ err' = e
                /\ UNCHANGED <<threads, co, running>>
    /\ UNCHANGED <<pending, inLua, inPhp, flag, moves>>

--------------------------------------------------------------------------------
(* The collector.  A finaliser runs above whatever allocates, one at a time.    *)

Collecting == \E i \in DOMAIN frames : frames[i].kind = "gc"

Allocating ==
    /\ err = None
    /\ \/ LuaOnTop
       \/ Is("create")
       \/ Is("call") /\ Top.phase = "settle" /\ Top.result = None

Finalise ==
    /\ Allocating /\ ~Collecting /\ Room
    /\ Push([kind |-> "gc"])
    /\ Move
    /\ UNCHANGED <<err, pending, threads, co, running, inLua, inPhp, flag>>

FinaliserReturns ==
    /\ LuaOnTop /\ Is("gc")
    /\ frames' = Under
    /\ UNCHANGED <<err, pending, threads, co, running, inLua, inPhp, flag, moves>>

(* GCTM, patched: a warning, unless the flag is up.                             *)
FinaliserFails ==
    /\ err # None /\ Is("gc")
    /\ IF flag THEN Throw(Under, err) ELSE frames' = Under /\ err' = None
    /\ UNCHANGED <<pending, threads, co, running, inLua, inPhp, flag, moves>>

(* The script dropped every reference to a thread; the weak table lets it go.   *)
Collect ==
    /\ Allocating /\ ~Collecting /\ moves > 0
    /\ \E t \in Threads :
         /\ threads[t].status \in {"suspended", "failed", "dead"} /\ ~BeingClosed(t)
         /\ threads' = [threads EXCEPT ![t] = BlankThread]
         /\ co' = [co EXCEPT !.tracked = @ \ {t}, !.left = @ \ {t}]
    /\ Move
    /\ UNCHANGED <<frames, err, pending, running, inLua, inPhp, flag>>

--------------------------------------------------------------------------------
(* Crossing out (luaext_phpcall_invoke_target, and the sweep's backend calls).  *)

CallHost ==
    /\ LuaOnTop /\ Room
    /\ inLua = 0 => SettleCallsHost
    /\ IF pending # None
       THEN /\ Throw(frames, RaisedFor(pending))
            /\ pending' = IF pending = "exit" THEN pending ELSE None
            /\ UNCHANGED inPhp
       ELSE IF inPhp >= MaxPhp
       THEN /\ Throw(frames, "fatal")
            /\ UNCHANGED <<pending, inPhp>>
       ELSE /\ Push([kind |-> "callable"])
            /\ inPhp' = inPhp + 1
            /\ UNCHANGED <<err, pending>>
    /\ Move
    /\ UNCHANGED <<threads, co, running, inLua, flag>>

HostThrows ==
    /\ frames # <<>> /\ HostOnTop /\ pending = None /\ moves > 0
    /\ \E x \in {"runtime", "foreign", "exit"} : pending' = x
    /\ Move
    /\ UNCHANGED <<frames, err, threads, co, running, inLua, inPhp, flag>>

(* PHP's own catch, which exit()'s sentinel passes through.                     *)
HostCatches ==
    /\ HostOnTop /\ pending # None
    /\ pending # "exit" \/ frames = <<>>
    /\ pending' = None
    /\ UNCHANGED <<frames, err, threads, co, running, inLua, inPhp, flag, moves>>

(* A long callback samples the clocks first; an interrupt leaves the exception. *)
CallableReturns ==
    /\ Is("callable")
    /\ inPhp' = inPhp - 1
    /\ \/ /\ flag
          /\ Throw(Under, "fatal")
          /\ UNCHANGED pending
       \/ IF pending = None
          THEN frames' = Under /\ UNCHANGED <<err, pending>>
          ELSE /\ Throw(Under, RaisedFor(pending))
               /\ pending' = IF pending = "exit" THEN pending ELSE None
    /\ UNCHANGED <<threads, co, running, inLua, flag, moves>>

--------------------------------------------------------------------------------
(* Leaving: luaext_exec_pcall from lua_pcall on.                                *)

BodyDone ==
    /\ Is("call") /\ Top.phase = "run" /\ Top.todo = {}
    /\ LET next == IF inLua # 1 THEN "sample"
                   ELSE IF co.live = 0 THEN "files" ELSE "walk"
       IN  /\ Become([Top EXCEPT !.phase = next, !.result = err])
           /\ co' = IF next = "walk"
                    THEN [co EXCEPT !.sweeping = TRUE, !.left = co.tracked, !.tracked = {}]
                    ELSE co
    /\ err' = None
    /\ UNCHANGED <<pending, threads, running, inLua, inPhp, flag, moves>>

(* luaext_corolib_sweep, over the detached table.                               *)
SweepNext ==
    /\ err = None /\ Is("call") /\ Top.phase = "walk"
    /\ \E t \in co.left :
         /\ Push([kind |-> "closing", on |-> t, from |-> running, who |-> "sweep"])
         /\ co' = [co EXCEPT !.left = @ \ {t}]
         /\ running' = t
    /\ UNCHANGED <<err, pending, threads, inLua, inPhp, flag, moves>>

SweptOne ==
    /\ Closed("sweep")
    /\ frames' = Under
    /\ UNCHANGED <<err, pending, co, inLua, inPhp, flag, moves>>

SweepEnds ==
    /\ err = None /\ Is("call") /\ Top.phase = "walk" /\ co.left = {}
    /\ Become([Top EXCEPT !.phase = "files"])
    /\ co' = [co EXCEPT !.sweeping = FALSE, !.live = 0, !.depth = 0]
    /\ UNCHANGED <<err, pending, threads, running, inLua, inPhp, flag, moves>>

(* luaext_vfs_sweep: a backend is asked to write what a file still holds, unless*)
(* an exception was pending on entry; the exception it leaves is dropped.       *)
SweepFile ==
    /\ Is("call") /\ Top.phase = "files" /\ pending = None /\ Room
    /\ Push([kind |-> "backend"])
    /\ Move
    /\ UNCHANGED <<err, pending, threads, co, running, inLua, inPhp, flag>>

BackendReturns ==
    /\ Is("backend")
    /\ frames' = Under
    /\ pending' = None
    /\ UNCHANGED <<err, threads, co, running, inLua, inPhp, flag, moves>>

FilesSwept ==
    /\ Is("call") /\ Top.phase = "files"
    /\ Become([Top EXCEPT !.phase = "sample"])
    /\ UNCHANGED <<err, pending, threads, co, running, inLua, inPhp, flag, moves>>

(* The flag is asked, then the bracket closes and the outermost one lowers it.  *)
Leave ==
    /\ Is("call") /\ Top.phase = "sample"
    /\ Become([Top EXCEPT !.phase = "settle",
                          !.result = IF @ = None /\ flag THEN "fatal" ELSE @])
    /\ inLua' = inLua - 1
    /\ flag' = (flag /\ inLua # 1)
    /\ UNCHANGED <<err, pending, threads, co, running, inPhp, moves>>

(* The results are converted, or the error becomes the exception.  A conversion *)
(* may refuse, or meet an interrupted finaliser inside the pcall of its store.  *)
Settle ==
    /\ Is("call") /\ Top.phase = "settle"
    /\ frames' = Under
    /\ err' = None
    /\ pending' = IF pending = "exit" /\ Top.result # None THEN pending
                  ELSE IF Top.result # None THEN ThrownFor(Top.result)
                  ELSE IF err # None THEN "fatal" ELSE pending
    /\ UNCHANGED <<threads, co, running, inLua, inPhp, flag, moves>>

CallsNext ==
    \/ Enter \/ EnterRefused \/ Trip \/ Interrupted \/ Raise
    \/ Protect \/ ProtectedReturns \/ RunMessageHandler \/ RunCloseHandler
    \/ HandlerReturns \/ HandlerFails \/ Finish
    \/ CreateBegins \/ CreateCounts \/ CreateMakes \/ CreateFails
    \/ Resume \/ Yield \/ BodyClosesScope \/ BodyReturns \/ ResumeFails \/ WrapFails
    \/ Close \/ SelfClose \/ ClosingRunsHandler \/ ClosingHears
    \/ CloseEnds \/ WrapEnds \/ SelfCloseEnds
    \/ Finalise \/ FinaliserReturns \/ FinaliserFails \/ Collect
    \/ CallHost \/ HostThrows \/ HostCatches \/ CallableReturns
    \/ BodyDone \/ SweepNext \/ SweptOne \/ SweepEnds
    \/ SweepFile \/ BackendReturns \/ FilesSwept \/ Leave \/ Settle

CallsSpec == CallsInit /\ [][CallsNext]_callsVars

--------------------------------------------------------------------------------
(* Type correctness of everything above.                                        *)
CallsTypeOK ==
    /\ frames \in Seq(Frame)
    /\ err \in Errors \cup {None}
    /\ pending \in {"runtime", "fatal", "foreign", "exit", None}
    /\ threads \in [Threads -> ThreadState]
    /\ co \in [live : Nat, depth : Nat, sweeping : BOOLEAN,
               tracked : SUBSET Threads, left : SUBSET Threads]
    /\ running \in Threads \cup {Main}
    /\ inLua \in Nat /\ inPhp \in Nat /\ flag \in BOOLEAN /\ moves \in Nat

(* An uncatchable error raised under an entry arrives at that entry as what it  *)
(* was (luaext_baselib.c:109-129, luaext_corolib.c:294-321): no pcall, xpcall,  *)
(* resume, wrap or close in between keeps it, and a host's exception is neither *)
(* swallowed nor mistaken for another.  Only a handler's own error replaces it. *)
FatalArrives ==
    \A i \in DOMAIN frames :
        frames[i].kind = "call" /\ frames[i].owed # None /\ frames[i].phase # "run" =>
            /\ frames[i].result # None
            /\ ThrownFor(frames[i].result) = frames[i].owed

(* Once the outermost entry has swept its coroutines (luaext_exec.c:394) none of*)
(* that entry is suspended or has a scope open, whatever the handlers the sweep *)
(* ran did; those a backend or a finaliser made later wait for the next sweep.  *)
SweepLeavesNothing ==
    LET o == Outermost(frames)
    IN  (o = 0 \/ frames[o].phase \in {"files", "sample", "settle"}) =>
            \A t \in Threads :
                (threads[t].status = "suspended" \/ threads[t].open) => threads[t].late

(* The population stays within the cap (luaext_corolib.c:113-144) but for the   *)
(* one thread a finaliser of the creation itself may slip in, and co_live, the  *)
(* sweep's early way out, never falls behind the table it stands for.           *)
PopulationCapped ==
    /\ Cardinality({t \in Threads : Unfinished(t)}) <= MaxLive + 1
    /\ ~co.sweeping => co.live >= Cardinality(co.tracked)

(* running_L, which re-entry and the watchdog's hook go by, names the state     *)
(* whose code is running (luaext_corolib.c:226-272), after every resume, close, *)
(* refusal and unwinding, and through handlers and finalisers that nest more.   *)
RunningIsInnermost ==
    LET inside == {i \in DOMAIN frames : frames[i].kind \in {"resume", "wrap", "closing"}}
    IN  running = IF inside = {} THEN Main ELSE frames[Max(inside)].on
====
