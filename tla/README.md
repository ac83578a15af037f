# A TLA+ verification of LuaExt

LuaExt is a PHP extension, written in C, that runs untrusted Lua 5.5 in sandboxes
inside the PHP process. What makes it hard to get right is not the binding of
values but the bookkeeping around it: a script must be stopped when it has used
up its CPU time, its wall time, its memory or its output, by code that shares
state with a watchdog thread, while Lua and PHP call each other to any depth and
any of those calls may fail. This directory models that bookkeeping in TLA+,
checks it with TLC on small instances and proves parts of it with TLAPS for all.

File names below are relative to `src/src/` unless they say otherwise. Module
names are in `Monospace`. `PROJECT.json` gives, for every definition that
translates code, the lines it translates.

1. The system
2. What is modelled, and how it corresponds to the code
3. The runs: what each checks, its bounds, why they are enough
4. Fairness
5. What is proved, and how
6. Where the code and its own words disagree
7. What is only model-checked, and what is not modelled
8. The plan

---

## 1. The system

### 1.1 Components

| component | code | state it keeps | operations that change it |
|---|---|---|---|
| watchdog | `luaext_watchdog.c` | one process-wide record: mutex, condition variable, min-heap of deadlines, thread, `once`/`running`/`failed`/`stop` flags, a pool of slots with a free list; per slot: limits, used CPU and wall time, which segments are open and which are paused, epoch, generation, the queued deadline | startup, shutdown, acquire, release, set CPU/wall limit, arm, disarm, pause, resume, final check, self check; the thread's loop |
| timers | `luaext_timers.c` | `slot`, `allow_pause`, `in_lua`, the fallback hook; a `luaext_watch_frame` on the C stack per entry | attach, detach, enter, leave, pause, resume, set limits, back from PHP, throw-if-interrupted, request |
| interrupt flag | `luaext_interrupt.c`, `luaext_types.h`, patched `lvm.c` | two atomic bytes, `interrupted` and `reason` | raised by the watchdog, by the owner's own evaluation and by `Sandbox::interrupt()` on a foreign thread; polled at check sites and VM back edges; lowered at the end of a call |
| memory accounting | `luaext_alloc.c` | `usage`, `charged`, `peak`, `limit`, the collector's last tier | the Lua allocator, charge, discharge, set limit |
| errors | `luaext_error.c` | the saved ceiling on the C stack of the message handler | describe an error (with the ceiling lifted), mark fatal, convert to an exception |
| output | `luaext_output.c` | buffer, capacity, stream, budget, `written`, `truncated` | write, flush, emit to the callback, take, close |
| boundary | `luaext_exec.c` | the interpreter's stack, the pending exception | protected call, load, sweep at the end |
| PHP calls | `luaext_phpcall.c` | the argument array and its bill | invoke, convert the result |
| coroutines | `luaext_corolib.c` | weak table of threads, `co_live`, `co_sweeping` | create, resume, wrap, close, sweep |
| filesystem and io | `luaext_vfs.c`, `luaext_iolib.c`, `luaext_vfs_path.c` | open handles, their buffers, offsets and charges, quotas | open, read, write, seek, flush, close, sweep, backend calls |
| modules | `luaext_require.c` | `package.loaded`, the loading table, `preload` | search, load, preload, resolver calls |
| lifecycle | `luaext_sandbox.c`, `luaext.c`, `luaext_defer.c`, `luaext_function.c` | the list of live sandboxes, `closed`, abandoned states, the queue of deferred releases, registry slots of handles | construct, close, abandon, drain, request and module shutdown |
| object proxies | `luaext_proxy.c` | class records, live proxies, anchors | register, unregister, construct, call, collect |
| value conversion | `luaext_convert.c` | none of its own | Lua to PHP and back |
| configuration | `luaext_config.c`, `luaext_openlibs.c` and the small libraries | immutable policy | construction only |
| profiler, seal, clock, thread | `luaext_profiler.c`, `luaext_seal.c`, `luaext_clock.c`, `luaext_thread.c` | samples; none; none; none | sampling; digest; reading a clock; wrapping pthreads and Win32 |

### 1.2 How they interact

* **Threads.** The owner (the PHP thread that runs the script), the one watchdog
  thread per process, and any thread that calls `interrupt()`. They share the
  watchdog's record under `watchdog.lock`, each slot under `slot->lock` (taken
  inside the former by the thread, never the other way round), and the two bytes
  of the flag under no lock at all.
* **Calls that come back.** PHP enters Lua (`luaext_exec_pcall`), Lua calls PHP
  (a registered callable, a backend, the output callback, a module resolver, a
  destructor), and PHP enters Lua again. Every entry has a `luaext_watch_frame`
  and every crossing its own locals; state read before a crossing may be stale
  after it.
* **Unwinding.** A Lua error longjmps over C frames. Fatal ones (a limit, an
  abort) may not be kept by a script's `pcall`; others may. A PHP exception
  stays pending until a boundary turns it into one or the other.
* **Finalisers** run inside allocations, with the collector refusing to be tuned.

### 1.3 What is hard, and what makes each component correct

| hard behaviour | what has to hold | where |
|---|---|---|
| owner and watchdog interleave on a slot | time is billed exactly; nothing trips early; a breach is delivered | `Watchdog` |
| stale heap entries, slots re-let to another sandbox | a flag never leaves its call | `Watchdog`, proved |
| a thread that is refused, a clock that fails, a heap that cannot grow | what was accepted is enforced, what cannot be measured is stopped | `Watchdog`; two disagreements |
| module shutdown and a second startup | the thread goes before what it reads | `Watchdog`, proved |
| pauses across nested calls and callbacks | Lua time always counts, host time as documented | `Timers`, proved; one disagreement |
| two relaxed bytes and three writers | a reason for every raise, no success past a trip | `IrqFlag`, proved; one disagreement |
| one budget, many spenders, every one of which may fail halfway | the ledger is the sum of what is held; the ceiling is never passed | `Memory`, proved |
| a ceiling lifted while an error is described | it comes back, whatever happens | `Memory`, proved; one disagreement |
| an output callback that prints | each byte leaves once, in order, on its stream | `Memory`, proved |
| errors that unwind through `pcall`s, coroutines, handlers and host frames | an uncatchable one arrives, as what it was | `Calls`, proved |
| the sweep at the end of a call, with script code in it | no coroutine of that call is left, the cap and `running_L` are right | `Calls`, proved |
| destructors that come back, close, and free what is being walked | nothing is released twice or under a running interpreter, and the request ends | `Lifecycle`, proved to refine `Custody`; one disagreement |
| handles on functions whose slots are recycled | a handle names its own function | `Lifecycle`, proved |
| backends that refuse, throw, exit or come back while a handle is used; finalisers and failures while one is built | the quotas are the truth, writes are offered before the handle goes | `Files`, proved; two disagreements |
| modules that require each other, searches and loaders that fail, finalisers between the stages of a require | the circular guard, the two limits, a breach is not catchable | `Require`, proved |
| class records that retire under proxies, tokens and registrations | a call dispatches on its own class's record or not at all | `Proxies`, proved |

`PROJECT.json` lists forty-three such hazards at the line where each bites, with the
properties that would catch it going wrong.

---

## 2. What is modelled, and how it corresponds to the code

```
WatchSlot ──► Watchdog ──► MCWatchdog        four configurations
    │             └──────► WatchdogProofs ◄─┬─ WatchSlotProofs
    └───────► Timers ────► MCTimers         │  two
                  └──────► TimersProofs ◄───┘
              IrqFlag ───► MCIrqFlag           two
Ledger ─────► Memory ────► MCMemory            two
Files ────────────────────► MCFiles            four
Require ──────────────────► MCRequire          one
Calls ───────┐
Lifecycle ───┼──► MCSandbox                    one, and one of Lifecycle alone
Proxies ─────┘
Lifecycle ═► Custody  (Guardian, a refinement)

Memory, Require ─────────► LimitsProofs  ◄─┐
Calls ───────────────────► CallsProofs   ◄─┼── SumTheorems
Files, Proxies, IrqFlag ─► SandboxProofs ◄─┘
Lifecycle ───────────────► LifecycleProofs
```

Every module models the same program from one side, and the sides meet in the
crossings: a frame of a host's call is a pause in `Timers`, a bill in `Memory`, an
error's way out in `Calls`, a destructor in `Lifecycle`, a backend in `Files`. What one
module needs of another is a free choice in it: in `Files`, a script may do
anything with its handles; in `Lifecycle`, an object may be finalised at any
moment the collector can run.

### WatchSlot: the arithmetic of a slot

`WatchSlot` holds no variables: a slot is a record (`Slot`), a reading of the
clocks is a record (`Clock`), and each helper of `luaext_watchdog.c` is an operator
from slot to slot. `Opened`/`Closed` are `luaext_watch_open` and
`luaext_watch_close`, `Verdict` is `luaext_watch_evaluate`, `Deadline` the
computation of the next instant worth looking at, with its saturating sum and its
floor, `Stamped` the new epoch of a superseded entry, `Covered` the decision not
to publish. `Watchdog` and `Timers` share it, so the two views of a slot cannot
drift apart.

### Watchdog: the thread, the heap, the pool

One step per critical section. An owner is at one of nine points (`Steps`)
between two critical sections, and the clock may tick, or the thread run,
between any two steps. So an owner that has stamped an entry and not
published it yet is a state, as it is in the code, which drops `slot->lock`
before it takes `watchdog.lock`.

| variable | code |
|---|---|
| `slots`, `free` | the pool's blocks, its free list |
| `irq` | `sandbox->irq`, flag and reason as one value (taken apart in `IrqFlag`) |
| `own` | where each owner thread is, with its C locals |
| `heap` | the deadline heap; a set, since what is asked of a heap is its minimum |
| `thread` | the watchdog thread: program counter, the instant it waits for, the pending signal |
| `module` | `ready`, `once`, `running`, `failed`, `stop`, and which lifetime this is |
| `now`, `cpu`, `readable` | the clocks, and whether a CPU clock answers |
| `ledger` | auxiliary: what the sandbox really owes, added up tick by tick |

The environment may refuse the thread (`ThreadMayFail`), the capture of a CPU clock
(`CaptureMayFail`), a reading of it at any later moment (`ClockMayFail`) and an
allocation for the heap (`HeapMayFail`). `Wake` includes the spurious wakeup. CPU clocks advance no
faster than the monotonic one. A limit too fine for the CPU clock
(`CoarseLimits`) gets its wall companion.

### Timers: who is billed

The bracket around every entry and the four crossings out of Lua, as a stack of
frames: `"lua"` frames carry what `luaext_watch_frame` carries, host frames what the
C code of that crossing keeps in locals. `CrossOut`/`CrossBack` follow each
crossing's own rule: a registered callable resumes everything when it
returns, a backend, the sink and the resolver only what they paused. The
auxiliary `unbilled` says which clocks the *documents* except for a host frame, and
`ledger` bills by it; the properties compare the two.

### IrqFlag: two bytes under the C11 memory model

Each byte is the sequence of stores made to it; a load by a thread returns any
store not older than the last one that thread knows of; the mutex and the
release/acquire-fence pair carry knowledge from thread to thread. One
restriction: a store is appended to its byte's modification order when it is made,
so two unordered stores to one byte are modified in the order the
steps happen. Loads are as weak as C11 allows, stores are not reordered against
each other within a byte.

### Ledger and Memory: one budget, many spenders

`Ledger` is the `luaext_alloc` record and its operators; `Memory` is everything that
spends: Lua blocks, the argument array of a host call and its content, the
buffers of open files, the output buffer. It has a stack of frames of eight
kinds, because each of these spenders can be interrupted by host code that
comes back:

| frame | code |
|---|---|
| `script` | an entry through `luaext_exec_pcall` |
| `finaliser` | a `__gc` run by an allocation, errors swallowed |
| `report` | the message handler, ceiling lifted, `saved` is its `saved_limit` |
| `call` | `luaext_phpcall_invoke`, with the two parts of its bill |
| `write`, `flush`, `emit` | `luaext_output_write`, a flush of the buffer, the PHP callback in it |
| `sweep` | the files closed at the end of the outermost call |

`Raise` is the unwinding: a non-fatal error may be kept by a `pcall`, a finaliser
swallows its own, an error inside a report ends that report, and any other puts a
report on top of the frame that raised it. `OutOfMemory` is `LUA_ERRMEM`, which no
`pcall` keeps. A byte of output is its number and its stream, so that order, loss and
duplication can be told apart. The stream is what `luaext_output.c` accepted and
`heard` what left it.

### Calls: the bracket, errors and coroutines

The C stack is a sequence of frames, each with the C locals that outlive a callback:

| frame | code |
|---|---|
| `call` | `luaext_exec_pcall`, in its `phase`s: the body runs, coroutines are swept (`walk`), files (`files`), the flag is sampled (`sample`), results are converted or the error thrown (`settle`) |
| `pcall`, `xpcall`, `handler` | a protected call with what it still has to run when it is left (`todo`), a message or `<close>` handler |
| `create`, `resume`, `wrap`, `closing` | `luaext_corolib.c`'s create, resume, wrap and close, the last three `on` the coroutine whose stack they run on |
| `gc` | a `__gc` of the script's, run by an allocation |
| `callable`, `backend` | a registered callable, and the backend the file sweep calls |

An error in flight is of one of six kinds (`Errors`), told apart by what
`luaext_error.c` does with each: `soft`, `runtime`, `nomem`, `fatal`, `foreign`,
`exit`. `ThrownFor` is the exception the host gets for one, `RaisedFor` the
error a script gets for an exception. `pending` is `EG(exception)`; the
sentinel of `exit()` stays pending beneath its error.

A thread that some `closing` frame ends is refused by resume, by `close` and by the collector (`BeingClosed`):
to whoever asks, it runs. Each coroutine has a status, whether a to-be-closed variable is pending in it, the
error it keeps, and whether it is `late`: made by a nested call after its own call's sweep had passed.
`co` has `co_live`, `co_depth`, `co_sweeping` and the weak table; `Collect` empties the
table of what is dead, whenever the collector likes. The auxiliary `owed` of a `call`
frame is what the last uncatchable error raised beneath it must become.

### Lifecycle and Custody: who holds what, and who may let go

`Lifecycle` has all sandboxes of one request on one thread. Its stack is the C stack
across them: `lua` frames (the bracket), `php` frames (callables), `dtor` (a host
destructor), `close` (`luaext_sandbox_close`, in its stages `own`, `lua`, `abandon`, `drain`,
`finish`), `drain` (`luaext_defer_drain` with the part of the queue it detached)
and `sweep` (`PHP_RSHUTDOWN`). A reference count is not a number but the set of those who
hold one (`Referenced`), so a missing or doubled release cannot be
compensated. A sandbox nobody holds is `Dying`, and its destructor runs before
anything else does (`HostRuns` and every other guard wait for `Dying = {}`), as `zend_object_release` does.
`JumpOut` is `zend_bailout`: the C stack is gone, none of its counters goes back
down, and no destructor runs any more.

`Custody` is what that machinery promises, in four variables: an interpreter is
built, entered, left, and destroyed or abandoned; an object is with the
host, with Lua, given back or lost. It gives back only what an idle or abandoned
interpreter held, destroys only an idle one and abandons only a wrecked one. `Guardian`
instantiates it: an interpreter is `busy` while a `lua` frame of its own is on the
stack and `wrecked` once one was jumped over; an object in the queue or detached from it
is still Lua's; it is given back when its destructor begins. So pushing on the queue,
detaching, every stage of a close and every counter are stutters, and the
steps that matter are `CallIn`, `CallReturns`, `DrainOne`, `ReleaseAbandoned`,
`CloseDestroys`, `CloseAbandons` and `JumpOut`.

### Files: handles, quotas, backends

`nest` is the C stack as the filesystem sees it: calls into the interpreter, a script's finaliser,
the sweep, an `io.open` that allocates, and one frame for every kind of question asked of a backend (`exists`, `count`, `size`,
`load`, `flush`, `close`, `sweepclose`, `delete`, ...), with what its caller does with the answer. While a backend
runs it may answer, refuse (a `VfsError`: nil and a message), throw, `exit()`, or
call the sandbox again, whose script then uses any handle it likes. `account` is the `vfs_*` fields:
open handles, bytes buffered, operations, files, whether the count of files is
known, whether there is a table of open handles. A handle has the `len` and `charged` figures of its
buffer, `dirty`, and whether that table has it (`listed`); whether it still holds something unsent is auxiliary, as are
five histories (`ghosts`) that name the exceptions the properties admit.

`io.open` allocates twice after it has checked the cap: the userdata, before it counts the handle (frame
`make`), and the table of open handles if there is none, after (frame `table`). In both a finaliser may run (`GcRuns`), which opens, writes
and closes files of its own, and both may fail (`OpenStarves`), as may entering the handle in the table (`Registers`). So a handle may
be counted and in no table; a table that a finaliser made is replaced by the one being made (`OpenLists`), and what
it held is known to the script alone. `CollectHandle` is the `__gc` of such a handle: what it holds goes
unasked, and it takes one off the count, whoever's that is. The sweep walks the table and nothing else, gives up when
nothing is counted or when there is no table, and sets the count to zero at its end.

### Require: modules being loaded

`loads` is the C stack of calls, coroutines, finalisers and requires. A require goes through stages:

| stage | where in `luaext_require_call` | marked | in the depth |
|---|---|---|---|
| `mark` | the checks have passed, the key of the mark is pushed (748) | | |
| `push` | marked and counted, the arguments of the search are pushed (753-766) | yes | yes |
| `ask` | the protected search, host code that may call back | yes | yes |
| `found` | the argument of the loader is pushed (812) | yes | yes |
| `load` | the protected loader, a script like any other | yes | yes |
| `unmark` | out of the depth, the key is pushed (776-779, 815-819) | yes | |
| `leave` | unmarked; the error is raised, or the module's key is pushed (851) and the module stored and counted | | |

The five that push (`Windows`) have nothing protected around them: `lua_pushlstring` checks the collector, so a finaliser
may run there, and it may raise. A finaliser does what any script does, requiring a module included, but for running a second
finaliser; its error is dropped unless the sandbox was interrupted (`interrupted`, `GCTM` of the vendored Lua), and then it is thrown
through the require. `marked` is the table of modules in progress, `depth` and `count` are `require_depth` and
`modules_loaded`. `stranded` is history: the marks and the depth of requires whose frame went
without its clean-up, because an error came up in a window or a coroutine closed itself above it. A frame carries in `out` the
error it will raise when it has cleaned up.

### Proxies: classes, tokens, userdata

`Records` are *addresses*, so a record freed and another allocated at the same place is
a behaviour. A registration appends to `tokens`: the record it named, and its two
anchors, the alias's (`class`) and the metatable's (`dispatch`). A proxy is a shell until
its constructor binds it, then live, with the record it names and the
metatable it wears. The stack (`acts`) has the two registrations, which evaluate PHP
code in the middle, and a constructor, which runs PHP code between the shell and the binding.

### MCSandbox: three modules side by side

`Calls`, `Lifecycle` and `Proxies` share no variable, so `MCSandbox` lets each behaviour choose one `part` at
the start and move only that. The states are the sum of the parts' (207,824 of `Calls`, 50,904
of `Lifecycle`, 58,197 of `Proxies`), and one run answers for all three.

---

## 3. The runs

Distinct states are those of TLC with two workers.

| run | states | bounds |
|---|---|---|
| `watchdog_one` | 1.3 M | one owner, one slot, time to 3, 4 API calls, limits none/2/end of range |
| `watchdog_tenants` | 2.05 M | two owners (symmetric), one slot, time to 3, 3 calls each, two module lifetimes |
| `watchdog_live` | 555 K | one owner, time to 4, 4 calls, fair |
| `watchdog_capture` | counterexample | one owner whose clock may not be captured |
| `timers_frames` | 769 K | 5 frames, 6 entries/crossings/pauses/resumes, time to 3 |
| `timers_backend` | counterexample | as above, the backend pauses |
| `irq_races` | 2.0 M | 3 calls, 2 trips by each side, 1 abort |
| `irq_backedge` | counterexample | 2 calls, 1 trip by each side, back edges only |
| `memory_ledger` | 954 K | sizes to 9, one block, one file, 3 bytes printed, up to 8 frames |
| `memory_setlimits` | counterexample | as above, limits may be set from a report |
| `sandbox` | 317 K | see below, for each part |
| `require` | 1.9 M | two modules (symmetric), one module allowed, depth 2, five frames |
| `files` | 3.1 M | two handles (symmetric), one path, modes `r+`, `w` and `a`, every quota 1 but for two operations, two calls nested |
| `files_cap` | 1.6 M | four handles (symmetric), one path, mode `r`, every quota 1 but for three operations, two calls nested |
| `files_registration` | counterexample | as `files` |
| `files_collected` | counterexample | as `files` |
| `shutdown` | counterexample | two sandboxes, one object, one handle, 4 decisions, a fatal error may strike during a close |

### watchdog_one

*Is a single sandbox stopped in time, never too early, and never left
unmeasured?* `DeadlineCovered`: while the thread runs, every limited
call has a live entry, in the heap or in its owner's hand, that is not later than
its real deadline. This is the claim behind skipping a publication.
`NoEarlyTrip`: a flag for a budget means that budget is spent by the ledger (or the CPU
clock failed). `HonestReturn`: a call that reports success was within its budgets at
the boundary's sample. `MeasuredOrStopped`: it also had its CPU segment open and
readable. `DeadlinesAdvance`: a replaced entry lies at least the floor ahead, so
the thread does not spin. Two units of limit against three of time let a call
be under, at and over its budget; 8 is the end of the clock's range
(`U64Max`), where the sums saturate. `HeapMayFail` is off here, because with
it `DeadlineCovered` is false in the code (section 6).

### watchdog_tenants

*Does anything of one sandbox reach another through a slot they share one after the
other?* One slot and two owners force reuse; two lifetimes force a second startup; the
heap may fail to grow and the thread may be refused. `BilledExactly`: used time is
the ledger's, to the unit. `NoFlagBetweenCalls`, `NoLostWakeup`,
`LimitsHaveAnEnforcer` and `ThreadNeverOutlivesPool` are what their names say. The owners
are interchangeable in every one of these state predicates, so the symmetry is sound.
Two entries of different epochs and of different generations in one heap, the
cases the lazy reaping is for, need one slot and three calls per owner.

### watchdog_live

*Is a breach delivered, does a shutdown end?* Under the fairness of section 4, with a
second limit (9) so that a limit can be replaced in the middle. `BreachDelivered` is
asked of breaches at least one floor before the end of bounded time; no state
constraint or symmetry is used.

### timers_frames

*Is each frame billed as documented, however deep?* `BilledByTheFrames` compares the
slot with the ledger of the documents; `LuaTimeCounts` says both clocks measure
while Lua is on top; `PauseFollowsTheFrame` says
that a pause is the running host frame's own, and never exceeds what its callers
may except; `NoSuccessAfterBreach` says that the flag is sticky for the
outermost call. Five frames are Lua, host, Lua, host, Lua: a pause two levels down, and
its way back up. All four crossings occur; callbacks pause, and callbacks, the sink and the
resolver call back in. Backends that pause and host code that reads a
streaming sink from inside a paused callback are excluded, and so are backends that call back
into Lua, because there the code does not do what the documents say (section 6);
`timers_backend` shows the first.

### irq_races

*What do the bytes guarantee with all writers?* `BreachDiesWithItsCall`: once a call
is over, no store that the owner could still load raises the flag for a
*budget*. (An `interrupt()` may survive; that is its contract.) `NoSuccessPastATrip`: the
relaxed load at the boundary cannot miss a trip, because the mutex has carried it.
`FencedRaiseNamesItsReason`: after the fence the reason is there, so long as
`interrupt()`, which takes no lock, has not been called. Three calls let a store of
the first be loaded in the third.

### memory_ledger

*Does the ledger stay exact, and the ceiling in force, while everything that
spends may fail anywhere?* `LedgerBalances`: `usage` is the sum of the blocks and
`charged` the sum of the output capacity, the file buffers and the bills of the host
calls in progress. `CeilingIsEarned`: the limit is the host's plus one headroom per
report in progress. `GrowthFits`: no step makes the sandbox hold more than the
ceiling allowed. `CollectorCatchesUp`: any growth the collector can hear of leaves it at
the right tier. `StreamIsWhole`: every accepted byte leaves once, in order, under its
stream. `TruncationIsOwnedUp`: what was emitted and not accepted is reported.

Sizes go to 9 and limits are 4 and 8 with a headroom of 2, so that all four tiers
of the collector, a lifted ceiling and a ceiling that saturates are reached. The
state constraint `Focus` (`MCMemory`) splits the instance in two kinds of
sandbox: one that does not stream spends memory on everything under up to five frames; one
that streams spends it on output alone, and its callback comes back under up to
eight frames (script, write, flush, emit, and the same again). What is given up is a
streaming callback nested in a program that also holds blocks, files or bills: the
ledger's sums are added without looking at each other, and the
theorems of section 5 have no such constraint.

### sandbox

*Does everything end in the right order, once, whatever comes back in the middle?*

| part | properties | bounds | why they are enough |
|---|---|---|---|
| calls | `FatalArrives`, `SweepLeavesNothing`, `PopulationCapped`, `RunningIsInnermost` | three coroutines with a cap of one, depth 1, one PHP call deep, four frames, six decisions | a cap of one with three threads lets a finaliser slip one in and the next be refused; four frames hold a call, a protected call or coroutine, its handler and a callback |
| lifecycle | `KeepsCustody`, `HandlesNameTheirOwn`, `NothingOutlivesTheRequest` | two sandboxes, two objects, two handles, two passes, a stack of six, five decisions | a destructor of one sandbox's object that closes or frees the other while the first is being closed, and a slot released and given to another handle |
| proxies | `DispatchReadsALiveRecord` | a class and its subclass, one name, two records, two proxies, two registrations, a stack of three | a record freed and its address reused while a proxy, an alias and a constructor name it |

`TypesOK` is the type invariant of all three. The symmetry exchanges the two members of a set
in several parts at once, which is sound because only one part moves: its group has order
eight. Each part was also checked alone on larger instances, which pass: `Calls`
with six frames and seven decisions (4.3 M states), `Lifecycle` with six and, with one
handle, eight decisions, `Proxies` with two names (1.25 M).

`FatalArrives` is asked for errors that no handler of the script's replaced by its
own, and `SweepLeavesNothing` for coroutines that are not `late`; both exceptions are behaviours of
the code (section 6). `KeepsCustody` is the refinement of `Custody`.
`FatalInTeardown` is off, because with it `NothingOutlivesTheRequest` is false in the
code, which `shutdown` shows from its other side. `SettleCallsHost` is off, because a finaliser that
calls out while results are converted leads a nested call's sweep to a coroutine that is
running, and what Lua does then is not modelled (section 6).

### require

*Do the books of `require` survive finalisers, interrupts and failures between its stages?*
`RequireHoldsItsLimits` has three parts. `MarksFollowTheFrames`: a module is marked while a require of it is between mark and unmark,
no two requires hold one mark, the depth is the frames that deepened it, and what is stranded is all there is besides.
`OvershootIsBounded`: never more than `MaxModules + MaxRequireDepth` modules are counted. `BreachEndsTheCall`:
an uncatchable error raised under a call of the host's is still one when the call ends. With one module allowed, depth two and five frames, the run
reaches the bounds of both: three modules counted, and a depth of three. The first takes a call, a loader, a finaliser in the `leave` of
another require, and a require in it.

### files and files_cap

*Do the counters and the writes survive a backend that comes back, finalisers, and memory that runs out in the middle of an open?*
`FilesAddUp`: the bytes counted are those charged and within their quota; never more handles are counted open than are, and no fewer until a
sweep has left one behind (`stray`); no more than `MaxOpenHandles + MaxNesting`; and no handle of the table's survives its call, unless
the sweep was skipped. `WritesAreNotForgotten`: what a script wrote is offered to the backend before the handle goes, except
for the two losses that section 6 names. Two handles, two calls nested and a finaliser let one open run inside another and replace its table, one handle be
flushed while the backend closes the other, and each quota be at its limit and one past it. `files_cap` has the three handles it takes to
reach the bound on open handles, by an open in a finaliser in an open in a nested call in an open, and a fourth that would pass it. It reads only, since what is written does not
matter to the number of handles.

### The seven counterexamples

`watchdog_capture`, `timers_backend`, `irq_backedge`, `memory_setlimits`, `shutdown`, `files_registration` and `files_collected` each
check one property that a comment or a stub of the repository states, and TLC
refutes it by a behaviour of the code. Section 6 tells them.

### Deadlock

Every configuration switches the deadlock check off, because a behaviour may
really stop: bounded time and bounded calls run out, and a host need not call again.

---

## 4. Fairness

`watchdog_live` assumes `FairSpec`: weak fairness of `Tick`: time
passes. Of `Exit`, `Sleep`, `Service`: the thread, once runnable, is scheduled, and each of
these is enabled until it happens. Of `WakeDue`: a condition wait that was
signalled or timed out returns; the spurious wakeup is *not* fair, so nothing relies on it. Of
the owner's `Prime`/`WriteLimit`/`Republish`/`Publish`: a thread inside one of
these functions runs on to its end, for they wait for nothing but short critical
sections. Of `Join`/`Teardown`: a shutdown that began goes on. Nothing obliges a
host to make a call, a script to return, or an owner to poll its flag.

`shutdown` assumes `LifecycleFairSpec`: weak fairness of `LifecycleEngine`, the C code that
is on the stack, which runs on to its end: a close goes through its stages, a drain
releases what is left, a callable or a destructor returns, the sweep looks at the next head. What hosts and
scripts decide is bounded by `steps` and not fair. The counterexample is a lasso
through `SweepClosesHead` and `SweepReleases`: the loop runs, and gets nowhere.

---

## 5. What is proved, and how

All proofs hold for any sets of owners, slots, blocks and files, any limits, any sizes and any
depth of the stacks, and without state constraints. They rest on the `ASSUME`s about the constants,
which TLC evaluates in every run, and on the hypotheses a theorem names:
`~SetDuringReport` in `Memory`, `PausingIsForCallbacks` and `Plain` in `Timers`, `SettleCallsHost = FALSE` in `Calls`,
`HeapMayFail = FALSE` for one theorem of `Watchdog`, `~FatalInTeardown` for one of `Lifecycle`. Finiteness is asked of
the sets that are counted or summed over (`Blocks`, `Handles`, `FileSlots`, `Modules`, `Proxies`, `Threads`) and of
nothing else. The inductive invariants were checked by TLC on the constants of their runs before they were proved.

### WatchdogProofs (on WatchSlotProofs)

*Typed* is type correctness with *Tenancy*: an owner holds a slot exactly between
attach and detach; the slot's `irq` pointer names its holder and nobody after release; the
free list offers no held slot; no slot is held once shutdown began. Type correctness
alone is not inductive: `Service` writes through `r.irq`, and only
tenancy says that this is a present owner's flag.

Four more invariants stand on it, each inductive on top of those before:

* *Quiescence*: between calls, and from the disarm on, the slot is disarmed, so no evaluation, stale entry or
  setter finds a reason to raise the flag.
* *EnforcerInv*: a slot that has a limit, and a setter past `Prime` that is going to write one, come
  after the module's one attempt to start the thread, and have the thread or the hook. The property itself says
  nothing of the setter between `Prime` and `WriteLimit`, where the thread's failure must already be known.
* *BillInv*: the slot's books agree with what its owner really ran, clock by clock and segment by
  segment (`InHand`), and not only in total, which a pause in the middle would not preserve; a
  limit too fine for its CPU clock has its companion in wall time (`Companion`); and a call that runs has its slot
  armed. `WatchSlotProofs` has one lemma for each operator on slots that keeps the books (`Agrees`, `Sampling`).
* *WatchInv* is these three and *Typed*; each of the four action properties is judged from it:
  whoever raises a flag does so over a record of the slot whose books are in order (`TripIsAVerdict`, `TripIsEarned`);
  a boundary that passes has looked at such a record (`BoundaryCheck`, `PassIsHonest`); and an entry stamped
  from one lies ahead of the clock (`StampIsADeadline`, `DeadlineAhead`).
* *CoverInv*: the flag `queued`, on which a publication is saved, tells the truth: the ticket it stands for
  is in the heap or in the owner's hand, whether a limit presses or not; and whatever presses (`Pressing`) has such an
  entry no later than the instant it is due (`Timely`). `DeadlineCovered` alone is not inductive: an owner that
  resumes its timers stamps nothing if its slot is queued soon enough, and only `queued`
  being true makes that safe. The argument is about `Due`, the instant at which the tightest budget is used up, which is a
  number even while a clock cannot be read: time that passes never brings it nearer (`DueNoSooner`), a pause or a larger limit puts it
  off, and everything that brings it nearer publishes.

| theorem | what it says | hypothesis |
|---|---|---|
| `TypedInvariant`, `TypeCorrect` | *Typed*, hence `TypeOK`, in every reachable state | |
| `ThreadGoneBeforePool` | the thread is off when the pool is torn down | |
| `WakeupsKept` | `NoLostWakeup`: whatever adds an entry, or sets `stop`, signals in the same critical section in which the sleeper would have seen it | |
| `FlagStaysInItsCall` | `NoFlagBetweenCalls` | |
| `LimitsAreEnforced` | `LimitsHaveAnEnforcer` | |
| `WatchdogHolds` | `WatchInv` | |
| `BillingIsExact` | `BilledExactly`, on both clocks | |
| `SuccessIsHonest` | `HonestReturn`: no success past a budget | |
| `BudgetIsMeasured` | `MeasuredOrStopped`: no success unmeasured | |
| `NothingTripsEarly` | `NoEarlyTrip` | |
| `ThreadNeverSpins` | `DeadlinesAdvance` | |
| `DeadlinesAreCovered` | `DeadlineCovered`: the thread never sleeps past a breach | `HeapMayFail = FALSE` |

The hypothesis is the code's own exception: a publication for which the heap cannot grow is dropped, and
the slot waits for its owner's next one, or for its boundary. The run `watchdog_one`, which checks
`DeadlineCovered`, has the same constant; `watchdog_tenants` lets the heap fail.

### TimersProofs (on WatchSlotProofs)

`TimersInv` has five parts. `LuaInv` says what the slot and the frames are to each other: the open segments
are all but what is paused (`SlotFits`), Lua and host code alternate but for the sink, which may be called from
host code (`Stacked`), and whatever is paused while a host frame runs is reopened before Lua runs
again, all of it by a callable's return, or piece by piece by the frames that recorded what they would resume
(`Settles`). `FrameInv` says what the pause in force *is*: that of the running frame, which is at most what the frame
below the Lua that called it could lend, so that `allowPause` is a faithful bit (`FollowsTheFrames`). `BillInv` equates
what the slot measured with the ghost ledger; `FlagInv` keeps a raised flag up until the outermost call
is over; `Typed` is the rest.

| theorem | what it says | hypothesis |
|---|---|---|
| `BracketHolds`, `TimersTyped` | `TimersInv`, hence `TypeOK` | none |
| `BreachIsSticky` | `NoSuccessAfterBreach` | none |
| `LuaIsAlwaysBilled` | `LuaTimeCounts` | `PausingIsForCallbacks` |
| `PauseIsTheFramesOwn` | `PauseFollowsTheFrame` | `Plain` |
| `BillIsExact` | `BilledByTheFrames` | `Plain` |

`PausingIsForCallbacks` says that only registered callables pause the timers; `timers_backend` is the run in
which a backend does, and `LuaTimeCounts` is violated. `Plain` adds that backends do not call back into Lua
and that no host code flushes the output in mid-call: `allowPause` is one bit, and where a backend lends a part of the clocks,
or the sink resumes clocks it did not pause, the bill differs from the documented one (section 6). So
each hypothesis excludes a behaviour that the code has and the documents do not; `timers_frames` runs with exactly
these constants.

### SandboxProofs: the interrupt flag

A thread may load any store that is not older than what it has seen, so each property is a bound on where in
the two sequences of stores a value may still lie. A budget's raise lies no further than what the slot's lock
carries (`BudgetBehindLock`), hence behind the owner once it has disarmed under that lock
(`BudgetBehindOwner`), and the clearing store comes after; from a trip on, every store the boundary may load
has the flag up (`TripBehindLock`, `TripBehindBoundary`); and while nobody has called `interrupt()`, whatever view a
raised flag carries lies beyond the last clearing of the reason (`FlagNames`, `WriterNames`, `RaiseNames`).

| theorem | what it says |
|---|---|
| `StoresCoherent` | the invariant |
| `BreachDies` | `BreachDiesWithItsCall` |
| `NoSuccess` | `NoSuccessPastATrip` |
| `FencedRaise` | `FencedRaiseNamesItsReason` |

### LimitsProofs: memory and output (on SumTheorems)

`Memory` has three invariants, each inductive on top of the first.

The *ladder* (`IInv`). Read the stack from the bottom: each frame stands on one
that can have called it (a report only on a script, an emit only on its flush, a
completing flush only on its write), and each report saved exactly the
ceiling that the reports beneath it had earned. So whichever report ends next,
by returning or by an error inside it, puts back the right ceiling. It is
needed because `CeilingIsEarned` says nothing of the *saved* figures, and a step that
restores one could restore anything.

The *books* (`Books`): `usage` is the sum of the blocks, `buffered` the sum of the files' charges, and `charged`
the buffer's capacity, the files and the bills of the host calls on the stack together. `Pays` says for a change of the
stack by how much the bills change; every path out of a call, also the jump of an error over several frames, gives back what
that frame's bill was.

The *sink* (`Sink`): `Stream` says that what was heard and what is buffered are, in this order, the first
`accepted` bytes, those in the buffer of one stream; `Ready` says that a write which goes on after its flush finds nothing
of the other stream, for its flush has sent everything; `Seated` says why nobody else can have refilled the buffer: nothing but its own
flush ever stands on a write. `Owned` is that what was printed and not accepted set the
truncation flag.

| theorem | what it says | hypothesis |
|---|---|---|
| `LadderHolds` | the first invariant | none |
| `CeilingEarned` | `CeilingIsEarned` | `~SetDuringReport` |
| `LimitBackInForce` | `LimitInForce` | `~SetDuringReport` |
| `SpendingFits` | `GrowthFits`, as an action property | none |
| `CollectorFollows` | `CollectorCatchesUp`, as an action property | none |
| `BooksBalance` | `LedgerBalances` | none |
| `StreamStaysWhole` | `StreamIsWhole` | none |
| `DroppingIsOwnedUp` | `TruncationIsOwnedUp` | none |
| `MemoryTyped` | `TypeOK`, from the ladder, the books and that what is held stays within `SizeMax` | none |

`~SetDuringReport` excludes exactly the behaviour that `memory_setlimits` exhibits, so the
two together say: that is the only way the limit in force can differ from the limit
set. The lemmas on the ledger's operators give each one's range and its effect on
what is held, the limit and the tier.

`SumTheorems` is what a sum over a function needs: `SumFunction` of the community modules is a recursive function that takes the elements in
whatever order `CHOOSE` does, and the module shows that it exists (`IsSum`), that it is a natural number for natural
summands, and that any element's term may be taken out or exchanged. Its inductions are on the cardinality, through the least
counterexample (`WFMin`), as the library's own induction theorem cannot be instantiated here.

### LimitsProofs: require

`RequireHoldsItsLimits` is not inductive. `RequireInv` adds:

* the *shape* of the stack (`Shape`): a call of the host's stands at the bottom or where host code runs, on a require that is between two stages nothing
  but a finaliser stands, and there is one finaliser at most;
* where the error is that a call remembers (`Kept`): in flight, or carried by a frame that is cleaning up, with neither a
  call of the host's nor a finaliser between it and the call it must end, unless the flag is up;
* the *books* (`ModuleBooks`): the marks and the depth are the frames' and what is stranded; and what is counted and being
  required together never exceeds `MaxModules + MaxRequireDepth`.

The last is where finalisers matter. A require begins with `count < MaxModules`; those under way then are in the depth, which is less than
`MaxRequireDepth`, or are in a window outside it (`mark`, `unmark`, `leave`). Nothing but a finaliser can have begun a require
above such a window, and finalisers do not nest, so there is at most one; with it and the new one
the sum is at most `(MaxModules - 1) + (MaxRequireDepth - 1) + 1 + 1`. Without finalisers it would be one less. For the same reason the depth may
pass its limit by one: of two requires that have checked it, one in a finaliser on the other's `mark`, the upper may be left stranded and
the lower then add itself.

| theorem | what it says | assumption |
|---|---|---|
| `RequireInvariant` | shape, errors and books | `RequireAssumption` |
| `RequireTypeCorrect` | `RequireTypeOK` | the same |
| `RequireLimitsHold` | `RequireHoldsItsLimits` | the same |

`RequireAssumption` says that there are finitely many names and that both limits are
positive (zero, which turns a limit off, is left out). The depth of the stack is not bounded by it.

### SandboxProofs: files

`FIInv` is about the handles, the calls into backends and the opens that are under way. A frame that counts on its handle
finds it as it left it (`Holding`), since a frame that may release a handle is never above one that counts on it
(`Apart`); a backend that closes the very handle it is asked about, which the code does not refuse, is
what section 6 leaves out. What a script can use is in the table, or was in one that was replaced (`Known`). A handle with bytes
nobody was offered is dirty, or the write was made into its own flush; and what was dropped was such a
handle or one of a replaced table (`Remembered`). The bytes are the sum of what the open handles are charged, and the count is true until a sweep ends with a handle
open that it never knew (`Counted`).

The cap is the argument that takes most. An open passes the check with fewer than `MaxOpenHandles` counted, and every open under
way between its check and its count (`exists`, `count`, `make`) may still add one. Each of these was asked for by a
script of its own, the frame below it (`Above`), which is a call into the interpreter or the finaliser, and the script that
runs now stands on none of them. `OpensWithin` maps opens to the scripts below them, an injection that
misses the innermost one, so there are at most as many as calls that can nest (`Depth`), the finaliser making up for the
innermost script. Hence `HasRoom`: what is open and being opened is never more than `MaxOpenHandles + MaxNesting`.

| theorem | what it says | assumption |
|---|---|---|
| `HandlesAndCallsFit` | `FIInv` | `FilesAssumption` |
| `FilesAreTyped` | `FilesTypeOK` | the same |
| `FilesCountsAreTrue` | `FilesAddUp` | the same |
| `NoWriteIsForgotten` | `WritesAreNotForgotten` | the same |

`FilesAssumption` says that there are finitely many handles at a time, that the modes are the four the model knows, and that no
quota is zero, which turns it off and is left out.

### SandboxProofs: classes and proxies

`DispatchReadsALiveRecord` follows a pointer that nothing keeps alive but a count and two tokens, so what has to be
invariant is the count and the tokens. `PInv` says:

* `Anchors`: a record in use and the token of its generation name each other, and a token anchors a
  metatable only while its record is there: a record freed under a token would be read through it.
* `Bound`: the count of a record (`live`) is the number of proxies bound to it, and what a bound proxy wears
  is the token of the record it names, of the same generation.
* `Claimed`: a name claimed for a class is that of exactly one record not retired, and any other name of none, but for
  the names that a nested registration took over without a word (`doubled`, section 6).
* `Shells`: what a constructor on the stack still holds is the shell it was given, worn by nobody else, however
  many registrations, collections and further constructors ran between the shell and the binding.

A record goes when its name was retired *and* its count is down, in whichever order the two happen; `SettlesFits` and
its like say for each of these steps what becomes of the count, of the tokens and of everybody else's.

| theorem | what it says | assumption |
|---|---|---|
| `RegistryHolds` | `PInv` | `ProxiesAssumption` |
| `ProxiesAreTyped` | `ProxiesTypeOK` | the same |
| `DispatchIsSafe` | `DispatchReadsALiveRecord` | the same |

`ProxiesAssumption` says that there are finitely many proxies at a time and that each class has a line of ancestors.

### CallsProofs

`Calls` has forty-six actions, many of which move the stack alike, so the module first reduces every step to one of the
twenty-seven shapes of `StepKinds` (`StepIs`), each stated as what it does to the top of the stack, the threads
and the counters. The invariant is then proved shape by shape, in four layers; each was checked by TLC as an
invariant of the run's instance first.

1. *The stack* (`OnStack`). `Chained`: each frame that runs a state's code remembers the state it was entered
   from, which is the one the frames beneath it leave running. `Counted`: `in_lua`, `in_php` and `co_depth` are the numbers
   of frames of their kinds. `Built`: what each frame stands on and what can stand on it (`Seat`): an entry on a host's
   frame or at the bottom, nothing but a handler on a close, a sweep's close on the one entry that sweeps. And no error
   is in flight where host code runs (`Hushed`). `RunningIsInnermost` is `Chained`, read at the top.
2. *The bodies* (`Quiet`). `Bodies`: an active thread is resumed by exactly one frame; at most one frame closes
   a thread; a closing thread is not one that could be resumed; the handler on a close runs over that thread's
   error. `Clear`: a thread that can be resumed keeps no error.
3. *The sweep* (`Swept`). While the outermost entry walks, every thread that is not `late` and could be resumed or has a scope open
   is still in the detached table or under the close on top of the walk, and nothing is created;
   outside a walk `co_live` is at least the size of the table. Hence `SweepLeavesNothing`. `Capped` adds the counting argument of
   `PopulationCapped`: the living are at most the cap, but for one thread under a creation that a finaliser overtook.
4. *What is owed* (`IsDue`). `FatalArrives` says something about an entry when it is left; the error it speaks of was raised
   long before and may since have been kept by a close for a dying thread, been run over by handlers, handed from
   a thread to its resumer, and been raised again. So each position of the stack has a `Voice`: what a handler runs over, what
   a close keeps for its thread, what is in flight above the top, as far as no other entry and no finaliser stands
   between that position and the entry. What an entry is owed is the *last* uncatchable voice it can hear, apart from those that
   were asked for: a script that closes a failed thread hears its old error again, and that is the answer to a question, not something it
   missed (`Final`, `Asked`). Every step carries the last voice on, up, down or in place (`Carried`, and the
   lemmas `CarriedOver`, `CarriedUp`, `CarriedDown`).

| theorem | what it says |
|---|---|
| `CallsTyped` | `CallsTypeOK` |
| `RunningNamesTheInnermost` | `RunningIsInnermost` |
| `SweepLeavesNothingOpen` | `SweepLeavesNothing` |
| `PopulationIsCapped` | `PopulationCapped` |
| `UncatchableArrives` | `FatalArrives` |

All five rest on `CallsAssumption` (the threads are finitely many, `Main` is none of them, `None` is no error, the cap
is a number) and on the hypothesis `SettleCallsHost = FALSE`, that of the run: a finaliser that runs
while results are converted does not call out. It may in the code, and section 6 says what follows.

### LifecycleProofs

That `Lifecycle` implements `Custody` is proved as well as checked. Three of the abstract steps
have guards that the code does not test. `GiveBack` and `Destroy` ask that nothing
executes in the interpreter and `Abandon` that something was jumped over in it; the code looks at
`closed`, `in_lua` and `panicked`, which were set by frames that may lie far below. So the invariant
`Inv` has three parts:

* `Waits`: each frame of the C stack has what it relies on. A call's interpreter is up and not
  closed; what a close has closed stays closed and, from its stage `drain` on, has no interpreter;
  what a drain detached is still detached and its own, and no two drains share an object;
  a destructor's object never goes back to Lua; a drain at the end of a call has no call of
  the same sandbox beneath it. Two lemmas carry it: `DataCalm` (a change that keeps closed
  sandboxes closed and detached objects detached, `BoxesCalm` and `ItemsCalm`, disturbs no waiting
  frame) and `PushWaits`.
* `Counted`: until a jump, `in_lua` is the number of frames (so `in_lua = 0` means that nothing
  executes, which is what the code takes it to mean); after one, it counts what was jumped over, and
  `wreck` is exactly `panicked \/ in_lua > 0`, the condition on which `luaext_sandbox_close` abandons.
* `Born`: what was not constructed is not listed and has no interpreter.

`ExecNow` turns the abstract "executing" into a fact about the counters, and there is then one lemma for each
action: `...Keeps` for `Inv`, `...Seen` for the step of `Custody` that it takes, `...Unseen` for
none. That nothing leaks at a close without a fatal error is part of it: a pass leaves the
queue empty, as nobody can add to it once the interpreter is gone (`CloseFits`), so the bound on the
passes is never what ends them.

| theorem | what it says | assumption |
|---|---|---|
| `InvHolds` | `Inv` | `LifecycleAssumption` |
| `LifecycleKeepsCustody` | `KeepsCustody`, the refinement | the same |

`LifecycleAssumption` says that `Nothing` is no sandbox, no object and no handle, that there are
finitely many handles (so that the table has room for all of them, `Slots`), that the code makes at
least one pass, and that the bounds `MaxStack` and `MaxSteps` are numbers. Sandboxes, objects, handles, the depth of the stack and the number of decisions are
arbitrary.

### LifecycleProofs: handles

A handle on a Lua function is a number, and the number is recycled. `HandlesNameTheirOwn` says that it
still leads to the function the handle was made for; on its own it is not inductive, since a freelist
that offers a slot twice, or a slot in use, would break it two steps later. `RegistryInv` therefore
says that the registry and the handles are each other's inverse: a slot that was ever used (`Used`) is
either offered, once and empty (`FreeFits`), or holds the function of a handle that names it back
(`NamesFit`).

* `TakenFits` and `RecycledFits` say what the two operations on the freelist do; `MadeFits`,
  `RefusedFits` (the store that ran out of memory) and `DroppedFits` put them together with the handles.
* `RoomForOne` is the counting argument: a slot never used is taken only when none is offered, so every slot
  used has a handle of its own, and the new one is within `Slots`.
* `StepAges` covers every action of `Lifecycle`: none makes a sandbox unborn again or opens one that was closed, so that
  the registry may be forgotten with the interpreter, and a handle dropped after that touches nothing.

| theorem | what it says | assumption |
|---|---|---|
| `HandlesKeepTheirNames` | `HandlesNameTheirOwn` | `LifecycleAssumption` |

### LifecycleProofs: the end of the request

What `PHP_RSHUTDOWN` sees is the list of live sandboxes; what it has to reach is every interpreter, and
every object that one holds. `EndInv` follows custody from one to the other:

* `BoxEnds`, `Awaited`: a sandbox with an interpreter is listed, or nobody holds it and it is freed next. Once
  it is marked closed nothing closes it again, so the `luaext_sandbox_close` that marked it is still on the C stack,
  and short of the stage at which the interpreter goes (`ClosingAt`).
* `ItemEnds`: an object in Lua's custody has an interpreter, or the frame that will take it on:
  a close at its stage `abandon` or `drain`, or the drain that detached it (`InDrain`).
* `Once`, `SweptFits`, `Unheld`: the list names a sandbox once, what the sweep closes it also holds, and nobody
  holds a sandbox that was not constructed.

When the sweep finds the list empty its own frame is the whole stack, so no close and no drain is left, hence no
interpreter and nothing in custody (`NothingIsLeft`). A fatal error that jumps out of a close breaks every
clause: the sandbox stays marked and listed with nobody to finish it. That is what the run
`shutdown` shows, and why the theorem is stated under `~FatalInTeardown`, the constant of the run `sandbox`.

### LifecycleProofs: types

`LifecycleTypeOK` bounds the counters from both sides. `in_php` goes down whenever a callable returns, so it
has to be known that it counts the callables on the stack (`PhpCounted`, as `Counted` says of `in_lua`) until a jump, after which
neither moves; both go up only with room on the stack. A registry's size is bounded while its sandbox is open, by
`RegistryInv`, and keeps its value afterwards (`StepSizes`).

| theorem | what it says | assumption |
|---|---|---|
| `TheRequestEndsClean` | `NothingOutlivesTheRequest` | `LifecycleAssumption`, `~FatalInTeardown` |
| `LifecycleTyped` | `LifecycleTypeOK` | `LifecycleAssumption` |

---

## 6. Where the code and its own words disagree

Shown by a run:

1. **A CPU clock that could not be captured** (`watchdog_capture`,
   `luaext_watchdog.c:471`). The segment never opens and `cpu_open_failed`
   is never set, so an accepted CPU limit is never evaluated. The comment at 474-475
   says "unmeasurable must mean stopped".
2. **A backend that calls `pauseTimers()`** (`timers_backend`,
   `luaext_vfs.c:178`). Only the wall clock is resumed, and only if this frame paused it; Lua
   goes on with its CPU clock stopped. `luaext_timers.c:427-429`: "Lua time always counts".
3. **No fence on the VM's back edges** (`irq_backedge`, `lvm.c:1189` of the
   vendored Lua). A weakly ordered CPU may see the flag and no
   reason, and then reports an abort. `luaext_types.h:66-71` promises a fence before acting.
4. **`setLimits()` from an error value's `__tostring`** (`memory_setlimits`,
   `luaext_error.c:811`). The message handler writes the ceiling it had saved back over
   the new one. The stub says that `setLimits()` takes effect at once, also for a call in
   progress.

5. **A fatal error during a close** (`shutdown`, `luaext.c:410`). The comment there says that
   "luaext_sandbox_close() always unlinks, so the head advances and this terminates". A close
   sets `closed` first, runs host destructors, and unlinks last. A fatal error of PHP's in one of these
   (its memory or time limit) jumps past the unlinking. The next close of that sandbox returns at
   once (`luaext_sandbox.c:235`), so the end of the request looks at the same head for ever; and
   the interpreter of a sandbox cut off this way is never destroyed.
6. **A handle counted and not registered** (`files_registration`, `luaext_vfs.c:1130`). The comment at 1123-1127 has the handle counted
   and registered with nothing in between that can raise. Registering allocates the table of open handles if there is none (692), and a place in it
   (1133); memory may run out in both, and in the first a finaliser may run and be interrupted. The handle stays counted, no
   sweep closes it, and when the collector takes it, it takes one off the count; if a sweep has set that to
   zero in the meantime, the one it takes is another handle's. A sweep that finds nothing counted returns at once (1301), so a handle opened after
   that may stay open past its call.
7. **A written handle that is collected** (`files_collected`, `luaext_vfs.c:695`). While the table of open handles is being created a
   finaliser may open a file, which creates the table first; the one created here replaces it. What the finaliser
   opened is known to the script alone, and is collected, with the bytes written to it, when the script lets go of it. `luaext_iolib.c:870-873` says
   that the sweep has closed every handle before.

Read in the code while modelling, and not given a run. Of calls and errors:

* `src/docs/lua-api.md:120` says that no suspended coroutine survives a call. One that is made by a
  nested call, from a backend during the file sweep or from a finaliser during the
  conversion of results, survives until the next sweep (`late`). The sweep is skipped without a word when
  `lua_checkstack` fails.
* `src/docs/exceptions.md:15-17` calls fatal errors uncatchable. One that is in flight without the flag
  being up is replaced by the own error of a `<close>` handler it unwinds through.
* A finaliser that calls out while results are converted (`luaext_exec.c:422`) may enter the
  sandbox again, whose sweep reaches coroutines that are running (`luaext_corolib.c:666`).
* A coroutine that closes itself unwinds to its own base, over any call of the host's and
  over `require`'s protected call in between; the latter leaves the module marked and the
  depth counted (`stranded`). From a finaliser that runs while a require cleans up, it also drops the error which that
  require was about to raise, a limit's included.
* A host exception that is not fatal, provoked by a callable in a `<close>` handler that the sweep runs, is
  dropped; the comment at `luaext_corolib.c:676-682` says that it survives.
* A finaliser inside the creation of a coroutine may create one of its own after the check of the
  cap: the population may pass it by one.

Of the lifecycle:

* The deferred queue may be drained inside a collection: a finaliser that runs while results
  are converted or a chunk is compiled, with `in_lua` at zero, may call out, and what it calls may
  enter and leave the sandbox, whose outermost return drains, which `luaext_defer.h` rules out.
* For the same reason the destructor of a callback's result may call `close()` and
  destroy the state that is executing, against `luaext_sandbox.c:258`, "A STATE THAT IS STILL
  EXECUTING IS NOT CLOSED". `Lifecycle` leaves finalisers outside the bracket out.
* The bound on the passes of `luaext_defer_shutdown` is never reached: what a destructor can
  still push after `lua_close` is nothing.

Of files:

* A sweep clears whatever exception is pending when it is done, an `exit()` raised by the flush
  it just made included (`luaext_vfs.c:1374-1384`).
* A backend that comes back and writes to the handle it is being asked to flush loses that write
  (`overlapped`). One that closes it has its buffer read after its release
  (`luaext_vfs.c:1269`, `luaext_iolib.c:855`); `Files` leaves that out.
* `maxOpenHandles` is compared before the backend is asked (`luaext_vfs.c:1072`) and counted after, and the allocation of the handle (1110) lies between, so
  opens in a call back from that backend, or in a finaliser that runs in the allocation, may exceed it, by as many as calls into
  the interpreter can nest; `FilesAddUp` has that bound.
* A write to a handle whose table was replaced is lost with it, and one to a handle that was never registered cannot be made, since nobody got it.
* `maxFiles` counts too little: a nested walk overwrites the count, a file that is removed and written
  again through an old handle is not counted anew. A new file opened for writing and
  never written is counted.
* `io.lines` on a backend that throws raises a catchable "Cannot open" with the exception
  left pending, and `os.remove` and `os.rename` do the like (`luaext_oslib.c:638-641`, `686-689`),
  against the comment at `luaext_iolib.c:178-186`. The sweep that follows then gives up the writes it
  should have flushed.

Of modules and classes:

* A comment says that each module's `require` sees its own name; it is always `=main`.
* `maxModules` may be passed, by at most `maxRequireDepth` (proved): by nesting, since a module is counted when it has loaded, and by one
  more that a finaliser requires while another is out of the depth and not yet counted (`luaext_require.c:815-856`). Under
  limits of one and one, two modules can load.
* An error where `require` pushes a string unprotected (`luaext_require.c:764`, `778`, `812`, `819`), its own for want of memory or one thrown on from an interrupted finaliser, leaves the
  module marked, which "requires itself" from then on, and before the end of the loader also the depth counted.
* A require that fails raises the error again after its clean-up, in which a finaliser may run and close the coroutine it runs in: the error is dropped then.
* A registration nested in another's evaluation that takes the same name or class is overwritten without
  a word, since only the sandbox's usability is checked again (`luaext_proxy.c:1620-1624`: "no
  registration can ever silently overwrite another's global").
* `registerLibrary()` and `registerObject()` do not check usability again after the autoload that a
  callable's resolution may run (`luaext_phpcall.c:1196-1218`); `registerClass()` does.

Of time, errors and output:

* A deadline the heap has no memory for is dropped (`luaext_watchdog.c:320-323`) while the
  slot goes on to say that it is queued, so the wall limit of that call is left to the
  boundary's sample.
* A CPU clock that fails stops the script with the CPU reason (`luaext_watchdog.c:477`),
  which `src/stubs/luaext_exceptions.stub.php:267` defines as "exhausted its CPU budget".
* The sink resumes both clocks after its callback (`luaext_output.c:276-293`), also
  those that a host frame beneath it had paused (`src/docs/configuration.md:78-81`).
* Whether a nested frame may pause is one bit (`luaext_timers.c:437`): a backend that paused
  the wall clock alone and calls back into Lua lends a callback below it the right to
  pause the CPU clock too, where `src/stubs/luaext.stub.php:1014-1015` says that a nested
  callback "cannot un-charge time its caller is already being charged for".
* `interrupt()` on a sandbox in which nothing runs stops its *next* call.
* A change of stream whose flush throws is reported as accepted
  (`luaext_output.c:560-563`, "the caller reports it"), but no caller does. Later chunks
  are consumed while the exception is pending, reach nobody, and `outputTruncated`
  stays false. `StreamIsWhole` counts such bytes as having left, with `given` false.
* `vfs_sweep` gives up when `lua_checkstack` fails and leaves handles open.
* The comment at `luaext_exec.c:450-462` overlooks that `setGlobal()` and
  `compile()` allocate outside the bracket, so that a finaliser may run unbilled.
* `luaext_iolib.c:718` overwrites a position that a backend moved.

---

## 7. What is only model-checked, and what is not modelled

**Only model-checked.**

* Liveness: `BreachDelivered` and `ShutdownCompletes` of `Watchdog`. Both need fairness and `ENABLED`, which TLAPS
  cannot handle. What `BreachDelivered` rests on is proved: a live entry in time (`DeadlinesAreCovered`), a thread that
  does not sleep past it (`WakeupsKept`) and does not spin (`ThreadNeverSpins`).
* `TypesOK` of `MCSandbox` as one formula: it is the conjunction of three type invariants, and each is
  a theorem about its own module (`CallsTyped`, `LifecycleTyped`, `ProxiesAreTyped`). The three proofs are kept apart, as are the modules.

Every other property of a passing run is a theorem. The seven counterexamples are TLC's.

**Abstracted inside the models.** Wording, tracebacks and formatting; the peak and span counters
that only `stats()` reads; the array layout of the deadline heap; how each
operating system is asked for a clock or a thread; the ZendMM headroom check, which can only turn a
growth that fits into a refusal, and refusals are allowed anywhere. A quota or
limit of files and of modules is positive: zero, which turns it off, is left out. Finalisers that run while the results of a call are
converted, with no call under way, are left out of `Files` and `Lifecycle`, and `Calls` lets them make no call (`SettleCallsHost`). A
finaliser that closes the coroutine it runs in leaves Lua's collector stopped for good; `Files` and `Require` let it go on. Time is a
number of units and 1 is the floor. Memory is a number of bytes below ten.

**Not modelled.** The profiler, which only counts and samples; the bytecode seal, which is a
digest and a layout; parsing and validation of the configuration, a table of rules on immutable values;
what the conversion of a value, a read or a path *computes* (that it may fail, and what it charges and
refers to, is modelled); the members that only read (`status`, `running`, `limits`, `stats`);
the gate that a registered callable's arguments pass (`luaext_phpcall.c:656-697`), with a pause and a frame of its own: `Timers` begins at the dispatch;
`load`, `collectgarbage`, the chunk cache and globals by path, which go through the bracket that
`Calls` has and keep nothing else; yields across a protected call; the library assembly, which picks members
of tables at construction. The vendored interpreter is taken as given, but for the
patched check sites and the promises the extension relies on: how an error unwinds, in which order
`<close>` handlers and finalisers run, and that a finaliser's error is swallowed.

---

## 8. The plan

| # | module | composes | run | question |
|---|---|---|---|---|
| 1 | `WatchSlot`, `Watchdog` | | four | is a breach delivered, and only a breach? |
| 2 | `Timers` | `WatchSlot` | two | who is billed? |
| 3 | `IrqFlag` | | two | what do two bytes guarantee? |
| 4 | `Ledger`, `Memory` | `Ledger` | two | is the budget exact? |
| 5 | `Calls` | | `sandbox` | does everything end in the right order, as what it was? |
| 6 | `Lifecycle` | refines `Custody` | `sandbox`, `shutdown` | is everything given back once, and nothing under a running interpreter? |
| 7 | `Files` | | four | do quotas and writes survive a backend that comes back, and a finaliser? |
| 8 | `Require` | | `require` | cycles and limits |
| 9 | `Proxies` | | `sandbox` | is what a call dispatches on its own class's record? |

All of the plan is built. What would come next is outside the prover: an argument for `BreachDelivered` from
the safety theorems and the fairness of section 4, and, in the model, the members left out in section 7 that pass through the bracket of
`Calls` without keeping anything of their own (`load`, `collectgarbage`, the chunk cache).
