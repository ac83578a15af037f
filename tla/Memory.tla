------------------------------- MODULE Memory -------------------------------
(***************************************************************************)
(* Everything that spends a sandbox's memory budget, and the output sink   *)
(* that is the most entangled of the spenders: the allocator               *)
(* (luaext_alloc.c), the argument array of a host call (luaext_phpcall.c), *)
(* the buffer of an open file (luaext_vfs.c), the output buffer            *)
(* (luaext_output.c) and the message handler that lifts the ceiling while  *)
(* it describes an error (luaext_error.c).                                 *)
(*                                                                         *)
(* Host code runs in the middle of all of these and may come back: it may  *)
(* call into Lua, read the output, or replace the limits.  The C frames    *)
(* that wait for it are on `stack`, outermost first.  A byte of output is  *)
(* its number and the stream it was written to.                            *)
(***************************************************************************)
EXTENDS Ledger, Sequences, FiniteSets, Functions

CONSTANTS
  Blocks,         \* the live allocations of the interpreter
  Handles,        \* the buffered file handles
  MemoryLimits,   \* Limits::$memoryBytes
  OutputLimits,   \* Limits::$outputBytes
  Modes,          \* SandboxConfig::$outputMode
  Overflows,      \* Limits::$outputOverflow
  ChunkBytes,     \* SandboxConfig::$outputChunkBytes
  QuotaBytes,     \* VfsQuota::$maxTotalBytes
  SetDuringReport,\* whether a __tostring reaches host code that sets limits
  ArgsBytes,      \* bytes of the argument array of a host call that has one
  MaxBlock,       \* bound: bytes in one block, in one bill's content, one file
  MaxWrite,       \* bound: bytes in one write
  MaxBytes,       \* bound: bytes printed over the sandbox's life
  MaxFrames       \* bound: frames on the stack

AllModes == {"Buffer", "Callback", "Discard"}
AllOverflows == {"Truncate", "Fail"}
Purposes == {"channel", "tail", "get", "close"}

ASSUME MemoryAssumption ==
  /\ IsFiniteSet(Blocks) /\ IsFiniteSet(Handles)
  /\ MemoryLimits \subseteq Size /\ OutputLimits \subseteq Nat
  /\ Modes \subseteq AllModes /\ Overflows \subseteq AllOverflows
  /\ ChunkBytes \in Nat /\ QuotaBytes \in Nat
  /\ SetDuringReport \in BOOLEAN
  /\ ArgsBytes \in Nat /\ MaxBlock \in Nat /\ MaxWrite \in Nat /\ MaxBytes \in Nat /\ MaxFrames \in Nat

VARIABLES
  alloc,     \* sandbox->alloc
  blocks,    \* size of each live Lua block
  charges,   \* luaext_vfs_handle.buffer_charged of each handle
  buffered,  \* sandbox->vfs_buffered_bytes
  out,       \* sandbox->out
  policy,    \* sandbox->policy.limits: memory, overflow
  stack,     \* the frames in progress
  pending,   \* EG(exception) # NULL while the script has control
  closed,    \* sandbox->closed
  heard      \* auxiliary: the bytes that left the sink, as the host got them

vars == <<alloc, blocks, charges, buffered, out, policy, stack, pending,
          closed, heard>>

Byte == [id : Nat, err : BOOLEAN, nl : BOOLEAN]

Kinds == {"script", "finaliser", "report", "call", "write", "flush", "emit",
          "sweep"}

\* bill: [params, content] of a host call.  saved: the handler's saved_limit.
\* purpose: what a flush (and the callback above it) is for; "channel" and
\* "close" flush everything, as does "get".  n, err, nl: the write in hand;
\* over: it overflowed the output budget.
Frame ==
  [kind : Kinds, params : Nat, content : Nat, saved : Size,
   purpose : Purposes, n : Nat, err : BOOLEAN, nl : BOOLEAN, over : BOOLEAN]

Blank ==
  [kind |-> "script", params |-> 0, content |-> 0, saved |-> 0,
   purpose |-> "tail", n |-> 0, err |-> FALSE, nl |-> FALSE, over |-> FALSE]

OutputSink ==
  [mode : AllModes, buf : Seq(Byte), cap : Nat, isErr : BOOLEAN,
   limit : Nat, written : Nat, emitted : Nat, accepted : Nat,
   truncated : BOOLEAN]

TypeOK ==
  /\ alloc \in Account
  /\ blocks \in [Blocks -> Nat]
  /\ charges \in [Handles -> Nat]
  /\ buffered \in Nat
  /\ out \in OutputSink
  /\ policy \in [memory : Size, overflow : AllOverflows]
  /\ stack \in Seq(Frame)
  /\ pending \in BOOLEAN /\ closed \in BOOLEAN
  /\ heard \in Seq([id : Nat, err : BOOLEAN, label : BOOLEAN, given : BOOLEAN])

Init ==
  /\ \E m \in MemoryLimits, f \in Overflows :
       /\ policy = [memory |-> m, overflow |-> f]
       /\ alloc = Opened(m)
  /\ blocks = [b \in Blocks |-> 0]
  /\ charges = [h \in Handles |-> 0]
  /\ buffered = 0
  /\ \E mode \in Modes, o \in OutputLimits :
       out = [mode |-> mode, buf |-> <<>>, cap |-> 0, isErr |-> FALSE,
              limit |-> o, written |-> 0, emitted |-> 0, accepted |-> 0,
              truncated |-> FALSE]
  /\ stack = <<>>
  /\ pending = FALSE /\ closed = FALSE
  /\ heard = <<>>

----------------------------------------------------------------------------
(* The stack *)

Depth == Len(stack)
Top == stack[Depth]
TopIs(kinds) == Depth > 0 /\ Top.kind \in kinds
Popped(s) == SubSeq(s, 1, Len(s) - 1)
Push(f) == Append(stack, f)

\* The script is executing, or the host is.
InLua  == TopIs({"script", "finaliser", "report"})
InHost == Depth = 0 \/ TopIs({"call", "emit"})

Reporting == \E i \in 1 .. Depth : stack[i].kind = "report"

\* lua_gc() answers -1 from inside a finaliser, however deep.
Gc == IF \E i \in 1 .. Depth : stack[i].kind = "finaliser"
        THEN "stopped" ELSE "on"

\* The script on top of `stk` goes back to the host that entered it, and PHP
\* gets the exception nobody had reported.  The outermost return first closes
\* the files the script left open.
ToHost(stk, led) ==
  LET rest == Popped(stk)
      outermost == \A i \in 1 .. Len(rest) : rest[i].kind # "script"
  IN  /\ stack' = IF outermost THEN Append(rest, [Blank EXCEPT !.kind = "sweep"])
                               ELSE rest
      /\ alloc' = led
      /\ pending' = FALSE
      /\ UNCHANGED <<charges, buffered>>

\* A Lua error: `stk` has the Lua frame it is raised in on top, `led` is the
\* ledger and `pend` the pending exception the C function that raised it
\* leaves.  A pcall takes it unless it is fatal; GCTM swallows one raised by a
\* finaliser, the handler's own lua_pcall one raised while describing another;
\* all others reach the message handler on top of the frame that raised them,
\* and it lifts the ceiling.
Raise(stk, led, pend, fatal) ==
  LET n == Len(stk)
      kept == pending' = pend /\ UNCHANGED <<charges, buffered>>
  IN  \/ ~fatal /\ stack' = stk /\ alloc' = led /\ kept
      \/ /\ stk[n].kind = "finaliser"
         /\ stack' = Popped(stk) /\ alloc' = led /\ kept
      \/ /\ stk[n].kind = "report"
         /\ ToHost(Popped(stk), Restored(led, stk[n].saved))
      \/ /\ stk[n].kind = "script" /\ n < MaxFrames
         /\ stack' = Append(stk, [Blank EXCEPT !.kind = "report",
                                               !.saved = led.limit])
         /\ alloc' = Lifted(led) /\ kept

\* A refusal by lua_Alloc, because of the budget or of the system, is
\* LUA_ERRMEM: it runs no message handler unless some pcall turned it into the
\* fatal marker, and no pcall keeps it.
OutOfMemory(stk, led) ==
  \/ Raise(stk, led, pending, TRUE)
  \/ stk[Len(stk)].kind = "script" /\ ToHost(stk, led)

----------------------------------------------------------------------------
(* What the host does, between calls, in a callback and in the output sink *)

MayCall == ~closed /\ InHost

Enter ==
  /\ MayCall /\ Depth < MaxFrames
  /\ stack' = Push(Blank)
  /\ UNCHANGED <<alloc, blocks, charges, buffered, out, policy, pending,
                 closed, heard>>

SetLimits ==
  /\ MayCall /\ (SetDuringReport \/ ~Reporting)
  /\ \E m \in MemoryLimits, o \in OutputLimits, f \in Overflows :
       /\ policy' = [memory |-> m, overflow |-> f]
       /\ alloc' = Limited(alloc, m, Gc)
       /\ out' = [out EXCEPT !.limit = o]
  /\ UNCHANGED <<blocks, charges, buffered, stack, pending, closed, heard>>

\* `bytes` leave the sink.  The callback is told of one stream for them all,
\* and the engine calls nobody while an exception is pending.
Left(bytes) ==
  [i \in 1 .. Len(bytes) |->
     [id |-> bytes[i].id, err |-> bytes[i].err, given |-> ~pending,
      label |-> IF out.mode = "Buffer" THEN bytes[i].err ELSE out.isErr]]

\* takeOutput() on a buffering sink gives the bytes, their memory and their
\* budget back.
TakeOutput ==
  /\ MayCall /\ out.mode = "Buffer" /\ out.cap > 0
  /\ heard' = heard \o Left(out.buf)
  /\ out' = [out EXCEPT !.buf = <<>>, !.cap = 0, !.written = 0]
  /\ alloc' = Discharged(alloc, out.cap, Gc)
  /\ UNCHANGED <<blocks, charges, buffered, policy, stack, pending, closed>>

\* getOutput() on a streaming one sends what the callback is owed.
GetOutput ==
  /\ MayCall /\ out.mode = "Callback" /\ Depth < MaxFrames
  /\ stack' = Push([Blank EXCEPT !.kind = "flush", !.purpose = "get"])
  /\ UNCHANGED <<alloc, blocks, charges, buffered, out, policy, pending,
                 closed, heard>>

\* close() is refused while the sandbox has a call in progress anywhere.
Close ==
  /\ ~closed /\ stack = <<>>
  /\ closed' = TRUE
  /\ stack' = <<[Blank EXCEPT !.kind = "flush", !.purpose = "close"]>>
  /\ UNCHANGED <<alloc, blocks, charges, buffered, out, policy, pending, heard>>

\* What close() does once the sink is flushed.  lua_close() then frees every
\* block (Shrink).
TornDown ==
  /\ alloc' = Discharged(alloc, out.cap, Gc)
  /\ out' = [out EXCEPT !.buf = <<>>, !.cap = 0]
  /\ stack' = <<>>
  /\ UNCHANGED <<blocks, charges, buffered, policy, pending, closed, heard>>

----------------------------------------------------------------------------
(* A host call *)

Settled(led, call) ==
  Discharged(IF call.content > 0 THEN Discharged(led, call.content, Gc) ELSE led,
             call.params, Gc)

\* The arguments are billed, the array first and then their content piece by
\* piece.  When a piece is refused or cannot be converted, or the callable does
\* not take what it was given, `content` is what had been billed by then and
\* all of it goes back.
Cross ==
  /\ InLua
  /\ \E params \in {0, ArgsBytes}, content \in 0 .. MaxBlock :
       LET billed == Charged(alloc, params, Gc)
           call == [Blank EXCEPT !.kind = "call", !.params = params,
                                 !.content = content]
       IN  \/ /\ pending
              /\ \E fatal \in BOOLEAN : Raise(stack, alloc, FALSE, fatal)
           \/ /\ ~pending /\ params > 0 /\ ~Fits(alloc, params)
              /\ Raise(stack, alloc, FALSE, TRUE)
           \/ /\ ~pending /\ (params > 0 => Fits(alloc, params))
              /\ (content > 0 => Fits(billed, content))
              /\ \E fatal \in BOOLEAN :
                   Raise(stack, Settled(Charged(billed, content, Gc), call),
                         FALSE, fatal)
           \/ /\ ~pending /\ (params > 0 => Fits(alloc, params))
              /\ (content > 0 => Fits(billed, content))
              /\ Depth < MaxFrames
              /\ stack' = Push(call)
              /\ alloc' = Charged(billed, content, Gc)
              /\ UNCHANGED <<charges, buffered, pending>>
  /\ UNCHANGED <<blocks, out, policy, closed, heard>>

\* The result is converted into block `b` before the arguments are let go.
CallReturn ==
  /\ TopIs({"call"})
  /\ \E b \in Blocks, bytes \in 0 .. MaxBlock :
       /\ blocks[b] + bytes <= MaxBlock
       /\ \/ /\ bytes > 0 => Fits(alloc, bytes)
             /\ blocks' = [blocks EXCEPT ![b] = @ + bytes]
             /\ alloc' = Settled(IF bytes = 0 THEN alloc
                                              ELSE Grown(alloc, bytes, Gc), Top)
             /\ stack' = Popped(stack)
             /\ UNCHANGED <<charges, buffered, pending>>
          \/ /\ bytes > 0 /\ ~Fits(alloc, bytes)
             /\ OutOfMemory(Popped(stack), Settled(alloc, Top))
             /\ UNCHANGED blocks
  /\ UNCHANGED <<out, policy, closed, heard>>

\* It threw, or a limit fired at the boundary.
CallThrow ==
  /\ TopIs({"call"})
  /\ \E fatal \in BOOLEAN : Raise(Popped(stack), Settled(alloc, Top), pending, fatal)
  /\ UNCHANGED <<blocks, out, policy, closed, heard>>

----------------------------------------------------------------------------
(* What the script does *)

\* lua_Alloc growing a block.
Grow ==
  /\ InLua
  /\ \E b \in Blocks, bytes \in 1 .. MaxBlock :
       /\ blocks[b] + bytes <= MaxBlock
       /\ \/ /\ Fits(alloc, bytes)
             /\ blocks' = [blocks EXCEPT ![b] = @ + bytes]
             /\ alloc' = Grown(alloc, bytes, Gc)
             /\ UNCHANGED <<charges, buffered, stack, pending>>
          \/ OutOfMemory(stack, alloc) /\ UNCHANGED blocks
  /\ UNCHANGED <<out, policy, closed, heard>>

\* A block that shrinks, to nothing when the collector or lua_close() frees it.
Shrink ==
  /\ InLua \/ (closed /\ stack = <<>>)
  /\ \E b \in Blocks : \E left \in 0 .. blocks[b] - 1 :
       /\ blocks' = [blocks EXCEPT ![b] = left]
       /\ alloc' = Shrunk(alloc, blocks[b] - left)
  /\ UNCHANGED <<charges, buffered, out, policy, stack, pending, closed, heard>>

Finalise ==
  /\ InLua /\ Gc = "on" /\ Depth < MaxFrames
  /\ stack' = Push([Blank EXCEPT !.kind = "finaliser"])
  /\ UNCHANGED <<alloc, blocks, charges, buffered, out, policy, pending,
                 closed, heard>>

FinaliserReturn ==
  /\ TopIs({"finaliser"})
  /\ stack' = Popped(stack)
  /\ UNCHANGED <<alloc, blocks, charges, buffered, out, policy, pending,
                 closed, heard>>

\* A write to an open file buffers `bytes` more.
BufferFile ==
  /\ InLua
  /\ \E h \in Handles, bytes \in 1 .. MaxBlock :
       IF (QuotaBytes # 0 /\ bytes > QuotaBytes - buffered) \/ ~Fits(alloc, bytes)
         THEN Raise(stack, alloc, pending, TRUE)
         ELSE /\ charges[h] + bytes <= MaxBlock
              /\ alloc' = Charged(alloc, bytes, Gc)
              /\ charges' = [charges EXCEPT ![h] = @ + bytes]
              /\ buffered' = buffered + bytes
              /\ UNCHANGED <<stack, pending>>
  /\ UNCHANGED <<blocks, out, policy, closed, heard>>

HoldsFiles == InLua \/ TopIs({"sweep"})

\* Mutant: the handle still says what it was charged.
CloseFileForgetful ==
  /\ HoldsFiles
  /\ \E h \in Handles :
       LET held == IF charges[h] > buffered THEN buffered ELSE charges[h] IN
       /\ charges[h] # 0
       /\ buffered' = buffered - held
       /\ alloc' = Discharged(alloc, held, Gc)
  /\ UNCHANGED <<blocks, charges, out, policy, stack, pending, closed, heard>>

\* A handle is closed, collected or swept.
CloseFile ==
  /\ HoldsFiles
  /\ \E h \in Handles :
       LET held == IF charges[h] > buffered THEN buffered ELSE charges[h] IN
       /\ charges[h] # 0
       /\ buffered' = buffered - held
       /\ alloc' = Discharged(alloc, held, Gc)
       /\ charges' = [charges EXCEPT ![h] = 0]
  /\ UNCHANGED <<blocks, out, policy, stack, pending, closed, heard>>

SweepDone ==
  /\ TopIs({"sweep"}) /\ \A h \in Handles : charges[h] = 0
  /\ stack' = Popped(stack)
  /\ UNCHANGED <<alloc, blocks, charges, buffered, out, policy, pending,
                 closed, heard>>

Fail ==
  /\ InLua
  /\ Raise(stack, alloc, pending, FALSE)
  /\ UNCHANGED <<blocks, out, policy, closed, heard>>

Return ==
  /\ TopIs({"script"})
  /\ ToHost(stack, alloc)
  /\ UNCHANGED <<blocks, out, policy, closed, heard>>

\* The handler puts the ceiling it found back, and the call it was describing
\* ends.
ReportReturn ==
  /\ TopIs({"report"})
  /\ ToHost(Popped(stack), Restored(alloc, Top.saved))
  /\ UNCHANGED <<blocks, out, policy, closed, heard>>

----------------------------------------------------------------------------
(* The output sink *)

FlushFor(purpose) == [Blank EXCEPT !.kind = "flush", !.purpose = purpose]

\* A write of `n` bytes, the last of them a newline or not, which only a
\* streaming sink looks at.  Bytes buffered for the other stream leave before
\* these join them.
Write ==
  /\ InLua /\ Depth + 2 < MaxFrames
  /\ \E n \in 1 .. MaxWrite, err, nl \in BOOLEAN :
       LET write == [Blank EXCEPT !.kind = "write", !.purpose = "channel",
                                  !.n = n, !.err = err, !.nl = nl]
       IN  /\ out.emitted + n <= MaxBytes
           /\ nl => out.mode = "Callback"
           /\ stack' = IF err # out.isErr /\ out.buf # <<>>
                         THEN Append(Push(write), FlushFor("channel"))
                         ELSE Push(write)
  /\ UNCHANGED <<alloc, blocks, charges, buffered, out, policy, pending,
                 closed, heard>>

\* Mutant: what was dropped is owned up to only when the write also fails.
CountedIfFailing(w, over) ==
  [out EXCEPT !.isErr = w.err, !.written = @ + w.n, !.emitted = @ + w.n,
              !.truncated = @ \/ (over /\ policy.overflow = "Fail")]

\* The counters record what the script emitted, not what survived.
Counted(w, over) ==
  [out EXCEPT !.isErr = w.err, !.written = @ + w.n, !.emitted = @ + w.n,
              !.truncated = @ \/ over]

\* The capacity the buffer has once there is room for `take` more bytes.
Reserved(take) ==
  IF out.cap - Len(out.buf) >= take THEN {out.cap}
                                    ELSE Capacities(out.cap, Len(out.buf) + take)

\* The rest of the write: what fits the output budget, then the memory for
\* it, then the flush of completed lines.
Accept ==
  /\ TopIs({"write"}) /\ Top.purpose = "channel"
  /\ LET w     == Top
         room  == IF out.written < out.limit THEN out.limit - out.written ELSE 0
         over  == out.limit # 0 /\ w.n > room
         take  == IF over THEN room ELSE w.n
         keeps == take > 0 /\ out.mode # "Discard"
         bytes == [i \in 1 .. take |->
                     [id |-> out.accepted + i, err |-> w.err,
                      nl |-> w.nl /\ i = w.n]]
         flushing == Append(Append(Popped(stack),
                                   [w EXCEPT !.purpose = "tail", !.over = over]),
                            FlushFor("tail"))
     IN  \/ /\ ~keeps
            /\ out' = Counted(w, over)
            /\ stack' = flushing
            /\ UNCHANGED <<alloc, charges, buffered, pending>>
         \/ /\ keeps
            /\ \E cap \in Reserved(take) :
                 LET grow == cap - out.cap IN
                 IF grow > 0 /\ ~Fits(alloc, grow)
                   THEN /\ out' = Counted(w, TRUE)
                        /\ Raise(Popped(stack), alloc, pending, TRUE)
                   ELSE /\ out' = [Counted(w, over) EXCEPT
                                     !.buf = @ \o bytes, !.cap = cap,
                                     !.accepted = @ + take]
                        /\ alloc' = Charged(alloc, grow, Gc)
                        /\ stack' = flushing
                        /\ UNCHANGED <<charges, buffered, pending>>
  /\ UNCHANGED <<blocks, policy, closed, heard>>

Written ==
  /\ TopIs({"write"}) /\ Top.purpose = "tail"
  /\ IF Top.over /\ policy.overflow = "Fail"
       THEN Raise(Popped(stack), alloc, pending, TRUE)
       ELSE /\ stack' = Popped(stack)
            /\ UNCHANGED <<alloc, charges, buffered, pending>>
  /\ UNCHANGED <<blocks, out, policy, closed, heard>>

\* How many bytes the flush on top sends next: one figure, or none at all.
Due ==
  LET have == Len(out.buf) IN
  {take \in 1 .. have :
     /\ out.mode = "Callback"
     /\ IF Top.purpose # "tail" \/ ChunkBytes = 0 THEN take = have
        ELSE IF have >= ChunkBytes                THEN take = ChunkBytes
        ELSE out.buf[take].nl /\ \A i \in take + 1 .. have : ~out.buf[i].nl}

\* Consumed before the callback is called: it may print.
FlushEmit ==
  /\ TopIs({"flush"}) /\ ~pending /\ Depth < MaxFrames
  /\ \E take \in Due :
       /\ heard' = heard \o Left(SubSeq(out.buf, 1, take))
       /\ out' = [out EXCEPT !.buf = SubSeq(@, take + 1, Len(@))]
  /\ stack' = Push([Blank EXCEPT !.kind = "emit", !.purpose = Top.purpose])
  /\ UNCHANGED <<alloc, blocks, charges, buffered, policy, pending, closed>>

\* Mutant: every flush gives the buffer back, what it did not send included.
FlushDoneReleasing ==
  /\ TopIs({"flush"}) /\ Due = {}
  /\ IF Top.purpose = "close" THEN TornDown
     ELSE /\ stack' = Popped(stack)
          /\ IF out.mode # "Callback"
               THEN UNCHANGED <<alloc, out>>
               ELSE /\ alloc' = Discharged(alloc, out.cap, Gc)
                    /\ out' = [out EXCEPT !.buf = <<>>, !.cap = 0]
          /\ UNCHANGED <<blocks, charges, buffered, policy, pending, closed, heard>>

FlushDone ==
  /\ TopIs({"flush"}) /\ Due = {}
  /\ IF Top.purpose = "close" THEN TornDown
     ELSE /\ stack' = Popped(stack)
          /\ IF Top.purpose = "tail" \/ out.mode # "Callback"
               THEN UNCHANGED <<alloc, out>>
               ELSE /\ alloc' = Discharged(alloc, out.cap, Gc)
                    /\ out' = [out EXCEPT !.buf = <<>>, !.cap = 0]
          /\ UNCHANGED <<blocks, charges, buffered, policy, pending, closed, heard>>

EmitReturn ==
  /\ TopIs({"emit"})
  /\ stack' = Popped(stack)
  /\ UNCHANGED <<alloc, blocks, charges, buffered, out, policy, pending,
                 closed, heard>>

\* A flush that failed with `below` what is under it.  Only the flush of
\* completed lines raises; a change of stream gives the write up, tells its
\* caller that all went well and leaves the exception pending.
FlushFailed(purpose, below) ==
  CASE purpose = "tail" ->
         /\ \E fatal \in BOOLEAN :
              Raise(Popped(below), alloc, FALSE, fatal)
         /\ UNCHANGED <<blocks, policy, closed>>
    [] purpose = "channel" ->
         /\ stack' = Popped(below)
         /\ pending' = TRUE
         /\ UNCHANGED <<alloc, blocks, charges, buffered, policy, closed>>
    [] purpose = "get" ->
         /\ stack' = below
         /\ UNCHANGED <<alloc, blocks, charges, buffered, policy, pending, closed>>

EmitThrow ==
  /\ TopIs({"emit"})
  /\ IF Top.purpose = "close"
       THEN TornDown
       ELSE FlushFailed(Top.purpose, Popped(Popped(stack))) /\ UNCHANGED <<out, heard>>

\* With an exception pending the bytes are consumed and reach nobody.
FlushRefused ==
  /\ TopIs({"flush"}) /\ pending /\ Top.purpose # "close"
  /\ \E take \in Due :
       /\ heard' = heard \o Left(SubSeq(out.buf, 1, take))
       /\ out' = [out EXCEPT !.buf = SubSeq(@, take + 1, Len(@))]
  /\ FlushFailed(Top.purpose, Popped(stack))

----------------------------------------------------------------------------
Next ==
  \/ Enter \/ SetLimits \/ TakeOutput \/ GetOutput \/ Close
  \/ Cross \/ CallReturn \/ CallThrow
  \/ Grow \/ Shrink \/ Finalise \/ FinaliserReturn
  \/ BufferFile \/ CloseFile \/ SweepDone \/ Fail \/ Return \/ ReportReturn
  \/ Write \/ Accept \/ Written
  \/ FlushEmit \/ FlushDone \/ FlushRefused \/ EmitReturn \/ EmitThrow

Spec == Init /\ [][Next]_vars

----------------------------------------------------------------------------
(* Properties *)

Bill(f) == IF f.kind = "call" THEN f.params + f.content ELSE 0

\* The ledger is the sum of what is really held: the interpreter's blocks on
\* one side; the output buffer's capacity, the files' buffers and the bills of
\* every host call in progress on the other.  A refund of the wrong amount, or
\* one an unwinding skips, moves the budget for good.
LedgerBalances ==
  /\ alloc.usage = SumFunction(blocks)
  /\ buffered = SumFunction(charges)
  /\ alloc.charged = out.cap + buffered
       + SumFunction([i \in 1 .. Depth |-> Bill(stack[i])])

\* However deep the reports nest, the ceiling in force is the host's plus one
\* headroom for each report in progress, and the host's alone once they end.
CeilingIsEarned ==
  LET reports == Cardinality({i \in 1 .. Depth : stack[i].kind = "report"})
      earned  == policy.memory + reports * Headroom
  IN  alloc.limit = IF policy.memory = 0 THEN 0
                    ELSE IF earned > SizeMax THEN SizeMax ELSE earned

\* No step makes the sandbox hold more than the ceiling in force, whatever is
\* spent, refused and refunded within the step.
Grows == Live(alloc') > Live(alloc)

GrowthFits ==
  [][Grows => Live(alloc') <= IF alloc.limit = 0 THEN SizeMax ELSE alloc.limit]_vars

\* Growth the collector may hear of leaves it working at the tier the growth
\* reached, also when an earlier growth could not tell it.
CollectorCatchesUp ==
  [][Grows /\ Gc = "on" =>
       alloc'.tuning = Tier(Live(alloc'), alloc'.limit)]_vars

\* Every byte the sink accepted leaves it once, in the order it was written,
\* under the stream it was written to; the rest is in the buffer, the next to
\* go.
StreamIsWhole ==
  ~closed =>
    /\ \A i \in 1 .. Len(heard) :
         heard[i].id = i /\ heard[i].label = heard[i].err
    /\ \A i \in 1 .. Len(out.buf) : out.buf[i].id = Len(heard) + i
    /\ Len(heard) + Len(out.buf) = out.accepted

\* Output that was emitted and not accepted is owned up to.
TruncationIsOwnedUp ==
  out.mode # "Discard" /\ out.emitted > out.accepted => out.truncated

\* Outside the description of an error, the ceiling is the one the host set.
LimitInForce == ~Reporting => alloc.limit = policy.memory
=============================================================================
