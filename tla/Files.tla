---- MODULE Files ----
(* The virtual filesystem behind io and os: open handles, their buffers, the    *)
(* quotas they answer to, and the sweep that closes what a call left open       *)
(* (luaext_vfs.c, luaext_iolib.c, luaext_oslib.c's remove and rename).          *)
(*                                                                              *)
(* `nest` is the C stack: "lua" is a call into the interpreter, "gc" a finaliser *)
(* of a script's that the collector runs (GCTM), "sweep" is luaext_vfs_sweep,   *)
(* "make" and "table" are io.open while it allocates: the handle, not yet       *)
(* counted, and the table of open handles, the handle counted and not in it.    *)
(* Every other frame is one call into the host's FileSystem, named for what it  *)
(* is for.  While such a frame is innermost the backend runs: it answers,       *)
(* refuses (VfsError), throws, calls exit(), or calls back into the sandbox,    *)
(* whose script may then use any file of its own.                               *)
(*                                                                              *)
(* Left out: a file that a nested call closes while its own contents are being  *)
(* handed to the backend (README, section 6); finalisers while the results of a *)
(* call are converted, when no call is open; the bytes themselves.  A handle's  *)
(* offset is wherever the last seek put it, so a write may end anywhere.        *)
EXTENDS Naturals, FiniteSets, SequencesExt

CONSTANTS
    FileSlots,       \* handles a script can have at once, at most
    Paths,           \* names in the FileSystem
    NoFile,          \* no handle, no path
    OpenModes,       \* the modes a script opens files in
    MaxOpenHandles,  \* VfsQuota::$maxOpenHandles (of each quota 0, no limit,
                     \* is left out)
    MaxOperations,   \* VfsQuota::$maxOperations
    MaxFiles,        \* VfsQuota::$maxFiles
    MaxTotalBytes,   \* VfsQuota::$maxTotalBytes
    MaxFileBytes,    \* VfsQuota::$maxFileBytes
    MaxNesting       \* bound on calls into the interpreter on the stack

ASSUME FilesAssumption ==
    /\ IsFiniteSet(FileSlots)
    /\ OpenModes \subseteq {"r", "r+", "w", "a"}
    /\ {MaxOpenHandles, MaxOperations, MaxFiles, MaxTotalBytes, MaxFileBytes, MaxNesting}
         \subseteq Nat \ {0}

VARIABLES
    files,    \* struct luaext_vfs_handle
    nest,     \* the C stack, innermost last
    account,  \* the vfs_* fields of struct luaext_sandbox
    disk,     \* the files the backend holds
    trouble,  \* an error unwinding Lua, and EG(exception)
    ghosts    \* history: handles written during their own flush, handles whose
              \* bytes were dropped unasked, handles whose table was replaced,
              \* whether a sweep gave up, and whether one left handles uncounted

filesVars == <<files, nest, account, disk, trouble, ghosts>>

Modes == {"r", "r+", "w", "a"}
Writable(m) == m # "r"

Blank == [st |-> "closed", path |-> NoFile, mode |-> "r", len |-> 0, charged |-> 0,
          dirty |-> FALSE, unsent |-> FALSE, listed |-> FALSE]
NoGhosts == [overlapped |-> {}, dropped |-> {}, ousted |-> {}, skipped |-> FALSE, stray |-> FALSE]

FilesInit ==
    /\ files = [f \in FileSlots |-> Blank]
    /\ nest = <<>>
    /\ \E ranged \in BOOLEAN :
        account = [open |-> 0, buffered |-> 0, ops |-> 0, count |-> 0, known |-> FALSE,
                   sweeping |-> FALSE, table |-> FALSE, ranged |-> ranged]
    /\ disk \in SUBSET Paths
    /\ trouble = [flying |-> FALSE, exception |-> "none"]
    /\ ghosts = NoGhosts

Inner      == Last(nest)
Outer      == Front(nest)
InnerIs(ks) == nest # <<>> /\ Inner.k \in ks
Making     == {"make", "table"}
InLua      == InnerIs({"lua", "gc"})
Script     == InLua /\ ~trouble.flying
Unwinding  == InLua /\ trouble.flying
Backend    == nest # <<>> /\ Inner.k \notin {"lua", "gc", "sweep"} \cup Making
Nested     == {n \in DOMAIN nest : nest[n].k = "lua"}
OpenFiles  == {f \in FileSlots : files[f].st # "closed"}
Listed     == {f \in OpenFiles : files[f].listed}
Crossing(f, ks) == \E n \in DOMAIN nest : nest[n].f = f /\ nest[n].k \in ks
Flushing(f) == Crossing(f, {"flush", "close", "sweepclose"})

(* One call into the backend.  `fly` is the error the script was already        *)
(* unwinding with, `ran` whether the engine let the backend's method run at     *)
(* all: it does not while an exception is pending.                              *)
Request(k, f, p, m) == [k |-> k, f |-> f, p |-> p, m |-> m, fly |-> trouble.flying,
                        ran |-> trouble.exception = "none", found |-> FALSE]
Bare(k) == [k |-> k, f |-> NoFile, p |-> NoFile, m |-> "r", fly |-> FALSE, ran |-> TRUE,
            found |-> FALSE]

Raised == trouble' = [trouble EXCEPT !.flying = TRUE]
Calm   == trouble' = [trouble EXCEPT !.flying = FALSE]

(* luaext_vfs_charge_operation, then the call: the attempt that passes the      *)
(* quota is refused with a fatal error, raised in the frame below.              *)
Charge(a, below, frame) ==
    /\ account' = [a EXCEPT !.ops = IF @ > MaxOperations THEN @ ELSE @ + 1]
    /\ IF account'.ops > MaxOperations
       THEN nest' = below /\ Raised
       ELSE nest' = Append(below, frame) /\ Calm

--------------------------------------------------------------------------------
(* Nested into the interpreter.                                                  *)

(* luaext_exec_pcall's entry: the operations are counted per outermost call.    *)
BeginCall ==
    /\ nest = <<>>
    /\ nest' = <<Bare("lua")>>
    /\ account' = [account EXCEPT !.ops = 0]
    /\ ghosts' = [overlapped |-> ghosts.overlapped \cap OpenFiles, dropped |-> {},
                  ousted |-> ghosts.ousted \cap OpenFiles,
                  skipped |-> FALSE, stray |-> ghosts.stray /\ OpenFiles # {}]
    /\ UNCHANGED <<files, disk, trouble>>

Reenter ==
    /\ Backend /\ Inner.ran /\ trouble.exception = "none"
    /\ Cardinality(Nested) < MaxNesting
    /\ nest' = Append(nest, Bare("lua"))
    /\ UNCHANGED <<files, account, disk, trouble, ghosts>>

(* A nested call returns or throws to the backend; an exception Lua was         *)
(* carrying is the backend's to catch, an exit() is nobody's.                   *)
NestedReturns ==
    /\ InnerIs({"lua"}) /\ Len(nest) > 1
    /\ nest' = Outer
    /\ Calm
    /\ UNCHANGED <<files, account, disk, ghosts>>

BackendCatches ==
    /\ Backend /\ Inner.ran /\ trouble.exception = "host"
    /\ trouble' = [trouble EXCEPT !.exception = "none"]
    /\ UNCHANGED <<files, nest, account, disk, ghosts>>

(* Whatever allocates may run a finaliser, one at a time.  (One that closes the *)
(* coroutine it runs in keeps the collector stopped for good; here it does not.) *)
GcRuns ==
    /\ Script \/ InnerIs(Making)
    /\ \A n \in DOMAIN nest : nest[n].k # "gc"
    /\ nest' = Append(nest, Bare("gc"))
    /\ UNCHANGED <<files, account, disk, trouble, ghosts>>

(* Its error becomes a warning, unless the sandbox was interrupted: then it is  *)
(* thrown on, and the io.open that allocated is left as it stands.  So it is    *)
(* when the finaliser closes the coroutine it runs in.                          *)
GcEnds ==
    /\ InnerIs({"gc"})
    /\ \/ nest' = Outer /\ Calm
       \/ /\ nest' = IF Last(Outer).k \in Making THEN Front(Outer) ELSE Outer
          /\ UNCHANGED trouble
    /\ UNCHANGED <<files, account, disk, ghosts>>

(* The outermost call ends: nothing is counted open, or the stack has no room   *)
(* to sweep and every handle stays open, or there is no table to walk, or the   *)
(* sweep takes the table away and walks it.                                     *)
OutermostReturns ==
    /\ InnerIs({"lua"}) /\ Len(nest) = 1
    /\ \/ /\ nest' = <<>>
          /\ trouble' = [flying |-> FALSE, exception |-> "none"]
          /\ \/ account.open = 0 /\ UNCHANGED <<account, ghosts>>
             \/ /\ account.open > 0
                /\ ghosts' = [ghosts EXCEPT !.skipped = TRUE]
                /\ UNCHANGED account
             \/ /\ account.open > 0 /\ ~account.table
                /\ account' = [account EXCEPT !.open = 0]
                /\ ghosts' = [ghosts EXCEPT !.stray = OpenFiles # {}]
       \/ /\ account.open > 0 /\ account.table
          /\ nest' = <<[Bare("sweep") EXCEPT !.ran = trouble.exception = "none"]>>
          /\ account' = [account EXCEPT !.sweeping = TRUE, !.table = FALSE]
          /\ Calm
          /\ UNCHANGED ghosts
    /\ UNCHANGED <<files, disk>>

--------------------------------------------------------------------------------
(* Handles.                                                                     *)

\* Mutant: the bytes charged for the buffer are kept.
ReleaseKeepingBytes(f, a, asked) ==
    /\ files' = [files EXCEPT ![f] = Blank]
    /\ account' = [a EXCEPT !.open = IF @ > 0 THEN @ - 1 ELSE 0]
    /\ ghosts' = IF files[f].unsent /\ ~asked
                 THEN [ghosts EXCEPT !.dropped = @ \cup {f}] ELSE ghosts

(* luaext_vfs_handle_release.  `asked`: the bytes it held were offered to the   *)
(* backend, or an exception in flight forbade it.                               *)
Release(f, a, asked) ==
    /\ files' = [files EXCEPT ![f] = Blank]
    /\ account' = [a EXCEPT !.open = IF @ > 0 THEN @ - 1 ELSE 0,
                            !.buffered = @ - files[f].charged]
    /\ ghosts' = IF files[f].unsent /\ ~asked
                 THEN [ghosts EXCEPT !.dropped = @ \cup {f}] ELSE ghosts

(* luaext_vfs_charge_buffer_public: against maxTotalBytes, then against the     *)
(* sandbox's memory, which may refuse whatever the first said.                  *)
Fits(more) == account.buffered + more <= MaxTotalBytes

Billed(f, more, handle) ==
    /\ files' = [files EXCEPT ![f] = [handle EXCEPT !.charged = @ + more]]
    /\ account' = [account EXCEPT !.buffered = @ + more]

--------------------------------------------------------------------------------
(* io.open and io.lines, in the order luaext_vfs_open asks.                     *)

OpenRefused ==
    /\ Script
    /\ account.sweeping \/ account.open >= MaxOpenHandles
    /\ IF account.sweeping THEN Calm ELSE Raised
    /\ UNCHANGED <<files, nest, account, disk, ghosts>>

OpenAsks ==
    /\ Script
    /\ ~account.sweeping /\ account.open < MaxOpenHandles
    /\ \E p \in Paths, m \in OpenModes : Charge(account, nest, Request("exists", NoFile, p, m))
    /\ UNCHANGED <<files, disk, ghosts>>

(* What follows the handle's construction: a ranged backend truncates or is     *)
(* asked the size, a buffered one is read unless its contents are going anyway. *)
(* A fatal refusal here leaves the handle counted, registered and unreachable.  *)
NextQuestion(ranged, m, exists) ==
    CASE exists /\ ranged /\ m = "w"  -> "truncate"
      [] exists /\ ranged /\ m = "a"  -> "size"
      [] exists /\ ~ranged /\ m # "w" -> "load"
      [] OTHER                        -> "none"

OpenGoesOn(a, fs, f, p, m, exists) ==
    LET k == NextQuestion(a.ranged, m, exists)
    IN  /\ files' = [fs EXCEPT ![f].dirty = ~a.ranged /\ m = "w" /\ exists,
                               ![f].st = IF k = "none" THEN "open" ELSE "opening",
                               ![f].listed = TRUE]
        /\ IF k = "none"
           THEN nest' = Outer /\ account' = a /\ Calm
           ELSE Charge(a, Outer, Request(k, f, p, m))

(* The entry in the table of open handles, for which there may be no memory.    *)
Registers(a, fs, f) ==
    \/ OpenGoesOn(a, fs, f, Inner.p, Inner.m, Inner.found)
    \/ files' = fs /\ account' = a /\ nest' = Outer /\ Raised

Makes(p, m, exists) ==
    nest' = Append(Outer, [Request("make", NoFile, p, m) EXCEPT !.found = exists])

(* luaext_vfs_charge_new_file, once the number of files is known.               *)
NewFile(a, p, m) ==
    \/ /\ a.count >= MaxFiles
       /\ nest' = Outer /\ account' = a /\ Raised
    \/ /\ a.count < MaxFiles
       /\ account' = [a EXCEPT !.count = @ + 1]
       /\ Makes(p, m, FALSE) /\ Calm

Answered(ks) == Backend /\ trouble.exception = "none" /\ Inner.k \in ks
Resumes == nest' = Outer /\ trouble' = [trouble EXCEPT !.flying = Inner.fly]

OpenHears ==
    /\ Answered({"exists"})
    /\ \/ /\ Inner.p \in disk
          /\ Makes(Inner.p, Inner.m, TRUE)
          /\ UNCHANGED <<account, trouble>>
       \/ /\ Inner.p \notin disk /\ ~Writable(Inner.m)
          /\ Resumes
          /\ UNCHANGED account
       \/ /\ Inner.p \notin disk /\ Writable(Inner.m) /\ account.known
          /\ NewFile(account, Inner.p, Inner.m)
       \/ /\ Inner.p \notin disk /\ Writable(Inner.m) /\ ~account.known
          /\ nest' = Append(Outer, Request("count", NoFile, Inner.p, Inner.m))
          /\ UNCHANGED <<account, trouble>>
    /\ UNCHANGED <<files, disk, ghosts>>

(* luaext_vfs_count_files stops once past the ceiling, and a directory that     *)
(* will not be listed contributes nothing.                                      *)
CountHears ==
    /\ Answered({"count"})
    /\ \E n \in 0 .. Cardinality(disk) :
        /\ n <= MaxFiles + 1
        /\ NewFile([account EXCEPT !.count = n, !.known = TRUE], Inner.p, Inner.m)
    /\ UNCHANGED <<files, disk, ghosts>>

(* The handle is built and counted, then entered in the table if there is one.  *)
OpenCounts ==
    /\ InnerIs({"make"})
    /\ \E f \in FileSlots :
        LET handle  == [Blank EXCEPT !.path = Inner.p, !.mode = Inner.m, !.st = "opening"]
            built   == [files EXCEPT ![f] = handle]
            counted == [account EXCEPT !.open = @ + 1]
        IN  /\ files[f].st = "closed"
            /\ ghosts' = [ghosts EXCEPT !.overlapped = @ \ {f}, !.dropped = @ \ {f},
                                        !.ousted = @ \ {f}]
            /\ \/ account.table /\ Registers(counted, built, f)
               \/ /\ ~account.table
                  /\ files' = built /\ account' = counted
                  /\ nest' = Append(Outer, [Inner EXCEPT !.k = "table", !.f = f])
                  /\ UNCHANGED trouble
    /\ UNCHANGED disk

(* The table just made replaces one that a finaliser made in the meantime, and  *)
(* whatever that one held.                                                      *)
OpenLists ==
    /\ InnerIs({"table"})
    /\ Registers([account EXCEPT !.table = TRUE],
                 [f \in FileSlots |-> [files[f] EXCEPT !.listed = FALSE]], Inner.f)
    /\ ghosts' = [ghosts EXCEPT !.ousted = @ \cup Listed]
    /\ UNCHANGED disk

(* No memory for the handle, which is not counted yet, or for the table, when   *)
(* it is.                                                                       *)
OpenStarves ==
    /\ InnerIs(Making)
    /\ nest' = Outer /\ Raised
    /\ UNCHANGED <<files, account, disk, ghosts>>

OpenSized ==
    /\ Answered({"truncate", "size"})
    /\ files' = [files EXCEPT ![Inner.f].st = "open"]
    /\ Resumes
    /\ UNCHANGED <<account, disk, ghosts>>

(* The buffer is attached, then charged: a refused charge leaves a handle that  *)
(* holds bytes no ledger was billed for.                                        *)
OpenLoads ==
    /\ Answered({"load"})
    /\ \E n \in 0 .. MaxFileBytes :
        LET loaded == [files[Inner.f] EXCEPT !.len = n]
        IN  \/ /\ Fits(n)
               /\ Billed(Inner.f, n, [loaded EXCEPT !.st = "open"])
               /\ Resumes
            \/ /\ n > 0
               /\ files' = [files EXCEPT ![Inner.f] = loaded]
               /\ nest' = Outer /\ Raised
               /\ UNCHANGED account
    /\ UNCHANGED <<disk, ghosts>>

--------------------------------------------------------------------------------
(* The other operations of io and os.                                           *)

(* Seek and write into the buffer, up to wherever the write ends.               *)
Write(f) ==
    /\ Script /\ files[f].st = "open" /\ Writable(files[f].mode) /\ ~account.ranged
    /\ \E end \in 1 .. MaxFileBytes :
        LET more == IF end > files[f].len THEN end - files[f].len ELSE 0
        IN  \/ /\ Fits(more)
               /\ Billed(f, more, [files[f] EXCEPT !.len = @ + more, !.dirty = TRUE,
                                                   !.unsent = TRUE])
               /\ ghosts' = IF Flushing(f) THEN [ghosts EXCEPT !.overlapped = @ \cup {f}]
                            ELSE ghosts
               /\ UNCHANGED trouble
            \/ more > 0 /\ Raised /\ UNCHANGED <<files, account, ghosts>>
    /\ UNCHANGED <<nest, disk>>

(* What a ranged handle asks the backend for; each argument is one such call.   *)
RangeIO(f) ==
    /\ Script /\ files[f].st = "open" /\ account.ranged
    /\ \E k \in {"look"} \cup (IF Writable(files[f].mode) THEN {"writerange"} ELSE {}) :
        Charge(account, nest, Request(k, f, files[f].path, files[f].mode))
    /\ UNCHANGED <<files, disk, ghosts>>

Flush(f) ==
    /\ Script /\ files[f].st = "open" /\ files[f].dirty
    /\ Charge(account, nest, Request("flush", f, files[f].path, files[f].mode))
    /\ UNCHANGED <<files, disk, ghosts>>

(* file:close(), io.close, the end of io.lines, and <close> while no exception  *)
(* is in flight.                                                                *)
CloseFile(f) ==
    /\ Script \/ (Unwinding /\ trouble.exception = "none")
    /\ files[f].st = "open" /\ ~Flushing(f)
    /\ \/ /\ files[f].dirty
          /\ Charge(account, nest, Request("close", f, files[f].path, files[f].mode))
          /\ UNCHANGED <<files, ghosts>>
       \/ /\ ~files[f].dirty
          /\ Release(f, account, FALSE)
          /\ UNCHANGED <<nest, trouble>>
    /\ UNCHANGED disk

(* <close> with an exception in flight: the engine would refuse the backend.    *)
CloseInFlight(f) ==
    /\ InLua /\ trouble.exception # "none"
    /\ files[f].st = "open" /\ ~Flushing(f)
    /\ Release(f, account, TRUE)
    /\ UNCHANGED <<nest, disk, trouble>>

(* __gc of a handle nothing reaches: no table, no frame.  Its memory goes and   *)
(* the backend is not asked.                                                    *)
CollectHandle(f) ==
    /\ Script \/ InnerIs(Making)
    /\ \A n \in DOMAIN nest : nest[n].k # "gc" /\ nest[n].f # f
    /\ f \in OpenFiles \ Listed
    /\ Release(f, account, FALSE)
    /\ UNCHANGED <<nest, disk, trouble>>

AsksOs ==
    /\ Script
    /\ \E p \in Paths, k \in {"delete", "rename"} : Charge(account, nest, Request(k, NoFile, p, "r"))
    /\ UNCHANGED <<files, disk, ghosts>>

--------------------------------------------------------------------------------
(* The backend answers.                                                         *)

Written(f) == [files[f] EXCEPT !.dirty = FALSE, !.unsent = f \in ghosts.overlapped]

FlushHears ==
    /\ Answered({"flush"})
    /\ files' = [files EXCEPT ![Inner.f] = Written(Inner.f)]
    /\ disk' = disk \cup {Inner.p}
    /\ Resumes
    /\ UNCHANGED <<account, ghosts>>

CloseHears ==
    /\ Answered({"close", "sweepclose"})
    /\ Release(Inner.f, account, TRUE)
    /\ disk' = disk \cup {Inner.p}
    /\ Resumes

RangeHears ==
    /\ Answered({"look", "writerange"})
    /\ disk' = IF Inner.k = "writerange" THEN disk \cup {Inner.p} ELSE disk
    /\ Resumes
    /\ UNCHANGED <<files, account, ghosts>>

(* luaext_vfs_note_file_removed counts what a call removed, whatever it was.    *)
OsHears ==
    /\ Answered({"delete", "rename"})
    /\ \/ /\ Inner.k = "delete"
          /\ disk' = disk \ {Inner.p}
          /\ account' = IF account.known /\ account.count > 0
                        THEN [account EXCEPT !.count = @ - 1] ELSE account
       \/ /\ Inner.k = "rename" /\ Inner.p \in disk
          /\ \E to \in Paths : disk' = (disk \ {Inner.p}) \cup {to}
          /\ UNCHANGED account
    /\ Resumes
    /\ UNCHANGED <<files, ghosts>>

(* What every unsuccessful answer does to the handle it was about.              *)
GivenUp ==
    IF Inner.k \in {"truncate", "size", "load", "close", "sweepclose"}
    THEN Release(Inner.f, account, TRUE)
    ELSE UNCHANGED <<files, account, ghosts>>

\* Mutant: the file is taken to be written whatever the backend said.
BackendRefusesWritten ==
    /\ Backend /\ trouble.exception = "none" /\ Inner.k # "count"
    /\ IF Inner.k = "flush"
       THEN files' = [files EXCEPT ![Inner.f].dirty = FALSE] /\ UNCHANGED <<account, ghosts>>
       ELSE GivenUp
    /\ Resumes
    /\ UNCHANGED disk

(* A VfsError: nil and a message, or nothing at all where nobody listens.       *)
BackendRefuses ==
    /\ Backend /\ trouble.exception = "none" /\ Inner.k # "count"
    /\ GivenUp
    /\ Resumes
    /\ UNCHANGED disk

(* Any other exception, thrown now or pending since before the call.  io turns  *)
(* it into a Lua error, fatal or not; os and io.lines raise an error of their   *)
(* own and leave it pending, and the sweep clears it.                           *)
Raises(e) ==
    \/ /\ Inner.k = "sweepclose"
       /\ trouble' = [flying |-> FALSE, exception |-> "none"]
    \/ /\ \/ Inner.k \in {"delete", "rename"}
          \/ Inner.k \in {"exists", "load"} /\ Inner.m = "r"
          \/ Inner.k = "close" /\ ~Inner.fly
       /\ trouble' = [flying |-> Inner.fly, exception |-> e]
    \/ /\ Inner.k \notin {"sweepclose", "delete", "rename"}
       /\ \/ e = "exit" /\ trouble' = [flying |-> TRUE, exception |-> e]
          \/ e = "host" /\ \E fly \in {Inner.fly, TRUE} :
                trouble' = [flying |-> fly, exception |-> "none"]

BackendFails ==
    /\ Backend
    /\ \E e \in IF trouble.exception = "none" THEN {"host", "exit"} ELSE {trouble.exception} :
        Raises(e)
    /\ GivenUp
    /\ nest' = Outer
    /\ UNCHANGED disk

--------------------------------------------------------------------------------
(* luaext_vfs_sweep.                                                            *)

SweepHandle(f) ==
    /\ InnerIs({"sweep"})
    /\ f \in Listed
    /\ \/ /\ Inner.ran /\ files[f].dirty
          /\ nest' = Append(nest, Request("sweepclose", f, files[f].path, files[f].mode))
          /\ UNCHANGED <<files, account, ghosts>>
       \/ /\ ~(Inner.ran /\ files[f].dirty)
          /\ Release(f, account, ~Inner.ran)
          /\ UNCHANGED nest
    /\ UNCHANGED <<disk, trouble>>

FileSweepEnds ==
    /\ InnerIs({"sweep"}) /\ Listed = {}
    /\ nest' = <<>>
    /\ account' = [account EXCEPT !.open = 0, !.sweeping = FALSE]
    /\ trouble' = [trouble EXCEPT !.exception = "none"]
    /\ ghosts' = [ghosts EXCEPT !.stray = OpenFiles # {}]
    /\ UNCHANGED <<files, disk>>

--------------------------------------------------------------------------------

FilesNext ==
    \/ BeginCall \/ Reenter \/ NestedReturns \/ BackendCatches \/ OutermostReturns
    \/ GcRuns \/ GcEnds
    \/ OpenRefused \/ OpenAsks \/ OpenHears \/ CountHears
    \/ OpenCounts \/ OpenLists \/ OpenStarves \/ OpenSized \/ OpenLoads
    \/ \E f \in FileSlots : \/ Write(f) \/ RangeIO(f) \/ Flush(f) \/ CloseFile(f)
                            \/ CloseInFlight(f) \/ CollectHandle(f)
                            \/ SweepHandle(f)
    \/ AsksOs \/ FlushHears \/ CloseHears \/ RangeHears \/ OsHears
    \/ BackendRefuses \/ BackendFails \/ FileSweepEnds

FilesSpec == FilesInit /\ [][FilesNext]_filesVars

--------------------------------------------------------------------------------

FilesTypeOK ==
    /\ \A f \in FileSlots :
        /\ files[f].st \in {"closed", "opening", "open"}
        /\ files[f].path \in Paths \cup {NoFile} /\ files[f].mode \in Modes
        /\ files[f].len \in 0 .. MaxFileBytes /\ files[f].charged \in 0 .. MaxTotalBytes
        /\ files[f].dirty \in BOOLEAN /\ files[f].unsent \in BOOLEAN
        /\ files[f].listed \in BOOLEAN
    /\ account.open \in 0 .. Cardinality(FileSlots) /\ account.buffered \in 0 .. MaxTotalBytes
    /\ account.ops \in 0 .. MaxOperations + 1
    /\ account.count \in 0 .. MaxFiles + 1
    /\ account.known \in BOOLEAN /\ account.sweeping \in BOOLEAN /\ account.ranged \in BOOLEAN
    /\ account.table \in BOOLEAN
    /\ disk \subseteq Paths
    /\ trouble.flying \in BOOLEAN /\ trouble.exception \in {"none", "host", "exit"}

(* The counters the quotas are judged by: the bytes counted buffered are those  *)
(* charged for and within the quota; no more handles are counted open than are, *)
(* and no fewer either until a sweep has left one behind that it never knew;    *)
(* finalisers and calls of the backend that re-enter an open may pass           *)
(* maxOpenHandles by their number and no further; and no handle of the table's  *)
(* outlives its call, unless the sweep had no stack to run on or miscounted.    *)
FilesAddUp ==
    /\ account.open <= Cardinality(OpenFiles)
    /\ ~ghosts.stray => account.open = Cardinality(OpenFiles)
    /\ account.buffered = SumFunction([f \in FileSlots |-> files[f].charged])
    /\ account.buffered <= MaxTotalBytes
    /\ account.open <= MaxOpenHandles + MaxNesting
    /\ nest = <<>> /\ ~ghosts.skipped /\ ~ghosts.stray => Listed = {}

(* What a script wrote to a handle is offered to the backend before the handle  *)
(* goes, whoever closes it and however the call ends; what is lost is a write   *)
(* made by the backend's own re-entry while that very file is being flushed,    *)
(* and what a handle holds whose table an io.open replaced.                     *)
WritesAreNotForgotten ==
    /\ \A f \in FileSlots : files[f].unsent => files[f].dirty \/ f \in ghosts.overlapped
    /\ ghosts.dropped \subseteq ghosts.overlapped \cup ghosts.ousted

====
