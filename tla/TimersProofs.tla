----------------------------- MODULE TimersProofs -----------------------------
(***************************************************************************)
(* What the call bracket bills.  Two invariants: one, for any crossings    *)
(* that flush and re-enter, that a crossing which keeps its own list of    *)
(* what it paused will have resumed everything before Lua runs again; the  *)
(* other, for the crossings whose host code makes no calls but callbacks'  *)
(* pauseTimers() and nested Lua, that the pause in force while a host      *)
(* frame runs is what the documents say the frame does not charge for.     *)
(***************************************************************************)
EXTENDS Timers, WatchSlotProofs, FiniteSetTheorems, WellFoundedInduction, TLAPS

\* Only registered callables pause; a backend does not call back into Lua and
\* no host code asks for the output in the middle of a call.
PausingIsForCallbacks == Pausers \subseteq {"callback"}
Plain == PausingIsForCallbacks /\ Reentrants \subseteq Crossings \ {"backend"} /\ Flushers = {}

-----------------------------------------------------------------------------
(* The slot                                                                *)

\* A slot of the one sandbox, on a thread whose CPU clock answers, `on` while
\* a call is in progress.
SlotFits(r, on, c) ==
  /\ r \in Slot
  /\ r.clockOk = TRUE /\ r.cpuOpenFailed = FALSE
  /\ r.armed = on
  /\ r.open = (IF on THEN Segments \ r.paused ELSE {})
  /\ on \/ r.paused = {}
  /\ r.wallBase <= c.wall /\ r.cpuBase <= c.cpu

-----------------------------------------------------------------------------
(* The frames                                                              *)

IsLua(s, i) == s[i].kind = "lua"

Stacked(s) ==
  /\ s # <<>> => IsLua(s, 1)
  /\ \A i \in 2..Len(s) : IsLua(s, i) => ~IsLua(s, i - 1)
  /\ \A i \in 2..Len(s) : ~IsLua(s, i) /\ ~IsLua(s, i - 1) => s[i].kind = "sink"

\* The host frames that i runs on top of, down to the Lua that called out.
Run(s, i) == {n \in 1..i : \A m \in n..i : ~IsLua(s, m)}

\* Frame i runs, or will when the Lua it called returns, with this paused.
PausedIn(s, paused, i) == IF i = Len(s) THEN paused ELSE s[i+1].wasPaused
Known(s, i) == i = Len(s) \/ IsLua(s, i + 1)

\* Whatever is paused while a host frame runs is reopened on the way back to
\* Lua: by a callback's return, which resumes everything, or piece by piece.
Reopened(s, i, paused) ==
  \/ \E n \in Run(s, i) : s[n].kind = "callback"
  \/ paused \subseteq UNION {s[n].resumes : n \in Run(s, i)}

Settles(s, paused) ==
  /\ s # <<>> /\ IsLua(s, Len(s)) => paused = {}
  /\ \A i \in 1..Len(s) : ~IsLua(s, i) /\ Known(s, i) => Reopened(s, i, PausedIn(s, paused, i))

LuaFits(r, s, c) ==
  /\ s \in Seq(Frame)
  /\ SlotFits(r, s # <<>>, c)
  /\ Stacked(s)
  /\ PausingIsForCallbacks => Settles(s, r.paused)

LuaInv == now \in Nat /\ cpu \in Nat /\ LuaFits(slot, stack, Here)

\* What the frame that entered the interpreter for i is free to un-bill.
LentTo(s, i) == IF i = 2 THEN Segments ELSE s[i-2].unbilled
Lends(s, i) == i = 1 \/ s[i-1].unbilled # {}

FollowsTheFrames(s, paused, allow) ==
  /\ \A i \in 2..Len(s) : IsLua(s, i) <=> ~IsLua(s, i - 1)
  /\ \A i \in 2..Len(s) : ~IsLua(s, i) =>
       /\ PausedIn(s, paused, i) = s[i].unbilled
       /\ s[i].unbilled \subseteq LentTo(s, i)
       /\ s[i].kind # "backend" => s[i].unbilled \in {{}, Segments}
       /\ i < Len(s) => s[i].kind # "backend"
  /\ \A i \in 1..Len(s) : IsLua(s, i) =>
       (IF i + 1 < Len(s) THEN s[i+2].prevAllow ELSE allow) = Lends(s, i)

FrameInv == Plain => FollowsTheFrames(stack, slot.paused, allowPause)

Billed ==
  /\ WallSpent(slot, Here) = ledger.wall
  /\ CpuSpent(slot, Here) = ledger.cpu
BillInv == Plain => Billed

\* The flag stays up until the outermost call has returned.
FlagInv ==
  /\ irq \in Reasons \cup {"abort"}
  /\ breached => irq # "none"

-----------------------------------------------------------------------------
(* What the clock updates do to a slot                                     *)

\* Spent alike, at this reading.
SameBill(q, r, c) == WallSpent(q, c) = WallSpent(r, c) /\ CpuSpent(q, c) = CpuSpent(r, c)

\* luaext_watchdog_arm opens both segments, on readings taken now.
LEMMA ArmedFits ==
  ASSUME NEW c \in Clock, c.readable = TRUE, NEW r, SlotFits(r, FALSE, c)
  PROVE  /\ SlotFits(Armed(r, c), TRUE, c) /\ Armed(r, c).paused = {}
         /\ SameBill(Armed(r, c), r, c)
  <1> DEFINE q == Armed(r, c)
  <1>1. r \in Slot /\ c.wall \in Nat /\ c.cpu \in Nat
    BY DEF SlotFits, Clock
  <1>2. q \in Slot
    BY <1>1, ArmedType
  <1>3. /\ q.clockOk = TRUE /\ q.cpuOpenFailed = FALSE /\ q.armed = TRUE /\ q.paused = {}
        /\ q.open = Segments /\ q.wallBase = c.wall /\ q.cpuBase = c.cpu
        /\ q.wallUsed = r.wallUsed /\ q.cpuUsed = r.cpuUsed
    BY <1>1 DEF Armed, Opened, SlotFits, Slot, Segments
  <1>4. Elapsed(c.wall, c.wall) = 0 /\ Elapsed(c.cpu, c.cpu) = 0
    BY <1>1 DEF Elapsed
  <1>5. r.wallUsed \in Nat /\ r.cpuUsed \in Nat /\ r.open = {}
    BY <1>1 DEF SlotFits, Slot
  <1> HIDE DEF q
  <1>6. WallSpent(q, c) = WallSpent(r, c) /\ CpuSpent(q, c) = CpuSpent(r, c)
    BY <1>3, <1>4, <1>5 DEF WallSpent, CpuSpent
  <1>7. SlotFits(q, TRUE, c)
    BY <1>1, <1>2, <1>3 DEF SlotFits
  <1> QED
    BY <1>3, <1>6, <1>7 DEF q, SameBill

\* luaext_watch_close banks what its segments measured.
Banks(q, r, mask, c) ==
  /\ q \in Slot
  /\ q.open = r.open \ mask /\ q.paused = r.paused /\ q.armed = r.armed /\ q.clockOk = TRUE
  /\ q.cpuOpenFailed = r.cpuOpenFailed /\ q.wallBase = r.wallBase /\ q.cpuBase = r.cpuBase
  /\ SameBill(q, r, c)

LEMMA ClosedSpends ==
  ASSUME NEW c \in Clock, c.readable = TRUE, NEW r \in Slot, r.clockOk = TRUE,
         NEW mask \in SUBSET Segments
  PROVE  Banks(Closed(r, mask, c), r, mask, c)
  <1> DEFINE q == Closed(r, mask, c)
  <1>1. q \in Slot
    BY ClosedType
  <1>2. /\ q.paused = r.paused /\ q.armed = r.armed /\ q.clockOk = TRUE
        /\ q.cpuOpenFailed = r.cpuOpenFailed /\ q.wallBase = r.wallBase /\ q.cpuBase = r.cpuBase
    BY DEF Closed, Slot
  <1>3. q.open = r.open \ (mask \cap r.open)
    BY DEF Closed, Slot
  <1>4. q.wallUsed = IF "wall" \in mask /\ "wall" \in r.open THEN WallSpent(r, c) ELSE r.wallUsed
    BY DEF Closed, Slot
  <1>5. q.cpuUsed = IF "cpu" \in mask /\ "cpu" \in r.open THEN CpuSpent(r, c) ELSE r.cpuUsed
    BY DEF Closed, Slot, CpuLost
  <1>6. /\ WallSpent(r, c) \in Nat /\ CpuSpent(r, c) \in Nat
        /\ r.wallUsed \in Nat /\ r.cpuUsed \in Nat
    BY SpentType DEF Slot
  <1> HIDE DEF q
  <1>7. WallSpent(q, c) = WallSpent(r, c)
    <2>1. CASE "wall" \in mask /\ "wall" \in r.open
      <3>1. "wall" \notin q.open /\ q.wallUsed = WallSpent(r, c)
        BY <1>3, <1>4, <2>1
      <3> QED
        BY <1>6, <3>1 DEF WallSpent
    <2>2. CASE ~("wall" \in mask /\ "wall" \in r.open)
      <3>1. ("wall" \in q.open) = ("wall" \in r.open) /\ q.wallUsed = r.wallUsed
        BY <1>3, <1>4, <2>2
      <3> QED
        BY <1>2, <3>1 DEF WallSpent
    <2> QED
      BY <2>1, <2>2
  <1>8. CpuSpent(q, c) = CpuSpent(r, c)
    <2>1. CASE "cpu" \in mask /\ "cpu" \in r.open
      <3>1. "cpu" \notin q.open /\ q.cpuUsed = CpuSpent(r, c)
        BY <1>3, <1>5, <2>1
      <3> QED
        BY <1>6, <3>1 DEF CpuSpent
    <2>2. CASE ~("cpu" \in mask /\ "cpu" \in r.open)
      <3>1. ("cpu" \in q.open) = ("cpu" \in r.open) /\ q.cpuUsed = r.cpuUsed
        BY <1>3, <1>5, <2>2
      <3> QED
        BY <1>2, <3>1 DEF CpuSpent
    <2> QED
      BY <2>1, <2>2
  <1>9. q.open = r.open \ mask
    BY <1>3
  <1> QED
    BY <1>1, <1>2, <1>7, <1>8, <1>9 DEF q, Banks, SameBill

\* luaext_watchdog_disarm keeps what was spent and forgets every pause.
LEMMA DisarmedFits ==
  ASSUME NEW c \in Clock, c.readable = TRUE, NEW r, SlotFits(r, TRUE, c)
  PROVE  /\ SlotFits(Disarmed(r, c), FALSE, c)
         /\ SameBill(Disarmed(r, c), r, c)
  <1> DEFINE k == Closed(r, Segments, c)
             q == Disarmed(r, c)
  <1>1. r \in Slot /\ r.clockOk = TRUE /\ r.open \subseteq Segments
    BY DEF SlotFits
  <1>2. /\ k \in Slot /\ k.open = r.open \ Segments /\ k.clockOk = TRUE
        /\ k.wallBase = r.wallBase /\ k.cpuBase = r.cpuBase
        /\ WallSpent(k, c) = WallSpent(r, c) /\ CpuSpent(k, c) = CpuSpent(r, c)
    <2>1. Banks(k, r, Segments, c)
      BY <1>1, ClosedSpends
    <2> QED
      BY <2>1 DEF Banks, SameBill
  <1>3. q = [k EXCEPT !.armed = FALSE, !.paused = {}, !.cpuOpenFailed = FALSE]
    BY DEF Disarmed
  <1> HIDE DEF k, q
  <1>4. /\ q \in Slot /\ q.armed = FALSE /\ q.paused = {} /\ q.cpuOpenFailed = FALSE
        /\ q.open = k.open /\ q.clockOk = k.clockOk /\ q.wallBase = k.wallBase
        /\ q.cpuBase = k.cpuBase /\ q.wallUsed = k.wallUsed /\ q.cpuUsed = k.cpuUsed
    BY <1>2, <1>3 DEF Slot
  <1>5. WallSpent(q, c) = WallSpent(k, c) /\ CpuSpent(q, c) = CpuSpent(k, c)
    BY <1>4 DEF WallSpent, CpuSpent
  <1>6. q.open = {}
    BY <1>1, <1>2, <1>4
  <1>7. SlotFits(q, FALSE, c)
    BY <1>2, <1>4, <1>6 DEF SlotFits
  <1> QED
    BY <1>2, <1>5, <1>7 DEF q, SameBill

\* luaext_watchdog_pause.
LEMMA PausedForFits ==
  ASSUME NEW c \in Clock, c.readable = TRUE, NEW r, SlotFits(r, TRUE, c),
         NEW mask \in SUBSET Segments
  PROVE  /\ SlotFits(PausedFor(r, mask, c), TRUE, c)
         /\ PausedFor(r, mask, c).paused = r.paused \cup mask
         /\ SameBill(PausedFor(r, mask, c), r, c)
  <1> DEFINE p == r.paused \cup mask
             k == [r EXCEPT !.paused = p]
             q == PausedFor(r, mask, c)
  <1>1. /\ r \in Slot /\ r.clockOk = TRUE /\ r.open = Segments \ r.paused /\ r.armed = TRUE
        /\ r.cpuOpenFailed = FALSE /\ r.wallBase <= c.wall /\ r.cpuBase <= c.cpu
    BY DEF SlotFits
  <1>2. p \in SUBSET Segments
    BY <1>1 DEF Slot
  <1>3. q = Closed(k, mask, c)
    BY DEF PausedFor
  <1>4. p = r.paused \cup mask
    OBVIOUS
  <1> HIDE DEF p
  <1>5. /\ k \in Slot /\ k.paused = p /\ k.open = r.open /\ k.clockOk = TRUE /\ k.armed = TRUE
        /\ k.cpuOpenFailed = FALSE /\ k.wallBase = r.wallBase /\ k.cpuBase = r.cpuBase
        /\ k.wallUsed = r.wallUsed /\ k.cpuUsed = r.cpuUsed
    BY <1>1, <1>2 DEF Slot
  <1> HIDE DEF k, q
  <1>6. WallSpent(k, c) = WallSpent(r, c) /\ CpuSpent(k, c) = CpuSpent(r, c)
    BY <1>1, <1>5 DEF WallSpent, CpuSpent
  <1>7. /\ q \in Slot /\ q.open = k.open \ mask /\ q.paused = k.paused /\ q.armed = TRUE
        /\ q.clockOk = TRUE /\ q.cpuOpenFailed = FALSE
        /\ q.wallBase = k.wallBase /\ q.cpuBase = k.cpuBase
        /\ WallSpent(q, c) = WallSpent(k, c) /\ CpuSpent(q, c) = CpuSpent(k, c)
    <2>1. Banks(q, k, mask, c)
      BY <1>3, <1>5, ClosedSpends
    <2> QED
      BY <1>5, <2>1 DEF Banks, SameBill
  <1>8. q.open = Segments \ q.paused
    BY <1>1, <1>4, <1>5, <1>7
  <1>9. SlotFits(q, TRUE, c)
    BY <1>1, <1>5, <1>7, <1>8 DEF SlotFits
  <1> QED
    BY <1>4, <1>5, <1>6, <1>7, <1>9 DEF q, SameBill

\* The same, as one fact about a pause.
PauseKeeps(r, mask, c) ==
  /\ SlotFits(PausedFor(r, mask, c), TRUE, c)
  /\ PausedFor(r, mask, c).paused = r.paused \cup mask
  /\ SameBill(PausedFor(r, mask, c), r, c)

LEMMA PauseIsKept ==
  ASSUME NEW c \in Clock, c.readable = TRUE, NEW r, SlotFits(r, TRUE, c),
         NEW mask \in SUBSET Segments
  PROVE  PauseKeeps(r, mask, c)
  BY PausedForFits DEF PauseKeeps

\* luaext_watchdog_resume reopens what was asked, on readings taken now.
LEMMA ResumedForFits ==
  ASSUME NEW c \in Clock, c.readable = TRUE, NEW r, SlotFits(r, TRUE, c),
         NEW mask \in SUBSET Segments
  PROVE  /\ SlotFits(ResumedFor(r, mask, c), TRUE, c)
         /\ ResumedFor(r, mask, c).paused = r.paused \ mask
         /\ SameBill(ResumedFor(r, mask, c), r, c)
  <1> DEFINE p == r.paused \ mask
             k == [r EXCEPT !.paused = p]
             q == ResumedFor(r, mask, c)
             m == (mask \ p) \ r.open
  <1>1. /\ r \in Slot /\ r.clockOk = TRUE /\ r.open = Segments \ r.paused /\ r.armed = TRUE
        /\ r.cpuOpenFailed = FALSE /\ r.wallBase <= c.wall /\ r.cpuBase <= c.cpu
        /\ c.wall \in Nat /\ c.cpu \in Nat
    BY DEF SlotFits, Clock
  <1>2. p \in SUBSET Segments /\ m \in SUBSET Segments /\ m = mask \ r.open
    BY <1>1 DEF Slot
  <1>3. q = Opened(k, mask, c)
    BY <1>1 DEF ResumedFor
  <1>4. q \in Slot
    BY <1>1, ResumedForType
  <1> HIDE DEF p
  <1>5. /\ k \in Slot /\ k.paused = p /\ k.open = r.open /\ k.clockOk = TRUE /\ k.armed = TRUE
        /\ k.cpuOpenFailed = FALSE /\ k.wallBase = r.wallBase /\ k.cpuBase = r.cpuBase
        /\ k.wallUsed = r.wallUsed /\ k.cpuUsed = r.cpuUsed
    BY <1>1, <1>2 DEF Slot
  <1> HIDE DEF k
  <1>6. /\ q.paused = p /\ q.armed = TRUE /\ q.clockOk = TRUE
        /\ q.wallUsed = r.wallUsed /\ q.cpuUsed = r.cpuUsed
    BY <1>3, <1>5 DEF Opened, Slot
  <1>7. q.cpuOpenFailed = FALSE
    BY <1>3, <1>5 DEF Opened, Slot
  <1>8. q.wallBase = (IF "wall" \in m THEN c.wall ELSE r.wallBase)
    BY <1>3, <1>5 DEF Opened, Slot
  <1>9. q.cpuBase = (IF "cpu" \in m THEN c.cpu ELSE r.cpuBase)
    BY <1>3, <1>5 DEF Opened, Slot
  <1>10. q.open = r.open \cup (IF "cpu" \in m THEN {"cpu"} ELSE {}) \cup (m \cap {"wall"})
    BY <1>3, <1>5 DEF Opened, Slot
  <1> HIDE DEF q
  <1>11. q.open = r.open \cup m
    BY <1>2, <1>10 DEF Segments
  <1>12. q.open = Segments \ q.paused
    BY <1>1, <1>2, <1>6, <1>11 DEF p, Slot
  <1>13. q.wallBase <= c.wall /\ q.cpuBase <= c.cpu
    BY <1>1, <1>8, <1>9
  <1>14. SlotFits(q, TRUE, c)
    BY <1>4, <1>6, <1>7, <1>12, <1>13 DEF SlotFits
  <1>15. Elapsed(c.wall, c.wall) = 0 /\ Elapsed(c.cpu, c.cpu) = 0
    BY <1>1 DEF Elapsed
  <1>16. r.wallUsed \in Nat /\ r.cpuUsed \in Nat
    BY <1>1 DEF Slot
  <1> HIDE DEF m
  <1>17. WallSpent(q, c) = WallSpent(r, c)
    <2>1. CASE "wall" \in m
      <3>1. "wall" \notin r.open /\ "wall" \in q.open /\ q.wallBase = c.wall
        BY <1>2, <1>8, <1>11, <2>1
      <3> QED
        BY <1>6, <1>15, <1>16, <3>1 DEF WallSpent
    <2>2. CASE "wall" \notin m
      <3>1. ("wall" \in q.open) = ("wall" \in r.open) /\ q.wallBase = r.wallBase
        BY <1>8, <1>11, <2>2
      <3> QED
        BY <1>6, <3>1 DEF WallSpent
    <2> QED
      BY <2>1, <2>2
  <1>18. CpuSpent(q, c) = CpuSpent(r, c)
    <2>1. CASE "cpu" \in m
      <3>1. "cpu" \notin r.open /\ "cpu" \in q.open /\ q.cpuBase = c.cpu
        BY <1>2, <1>9, <1>11, <2>1
      <3> QED
        BY <1>1, <1>6, <1>15, <1>16, <3>1 DEF CpuSpent
    <2>2. CASE "cpu" \notin m
      <3>1. ("cpu" \in q.open) = ("cpu" \in r.open) /\ q.cpuBase = r.cpuBase
        BY <1>9, <1>11, <2>2
      <3> QED
        BY <1>1, <1>6, <3>1 DEF CpuSpent
    <2> QED
      BY <2>1, <2>2
  <1> QED
    BY <1>6, <1>14, <1>17, <1>18 DEF q, p, SameBill

\* An empty mask returns early.
LEMMA ResumedFits ==
  ASSUME now \in Nat, cpu \in Nat, NEW r, SlotFits(r, TRUE, Here), NEW mask \in SUBSET Segments
  PROVE  /\ SlotFits(Resumed(r, mask), TRUE, Here)
         /\ Resumed(r, mask).paused = r.paused \ mask
         /\ SameBill(Resumed(r, mask), r, Here)
  <1>1. Here \in Clock /\ Here.readable = TRUE
    BY DEF Here, Clock
  <1> HIDE DEF Here
  <1>2. PICK c : c = Here
    OBVIOUS
  <1>3. c \in Clock /\ c.readable = TRUE /\ SlotFits(r, TRUE, c)
    BY <1>1, <1>2
  <1>4. CASE mask = {}
    BY <1>4 DEF Resumed, SameBill
  <1>5. CASE mask # {}
    <2>1. Resumed(r, mask) = ResumedFor(r, mask, c)
      BY <1>2, <1>5 DEF Resumed
    <2> DEFINE q == ResumedFor(r, mask, c)
    <2>2. SlotFits(q, TRUE, c) /\ q.paused = r.paused \ mask /\ SameBill(q, r, c)
      BY <1>3, ResumedForFits
    <2> QED
      BY <1>2, <2>1, <2>2
  <1> QED
    BY <1>4, <1>5

-----------------------------------------------------------------------------
(* What the frames' coming and going does to the pause they account for    *)

\* The stack t is s with one more frame on top.
Longer(s, t) ==
  /\ s \in Seq(Frame) /\ t \in Seq(Frame)
  /\ Len(t) = Len(s) + 1
  /\ \A i \in 1..Len(s) : t[i] = s[i]

Agree(s, t, i) == \A n \in 1..i : t[n] = s[n]

\* What the frames below reopen depends on them alone.
LEMMA ReopenedBelow ==
  ASSUME NEW s, NEW t, NEW i \in Nat, Agree(s, t, i), NEW paused
  PROVE  Reopened(t, i, paused) <=> Reopened(s, i, paused)
  <1>1. \A n \in 1..i : t[n] = s[n]
    BY DEF Agree
  <1>2. \A n \in 1..i : IsLua(t, n) = IsLua(s, n)
    BY <1>1 DEF IsLua
  <1>3. Run(t, i) = Run(s, i)
    BY <1>2 DEF Run
  <1>4. \A n \in Run(s, i) : t[n] = s[n]
    BY <1>1 DEF Run
  <1>5. {t[n].resumes : n \in Run(t, i)} = {s[n].resumes : n \in Run(s, i)}
    BY <1>3, <1>4
  <1>6. (\E n \in Run(t, i) : t[n].kind = "callback") <=> (\E n \in Run(s, i) : s[n].kind = "callback")
    BY <1>3, <1>4
  <1> QED
    BY <1>5, <1>6 DEF Reopened

\* A host frame reopens its own part, or all of it.
LEMMA ReopenedAbove ==
  ASSUME NEW t, NEW i \in Nat, ~IsLua(t, i + 1), NEW paused
  PROVE  Reopened(t, i + 1, paused)
           <=> t[i + 1].kind = "callback" \/ Reopened(t, i, paused \ t[i + 1].resumes)
  <1>1. Run(t, i + 1) = Run(t, i) \cup {i + 1}
    <2>1. ASSUME NEW n \in Run(t, i) PROVE n \in Run(t, i + 1)
      <3>1. n \in 1..i /\ \A m \in n..i : ~IsLua(t, m)
        BY DEF Run
      <3>2. \A m \in n..(i + 1) : m = i + 1 \/ m \in n..i
        BY <3>1
      <3>3. n \in 1..(i + 1)
        BY <3>1
      <3> QED
        BY <3>1, <3>2, <3>3 DEF Run
    <2>2. i + 1 \in Run(t, i + 1)
      <3>1. \A m \in (i + 1)..(i + 1) : m = i + 1
        OBVIOUS
      <3> QED
        BY <3>1 DEF Run
    <2>3. ASSUME NEW n \in Run(t, i + 1), n # i + 1 PROVE n \in Run(t, i)
      <3>1. n \in 1..(i + 1) /\ \A m \in n..(i + 1) : ~IsLua(t, m)
        BY DEF Run
      <3>2. n \in 1..i /\ \A m \in n..i : m \in n..(i + 1)
        BY <3>1, <2>3
      <3> QED
        BY <3>1, <3>2 DEF Run
    <2> QED
      BY <2>1, <2>2, <2>3
  <1>2. UNION {t[n].resumes : n \in Run(t, i + 1)}
          = t[i + 1].resumes \cup UNION {t[n].resumes : n \in Run(t, i)}
    BY <1>1
  <1>3. (\E n \in Run(t, i + 1) : t[n].kind = "callback")
          <=> t[i + 1].kind = "callback" \/ \E n \in Run(t, i) : t[n].kind = "callback"
    BY <1>1
  <1>4. paused \subseteq UNION {t[n].resumes : n \in Run(t, i + 1)}
          <=> paused \ t[i + 1].resumes \subseteq UNION {t[n].resumes : n \in Run(t, i)}
    BY <1>2
  <1> QED
    BY <1>3, <1>4 DEF Reopened

\* A Lua frame reopens nothing.
LEMMA ReopenedByLua ==
  ASSUME NEW t, NEW i \in Nat \ {0}, IsLua(t, i), NEW paused
  PROVE  Reopened(t, i, paused) <=> paused = {}
  <1>1. Run(t, i) = {}
    <2>1. ASSUME NEW n \in Run(t, i) PROVE FALSE
      <3>1. n \in 1..i /\ \A m \in n..i : ~IsLua(t, m)
        BY DEF Run
      <3>2. i \in n..i
        BY <3>1
      <3> QED
        BY <3>1, <3>2
    <2> QED
      BY <2>1
  <1> QED
    BY <1>1 DEF Reopened

\* luaext_timers_enter_lua, from an empty stack or from a host frame.
LEMMA LuaPushed ==
  ASSUME NEW s, NEW t, Longer(s, t), IsLua(t, Len(t)), Stacked(s),
         s = <<>> \/ ~IsLua(s, Len(s)), NEW paused, t[Len(t)].wasPaused = paused
  PROVE  Stacked(t) /\ (Settles(s, paused) => Settles(t, {}))
  <1> DEFINE n == Len(s)
  <1>1. n \in Nat /\ Len(t) = n + 1 /\ \A i \in 1..n : t[i] = s[i]
    BY DEF Longer
  <1>2. s = <<>> <=> n = 0
    BY DEF Longer
  <1>3. \A i \in 1..n : IsLua(t, i) = IsLua(s, i)
    BY <1>1 DEF IsLua
  <1>4. Stacked(t)
    <2>1. IsLua(t, 1)
      BY <1>1, <1>2, <1>3 DEF Stacked
    <2>2. \A i \in 2..n : (IsLua(t, i) => ~IsLua(t, i - 1))
                       /\ (~IsLua(t, i) /\ ~IsLua(t, i - 1) => t[i].kind = "sink")
      BY <1>1, <1>3 DEF Stacked
    <2>3. n > 0 => ~IsLua(t, n)
      BY <1>1, <1>2, <1>3
    <2> QED
      BY <1>1, <2>1, <2>2, <2>3 DEF Stacked
  <1>5. ASSUME Settles(s, paused) PROVE Settles(t, {})
    <2> SUFFICES ASSUME NEW i \in 1..Len(t), ~IsLua(t, i), Known(t, i)
                 PROVE  Reopened(t, i, PausedIn(t, {}, i))
      BY DEF Settles
    <2>1. i \in 1..n
      BY <1>1
    <2>2. i \in Nat /\ Agree(s, t, i)
      BY <1>1, <2>1 DEF Agree
    <2>3. ~IsLua(s, i)
      BY <1>3, <2>1
    <2>4. Known(s, i) /\ PausedIn(t, {}, i) = PausedIn(s, paused, i)
      <3>1. CASE i = n
        BY <1>1, <3>1 DEF Known, PausedIn
      <3>2. CASE i # n
        <4>1. i + 1 \in 1..n /\ i # Len(t)
          BY <1>1, <2>1, <3>2
        <4> QED
          BY <1>1, <1>3, <2>1, <3>2, <4>1 DEF Known, PausedIn
      <3> QED
        BY <3>1, <3>2
    <2>5. Reopened(s, i, PausedIn(s, paused, i))
      BY <1>5, <2>1, <2>3, <2>4 DEF Settles
    <2>6. Reopened(t, i, PausedIn(s, paused, i))
      BY <2>2, <2>5, ReopenedBelow
    <2> QED
      BY <2>4, <2>6
  <1> QED
    BY <1>4, <1>5

\* The host is called, with what the crossing paused on top of what was.
LEMMA HostPushed ==
  ASSUME NEW s, NEW t, Longer(s, t), ~IsLua(t, Len(t)), Stacked(s), s # <<>>,
         IsLua(s, Len(s)) \/ t[Len(t)].kind = "sink",
         NEW paused, NEW took,
         t[Len(t)].kind = "callback" \/ took \subseteq t[Len(t)].resumes
  PROVE  Stacked(t) /\ (Settles(s, paused) => Settles(t, paused \cup took))
  <1> DEFINE n == Len(s)
  <1>1. n \in Nat /\ n > 0 /\ Len(t) = n + 1 /\ \A i \in 1..n : t[i] = s[i]
    BY DEF Longer
  <1>2. \A i \in 1..n : IsLua(t, i) = IsLua(s, i)
    BY <1>1 DEF IsLua
  <1>3. Stacked(t)
    <2>1. IsLua(t, 1)
      BY <1>1, <1>2 DEF Stacked
    <2>2. \A i \in 2..n : (IsLua(t, i) => ~IsLua(t, i - 1))
                       /\ (~IsLua(t, i) /\ ~IsLua(t, i - 1) => t[i].kind = "sink")
      BY <1>1, <1>2 DEF Stacked
    <2>3. ~IsLua(t, n + 1) /\ (~IsLua(t, n) => t[n + 1].kind = "sink")
      BY <1>1, <1>2
    <2> QED
      BY <1>1, <2>1, <2>2, <2>3 DEF Stacked
  <1>4. ASSUME Settles(s, paused) PROVE Settles(t, paused \cup took)
    <2> SUFFICES ASSUME NEW i \in 1..Len(t), ~IsLua(t, i), Known(t, i)
                 PROVE  Reopened(t, i, PausedIn(t, paused \cup took, i))
      BY <1>1 DEF Settles
    <2>1. CASE i = n + 1
      <3>1. PausedIn(t, paused \cup took, i) = paused \cup took
        BY <1>1, <2>1 DEF PausedIn
      <3>2. CASE t[n + 1].kind = "callback"
        BY <1>1, <2>1, <3>2, ReopenedAbove
      <3>3. CASE t[n + 1].kind # "callback"
        <4>1. took \subseteq t[n + 1].resumes
          BY <1>1, <3>3
        <4>2. Reopened(s, n, paused)
          <5>1. CASE IsLua(s, n)
            <6>1. paused = {}
              BY <1>1, <1>4, <5>1 DEF Settles
            <6> QED
              BY <1>1, <5>1, <6>1, ReopenedByLua
          <5>2. CASE ~IsLua(s, n)
            BY <1>1, <1>4, <5>2 DEF Settles, Known, PausedIn
          <5> QED
            BY <5>1, <5>2
        <4>3. Agree(s, t, n)
          BY <1>1 DEF Agree
        <4>4. Reopened(t, n, paused)
          BY <1>1, <4>2, <4>3, ReopenedBelow
        <4>5. Reopened(t, n, (paused \cup took) \ t[n + 1].resumes)
          BY <4>1, <4>4 DEF Reopened
        <4>6. Reopened(t, n + 1, paused \cup took)
          BY <1>1, <2>1, <4>5, ReopenedAbove
        <4> QED
          BY <2>1, <3>1, <4>6
      <3> QED
        BY <3>2, <3>3
    <2>2. CASE i # n + 1
      <3>1. i \in 1..n /\ i # n /\ i + 1 \in 1..n /\ IsLua(t, i + 1) /\ i \in Nat
        BY <1>1, <2>2 DEF Known
      <3>2. Agree(s, t, i)
        BY <1>1, <3>1 DEF Agree
      <3>3. ~IsLua(s, i) /\ Known(s, i)
        BY <1>2, <3>1 DEF Known
      <3>4. PausedIn(t, paused \cup took, i) = PausedIn(s, paused, i)
        BY <1>1, <3>1 DEF PausedIn
      <3>5. Reopened(s, i, PausedIn(s, paused, i))
        BY <1>4, <3>1, <3>3 DEF Settles
      <3>6. Reopened(t, i, PausedIn(s, paused, i))
        BY <3>1, <3>2, <3>5, ReopenedBelow
      <3> QED
        BY <3>4, <3>6
    <2> QED
      BY <2>1, <2>2
  <1> QED
    BY <1>3, <1>4

\* luaext_timers_leave_lua of a nested call: the pause its caller had is back.
LEMMA LuaPopped ==
  ASSUME NEW s, NEW t, Longer(t, s), t # <<>>, IsLua(s, Len(s)), Stacked(s), NEW paused
  PROVE  /\ Stacked(t) /\ ~IsLua(t, Len(t))
         /\ Settles(s, paused) => Settles(t, s[Len(s)].wasPaused)
  <1> DEFINE n == Len(t)
             was == s[Len(s)].wasPaused
  <1>1. n \in Nat /\ n > 0 /\ Len(s) = n + 1 /\ \A i \in 1..n : s[i] = t[i]
    BY DEF Longer
  <1>2. \A i \in 1..n : IsLua(t, i) = IsLua(s, i)
    BY <1>1 DEF IsLua
  <1>3. Stacked(t)
    <2>1. IsLua(t, 1)
      BY <1>1, <1>2 DEF Stacked
    <2>2. \A i \in 2..n : (IsLua(t, i) => ~IsLua(t, i - 1))
                       /\ (~IsLua(t, i) /\ ~IsLua(t, i - 1) => t[i].kind = "sink")
      BY <1>1, <1>2 DEF Stacked
    <2> QED
      BY <2>1, <2>2 DEF Stacked
  <1>4. ~IsLua(t, n)
    <2>1. n + 1 \in 2..Len(s)
      BY <1>1
    <2> QED
      BY <1>1, <1>2, <2>1 DEF Stacked
  <1>5. ASSUME Settles(s, paused) PROVE Settles(t, was)
    <2> SUFFICES ASSUME NEW i \in 1..n, ~IsLua(t, i), Known(t, i)
                 PROVE  Reopened(t, i, PausedIn(t, was, i))
      BY <1>4 DEF Settles
    <2>1. i \in Nat /\ Agree(t, s, i)
      BY <1>1 DEF Agree
    <2>2. ~IsLua(s, i) /\ i # Len(s)
      BY <1>1, <1>2
    <2>3. Known(s, i) /\ PausedIn(s, paused, i) = PausedIn(t, was, i)
      <3>1. CASE i = n
        BY <1>1, <2>2, <3>1 DEF Known, PausedIn
      <3>2. CASE i # n
        <4>1. i + 1 \in 1..n
          BY <1>1, <3>2
        <4> QED
          BY <1>1, <1>2, <2>2, <3>2, <4>1 DEF Known, PausedIn
      <3> QED
        BY <3>1, <3>2
    <2>4. i \in 1..Len(s)
      BY <1>1
    <2>5. Reopened(s, i, PausedIn(s, paused, i))
      BY <1>5, <2>2, <2>3, <2>4 DEF Settles
    <2>6. Reopened(t, i, PausedIn(s, paused, i))
      BY <2>1, <2>5, ReopenedBelow
    <2> QED
      BY <2>3, <2>6
  <1> QED
    BY <1>3, <1>4, <1>5

\* A crossing returns: everything a callback paused, or what it paused itself.
LEMMA HostPopped ==
  ASSUME NEW s, NEW t, Longer(t, s), ~IsLua(s, Len(s)), Stacked(s), NEW paused, NEW left,
         left = (IF s[Len(s)].kind = "callback" THEN {} ELSE paused \ s[Len(s)].resumes)
  PROVE  /\ Stacked(t) /\ t # <<>>
         /\ Settles(s, paused) => Settles(t, left)
  <1> DEFINE n == Len(t)
             f == s[Len(s)]
  <1>1. n \in Nat /\ Len(s) = n + 1 /\ \A i \in 1..n : s[i] = t[i]
    BY DEF Longer
  <1>2. \A i \in 1..n : IsLua(t, i) = IsLua(s, i)
    BY <1>1 DEF IsLua
  <1>3. n > 0 /\ t # <<>>
    <2>1. s # <<>> /\ s \in Seq(Frame) /\ t \in Seq(Frame)
      BY <1>1 DEF Longer
    <2>2. n # 0
      BY <1>1, <2>1 DEF Stacked
    <2> QED
      BY <1>1, <2>1, <2>2
  <1>4. Stacked(t)
    <2>1. IsLua(t, 1)
      BY <1>1, <1>2, <1>3 DEF Stacked
    <2>2. \A i \in 2..n : (IsLua(t, i) => ~IsLua(t, i - 1))
                       /\ (~IsLua(t, i) /\ ~IsLua(t, i - 1) => t[i].kind = "sink")
      BY <1>1, <1>2 DEF Stacked
    <2> QED
      BY <2>1, <2>2 DEF Stacked
  <1>5. ~IsLua(t, n) => f.kind = "sink"
    <2>1. n + 1 \in 2..Len(s)
      BY <1>1, <1>3
    <2> QED
      BY <1>1, <1>2, <1>3, <2>1 DEF Stacked
  <1>6. ASSUME Settles(s, paused) PROVE Settles(t, left)
    <2>1. f.kind = "callback" \/ Reopened(t, n, left)
      <3>1. Reopened(s, n + 1, paused)
        BY <1>1, <1>6 DEF Settles, Known, PausedIn
      <3>2. f.kind = "callback" \/ Reopened(s, n, paused \ f.resumes)
        BY <1>1, <3>1, ReopenedAbove
      <3>3. Agree(t, s, n)
        BY <1>1 DEF Agree
      <3>4. \A p : Reopened(s, n, p) => Reopened(t, n, p)
        BY <1>1, <3>3, ReopenedBelow
      <3> QED
        BY <3>2, <3>4
    <2>2. IsLua(t, n) => left = {}
      <3>1. Reopened(t, n, left) /\ IsLua(t, n) => left = {}
        BY <1>1, <1>3, ReopenedByLua
      <3> QED
        BY <2>1, <3>1
    <2>3. ASSUME NEW i \in 1..n, ~IsLua(t, i), Known(t, i)
          PROVE  Reopened(t, i, PausedIn(t, left, i))
      <3>1. CASE i = n
        <4>1. f.kind # "callback"
          BY <1>5, <2>3, <3>1
        <4>2. PausedIn(t, left, i) = left
          BY <3>1 DEF PausedIn
        <4> QED
          BY <2>1, <3>1, <4>1, <4>2
      <3>2. CASE i # n
        <4>1. i + 1 \in 1..n /\ IsLua(s, i + 1) /\ ~IsLua(s, i) /\ i # Len(s) /\ i \in 1..Len(s)
              /\ i \in Nat
          BY <1>1, <1>2, <2>3, <3>2 DEF Known
        <4>2. PausedIn(t, left, i) = PausedIn(s, paused, i)
          BY <1>1, <3>2, <4>1 DEF PausedIn
        <4>3. Reopened(s, i, PausedIn(s, paused, i))
          BY <1>6, <4>1 DEF Settles, Known
        <4>4. Agree(t, s, i)
          BY <1>1, <4>1 DEF Agree
        <4>5. Reopened(t, i, PausedIn(s, paused, i))
          BY <4>1, <4>3, <4>4, ReopenedBelow
        <4> QED
          BY <4>2, <4>5
      <3> QED
        BY <3>1, <3>2
    <2> QED
      BY <2>2, <2>3 DEF Settles
  <1> QED
    BY <1>3, <1>4, <1>6

\* A frame's return status and its charge are no business of the pauses.
Alike(s, t) ==
  /\ s \in Seq(Frame) /\ t \in Seq(Frame) /\ Len(t) = Len(s)
  /\ \A i \in 1..Len(s) :
       /\ t[i].kind = s[i].kind
       /\ t[i].wasPaused = s[i].wasPaused
       /\ t[i].resumes = s[i].resumes

LEMMA TopEdited ==
  ASSUME NEW s, NEW t, Alike(s, t), Stacked(s), NEW paused
  PROVE  Stacked(t) /\ (Settles(s, paused) => Settles(t, paused))
  <1>1. /\ Len(s) \in Nat /\ Len(t) = Len(s)
        /\ \A i \in 1..Len(s) : /\ t[i].kind = s[i].kind /\ t[i].wasPaused = s[i].wasPaused
                                /\ t[i].resumes = s[i].resumes
        /\ s = <<>> <=> Len(s) = 0
        /\ t = <<>> <=> Len(t) = 0
    BY DEF Alike
  <1>2. \A i \in 1..Len(s) : IsLua(t, i) = IsLua(s, i)
    BY <1>1 DEF IsLua
  <1>3. Stacked(t)
    <2>1. t # <<>> => IsLua(t, 1)
      BY <1>1, <1>2 DEF Stacked
    <2>2. \A i \in 2..Len(t) : (IsLua(t, i) => ~IsLua(t, i - 1))
                       /\ (~IsLua(t, i) /\ ~IsLua(t, i - 1) => t[i].kind = "sink")
      BY <1>1, <1>2 DEF Stacked
    <2> QED
      BY <2>1, <2>2 DEF Stacked
  <1>4. ASSUME Settles(s, paused), NEW i \in 1..Len(t), ~IsLua(t, i), Known(t, i)
        PROVE  Reopened(t, i, PausedIn(t, paused, i))
    <2>1. i \in 1..Len(s) /\ ~IsLua(s, i)
      BY <1>1, <1>2, <1>4
    <2>2. Known(s, i) /\ PausedIn(t, paused, i) = PausedIn(s, paused, i)
      <3>1. CASE i = Len(s)
        BY <1>1, <3>1 DEF Known, PausedIn
      <3>2. CASE i # Len(s)
        <4>1. i + 1 \in 1..Len(s)
          BY <1>1, <3>2
        <4> QED
          BY <1>1, <1>2, <1>4, <3>2, <4>1 DEF Known, PausedIn
      <3> QED
        BY <3>1, <3>2
    <2>3. Reopened(s, i, PausedIn(s, paused, i))
      BY <1>4, <2>1, <2>2 DEF Settles
    <2>4. Run(t, i) = Run(s, i) /\ \A n \in Run(s, i) : n \in 1..Len(s)
      BY <1>1, <1>2 DEF Run
    <2>5. {t[n].resumes : n \in Run(t, i)} = {s[n].resumes : n \in Run(s, i)}
      BY <1>1, <2>4
    <2>6. \A n \in Run(s, i) : t[n].kind = s[n].kind
      BY <1>1, <2>4
    <2> QED
      BY <2>2, <2>3, <2>4, <2>5, <2>6 DEF Reopened
  <1>5. Settles(s, paused) /\ t # <<>> /\ IsLua(t, Len(t)) => paused = {}
    BY <1>1, <1>2 DEF Settles
  <1> QED
    BY <1>3, <1>4, <1>5 DEF Settles

\* A callback may pause and resume as it likes: its return reopens everything.
LEMMA CallbackPauses ==
  ASSUME NEW s \in Seq(Frame), s # <<>>, s[Len(s)].kind = "callback", NEW paused, NEW other,
         Settles(s, paused)
  PROVE  Settles(s, other)
  <1> DEFINE n == Len(s)
  <1>1. n \in 1..n /\ ~IsLua(s, n)
    BY DEF IsLua
  <1>2. n \in Run(s, n)
    <2>1. \A m \in n..n : m = n
      BY <1>1
    <2> QED
      BY <1>1, <2>1 DEF Run
  <1>3. ASSUME NEW i \in 1..n, ~IsLua(s, i), Known(s, i)
        PROVE  Reopened(s, i, PausedIn(s, other, i))
    <2>1. CASE i = n
      BY <1>2, <2>1 DEF Reopened
    <2>2. CASE i # n
      <3>1. PausedIn(s, other, i) = PausedIn(s, paused, i)
        BY <2>2 DEF PausedIn
      <3>2. Reopened(s, i, PausedIn(s, paused, i))
        BY <1>3 DEF Settles
      <3> QED
        BY <3>1, <3>2
    <2> QED
      BY <2>1, <2>2
  <1> QED
    BY <1>1, <1>3 DEF Settles

-----------------------------------------------------------------------------
(* The stack                                                               *)

\* sandbox->depth is 0 with no call in progress and 1 in the outermost Lua.
LEMMA LuaCounted ==
  ASSUME stack \in Seq(Frame), Stacked(stack)
  PROVE  /\ InLua \in Nat /\ (InLua = 0 <=> stack = <<>>)
         /\ stack # <<>> /\ Top.kind = "lua" /\ InLua = 1 => Len(stack) = 1
         /\ InLua > 1 => Len(stack) > 1
  <1> DEFINE n == Len(stack)
             L == {i \in 1..n : stack[i].kind = "lua"}
  <1>1. n \in Nat /\ (stack = <<>> <=> n = 0)
    OBVIOUS
  <1>2. IsFiniteSet(1..n) /\ Cardinality(1..n) = (IF 1 > n THEN 0 ELSE n - 1 + 1)
    BY <1>1, FS_Interval
  <1>3. InLua = Cardinality(L)
    BY DEF InLua
  <1>4. L \in SUBSET (1..n)
    OBVIOUS
  <1>5. n > 0 => 1 \in L
    BY <1>1 DEF Stacked, IsLua
  <1>6. n > 0 /\ Top.kind = "lua" => n \in L
    BY <1>1 DEF Top
  <1> HIDE DEF L
  <1>7. IsFiniteSet(L) /\ Cardinality(L) <= Cardinality(1..n)
    BY <1>2, <1>4, FS_Subset
  <1>8. Cardinality(L) \in Nat
    BY <1>7, FS_CardinalityType
  <1>9. Cardinality(L) = 0 <=> L = {}
    BY <1>7, FS_EmptySet
  <1>10. Cardinality(L) = 1 => \E x : L = {x}
    BY <1>7, FS_Singleton
  <1>11. n = 0 => L = {}
    BY <1>4
  <1>12. ASSUME InLua = 1, 1 \in L, n \in L PROVE n = 1
    <2>1. PICK x : L = {x}
      BY <1>3, <1>10, <1>12
    <2> QED
      BY <1>12, <2>1
  <1>13. InLua > 1 => n > 1
    BY <1>1, <1>2, <1>3, <1>7, <1>8
  <1> QED
    BY <1>1, <1>3, <1>5, <1>6, <1>8, <1>9, <1>11, <1>12, <1>13

\* The Lua frame every host frame was called from, however deep.
LEMMA LenderFound ==
  ASSUME stack \in Seq(Frame), stack # <<>>, Stacked(stack)
  PROVE  \E k \in 1..Len(stack) :
           /\ IsLua(stack, k)
           /\ \A j \in k+1..Len(stack) : ~IsLua(stack, j)
           /\ Lent = IF k = 1 THEN Segments ELSE stack[k-1].unbilled
  <1> DEFINE n == Len(stack)
             R == OpToRel(<, Nat)
             D == {d \in Nat : d < n /\ IsLua(stack, n - d)}
             P(i) == IsLua(stack, i) /\ \A j \in i+1..n : ~IsLua(stack, j)
  <1>1. n \in Nat /\ n > 0
    OBVIOUS
  <1>2. n - 1 \in D /\ D \subseteq Nat
    BY <1>1 DEF Stacked
  <1>3. IsWellFoundedOn(R, Nat)
    BY NatLessThanWellFounded DEF OpToRel
  <1>4. \A x, y \in Nat : <<x, y>> \in R <=> x < y
    BY DEF OpToRel
  <1> HIDE DEF R
  <1>5. PICK d \in D : \A e \in D : ~(<<e, d>> \in R)
    <2> HIDE DEF D
    <2> QED
      BY <1>2, <1>3, WFMin
  <1>6. d \in Nat /\ d < n /\ IsLua(stack, n - d)
    OBVIOUS
  <1>7. ASSUME NEW j \in n-d+1..n, IsLua(stack, j) PROVE FALSE
    <2>1. n - j \in Nat /\ n - j < d /\ n - (n - j) = j
      BY <1>1, <1>6
    <2>2. n - j \in D
      BY <1>6, <1>7, <2>1
    <2> QED
      BY <1>4, <1>5, <1>6, <2>1, <2>2
  <1>8. n - d \in 1..n /\ P(n - d)
    BY <1>1, <1>6, <1>7
  <1>9. \E i \in 1..n : P(i)
    BY <1>8
  <1>10. Lent = LET k == CHOOSE i \in 1..n : P(i)
                IN  IF k = 1 THEN Segments ELSE stack[k-1].unbilled
    BY DEF Lent, IsLua
  <1> HIDE DEF P
  <1>11. PICK k : k = CHOOSE i \in 1..n : P(i)
    OBVIOUS
  <1>12. k \in 1..n /\ P(k)
    BY <1>9, <1>11
  <1>13. Lent = IF k = 1 THEN Segments ELSE stack[k-1].unbilled
    BY <1>10, <1>11
  <1> QED
    BY <1>12, <1>13 DEF P

LEMMA LentType ==
  ASSUME stack \in Seq(Frame), stack # <<>>, Stacked(stack)
  PROVE  Lent \subseteq Segments
  <1>1. PICK k \in 1..Len(stack) : Lent = IF k = 1 THEN Segments ELSE stack[k-1].unbilled
    BY LenderFound
  <1>2. k # 1 => stack[k-1] \in Frame
    <2>1. k # 1 => k - 1 \in 1..Len(stack)
      OBVIOUS
    <2> QED
      BY <2>1
  <1> QED
    BY <1>1, <1>2 DEF Frame

LEMMA AppendIsLonger ==
  ASSUME NEW s \in Seq(Frame), NEW f \in Frame, NEW t, t = Append(s, f)
  PROVE  Longer(s, t) /\ t[Len(t)] = f /\ t # <<>>
BY DEF Longer

LEMMA PoppedIsShorter ==
  ASSUME NEW s \in Seq(Frame), s # <<>>
  PROVE  Longer(SubSeq(s, 1, Len(s) - 1), s)
  <1> DEFINE l == Len(s) - 1
  <1>1. l \in 0..Len(s) /\ l + 1 = Len(s)
    OBVIOUS
  <1> HIDE DEF l
  <1>2. /\ SubSeq(s, 1, l) \in Seq(Frame) /\ Len(SubSeq(s, 1, l)) = l
        /\ \A n \in 1..l : SubSeq(s, 1, l)[n] = s[n]
    BY <1>1
  <1>3. Longer(SubSeq(s, 1, l), s)
    BY <1>1, <1>2 DEF Longer
  <1> QED
    BY <1>3 DEF l

LEMMA EditIsAlike ==
  ASSUME NEW s \in Seq(Frame), s # <<>>, NEW f \in Frame, NEW t,
         t = Append(SubSeq(s, 1, Len(s) - 1), f),
         f.kind = s[Len(s)].kind, f.wasPaused = s[Len(s)].wasPaused,
         f.resumes = s[Len(s)].resumes
  PROVE  Alike(s, t) /\ t # <<>>
  <1> DEFINE u == SubSeq(s, 1, Len(s) - 1)
  <1>1. Longer(u, s)
    BY PoppedIsShorter
  <1> HIDE DEF u
  <1>2. Longer(u, s) => /\ u \in Seq(Frame) /\ Len(s) = Len(u) + 1
                        /\ \A i \in 1..Len(u) : s[i] = u[i]
    BY DEF Longer
  <1>3. t = Append(u, f)
    BY DEF u
  <1>4. /\ t \in Seq(Frame) /\ Len(t) = Len(s) /\ t[Len(s)] = f /\ t # <<>>
        /\ \A i \in 1..Len(u) : t[i] = u[i]
    BY <1>1, <1>2, <1>3
  <1>5. \A i \in 1..Len(s) : i = Len(s) \/ i \in 1..Len(u)
    BY <1>1, <1>2
  <1> QED
    BY <1>1, <1>2, <1>4, <1>5 DEF Alike

-----------------------------------------------------------------------------
(* What each operation does to the clocks                                  *)

Effect(q, on, paused) ==
  SlotFits(q, on, Here) /\ q.paused = paused /\ SameBill(q, slot, Here)

LEMMA LuaParts ==
  ASSUME LuaInv
  PROVE  /\ now \in Nat /\ cpu \in Nat /\ stack \in Seq(Frame) /\ Stacked(stack)
         /\ Here \in Clock /\ Here.readable = TRUE
         /\ stack # <<>> => SlotFits(slot, TRUE, Here) /\ Top \in Frame
         /\ stack = <<>> => SlotFits(slot, FALSE, Here)
         /\ slot.paused \in SUBSET Segments
         /\ PausingIsForCallbacks => Settles(stack, slot.paused)
  <1>1. /\ now \in Nat /\ cpu \in Nat /\ stack \in Seq(Frame) /\ Stacked(stack)
        /\ SlotFits(slot, stack # <<>>, Here)
        /\ PausingIsForCallbacks => Settles(stack, slot.paused)
    BY DEF LuaInv, LuaFits
  <1>2. Here \in Clock /\ Here.readable = TRUE
    BY <1>1 DEF Here, Clock
  <1>3. stack # <<>> => Top \in Frame
    BY <1>1 DEF Top
  <1>4. slot.paused \in SUBSET Segments
    BY <1>1 DEF SlotFits, Slot
  <1>5. stack # <<>> => SlotFits(slot, TRUE, Here)
    <2>1. stack # <<>> => (stack # <<>>) = TRUE
      OBVIOUS
    <2> QED
      BY <1>1, <2>1
  <1>6. stack = <<>> => SlotFits(slot, FALSE, Here)
    <2>1. stack = <<>> => (stack # <<>>) = FALSE
      OBVIOUS
    <2> QED
      BY <1>1, <2>1
  <1> QED
    BY <1>1, <1>2, <1>3, <1>4, <1>5, <1>6

LEMMA LuaKept ==
  ASSUME LuaInv, UNCHANGED <<now, cpu>>, LuaFits(slot', stack', Here)
  PROVE  LuaInv'
  <1>1. Here' = Here
    BY DEF Here
  <1>2. now' \in Nat /\ cpu' \in Nat
    BY DEF LuaInv
  <1> QED
    BY <1>1, <1>2 DEF LuaInv

\* An entry leaves nothing paused, whichever kind it is.
LEMMA EnterClocks ==
  ASSUME LuaInv, EnterLua
  PROVE  Effect(slot', TRUE, {})
  <1>1. slot' = Entered(slot)
    BY DEF EnterLua
  <1>2. /\ now \in Nat /\ cpu \in Nat /\ Here \in Clock /\ Here.readable = TRUE
        /\ stack # <<>> => SlotFits(slot, TRUE, Here)
        /\ stack = <<>> => SlotFits(slot, FALSE, Here)
        /\ slot.paused \in SUBSET Segments
        /\ InLua = 0 <=> stack = <<>>
    BY LuaParts, LuaCounted
  <1>3. CASE stack = <<>>
    <2>1. slot' = Armed(slot, Here)
      BY <1>1, <1>2, <1>3 DEF Entered
    <2>2. /\ SlotFits(Armed(slot, Here), TRUE, Here) /\ Armed(slot, Here).paused = {}
          /\ SameBill(Armed(slot, Here), slot, Here)
      BY <1>2, <1>3, ArmedFits
    <2> QED
      BY <2>1, <2>2 DEF Effect
  <1>4. CASE stack # <<>>
    <2> DEFINE q == Resumed(slot, slot.paused)
    <2>1. slot' = q
      BY <1>1, <1>2, <1>4 DEF Entered
    <2>2. /\ SlotFits(q, TRUE, Here) /\ q.paused = slot.paused \ slot.paused
          /\ SameBill(q, slot, Here)
      BY <1>2, <1>4, ResumedFits
    <2> QED
      BY <2>1, <2>2 DEF Effect
  <1> QED
    BY <1>3, <1>4

\* A nested leave puts the pause back as the entry found it.
LEMMA RestoreClocks ==
  ASSUME LuaInv, stack # <<>>, NEW was \in SUBSET Segments
  PROVE  Effect(Restored(slot, was), TRUE, was)
  <1> DEFINE on == slot.paused \ was
             again == Resumed(slot, on)
             off == was \ slot.paused
             q == PausedFor(again, off, Here)
  <1>1. /\ now \in Nat /\ cpu \in Nat /\ Here \in Clock /\ Here.readable = TRUE
        /\ SlotFits(slot, TRUE, Here) /\ slot.paused \in SUBSET Segments
    BY LuaParts
  <1>2. on \in SUBSET Segments /\ off \in SUBSET Segments
    BY <1>1
  <1>3. Restored(slot, was) = IF off = {} THEN again ELSE q
    BY DEF Restored
  <1>4. SlotFits(again, TRUE, Here) /\ again.paused = slot.paused \ on /\ SameBill(again, slot, Here)
    <2> HIDE DEF on
    <2> QED
      BY <1>1, <1>2, ResumedFits
  <1>5. again.paused = slot.paused \cap was
    BY <1>4
  <1>6. CASE off = {}
    <2>1. again.paused = was
      BY <1>5, <1>6
    <2> QED
      BY <1>3, <1>4, <1>6, <2>1 DEF Effect
  <1>7. CASE off # {}
    <2>1. SlotFits(q, TRUE, Here) /\ q.paused = again.paused \cup off /\ SameBill(q, again, Here)
      <3> HIDE DEF again, off
      <3> QED
        <4>1. PICK c : c = Here
          OBVIOUS
        <4>2. c \in Clock /\ c.readable = TRUE /\ SlotFits(again, TRUE, c)
          BY <1>1, <1>4, <4>1
        <4>3. PauseKeeps(again, off, c)
          BY <1>2, <4>2, PauseIsKept
        <4> QED
          BY <4>1, <4>3 DEF PauseKeeps
    <2>2. q.paused = was
      BY <1>5, <2>1
    <2>3. SameBill(q, slot, Here)
      BY <1>4, <2>1 DEF SameBill
    <2> QED
      BY <1>3, <1>7, <2>1, <2>2, <2>3 DEF Effect
  <1> QED
    BY <1>6, <1>7

LEMMA LeaveClocks ==
  ASSUME LuaInv, LeaveLua
  PROVE  /\ Len(stack) = 1 => Effect(slot', FALSE, {})
         /\ Len(stack) > 1 => Effect(slot', TRUE, Top.wasPaused)
  <1>1. stack # <<>> /\ Top.kind = "lua"
    BY DEF LeaveLua
  <1>2. /\ Here \in Clock /\ Here.readable = TRUE /\ SlotFits(slot, TRUE, Here)
        /\ InLua = 1 => Len(stack) = 1
        /\ InLua > 1 => Len(stack) > 1
        /\ Top.wasPaused \in SUBSET Segments
    <2>1. Top \in Frame
      BY <1>1, LuaParts
    <2> QED
      BY <1>1, <2>1, LuaParts, LuaCounted DEF Frame
  <1>5. Len(stack) \in Nat /\ InLua \in Nat
    BY LuaParts, LuaCounted
  <1>6. Len(stack) > 1 => Len(stack) # 1
    <2>1. \A n \in Nat : n > 1 => n # 1
      OBVIOUS
    <2> QED
      BY <1>5, <2>1
  <1>3. CASE InLua = 1 /\ slot' = Disarmed(slot, Here)
    <2>1. SlotFits(Disarmed(slot, Here), FALSE, Here) /\ SameBill(Disarmed(slot, Here), slot, Here)
      BY <1>2, DisarmedFits
    <2>2. SlotFits(slot', FALSE, Here) /\ SameBill(slot', slot, Here)
      BY <1>3, <2>1
    <2>3. slot'.paused = {}
      BY <2>2 DEF SlotFits
    <2>4. Effect(slot', FALSE, {})
      BY <2>2, <2>3 DEF Effect
    <2>5. InLua = 1 /\ (InLua = 1 => Len(stack) = 1)
      BY <1>2, <1>3
    <2>6. ~(Len(stack) > 1)
      BY <1>5, <2>5
    <2> QED
      BY <2>4, <2>6
  <1>4. CASE InLua > 1 /\ slot' = Restored(slot, Top.wasPaused)
    <2>1. \A was \in SUBSET Segments : Effect(Restored(slot, was), TRUE, was)
      BY <1>1, RestoreClocks
    <2>2. Effect(slot', TRUE, Top.wasPaused)
      BY <1>2, <1>4, <2>1
    <2>3. InLua > 1 /\ (InLua > 1 => Len(stack) > 1)
      BY <1>2, <1>4
    <2>4. Len(stack) # 1
      <3>1. Len(stack) > 1
        BY <2>3
      <3> QED
        BY <1>6, <3>1
    <2> QED
      BY <2>2, <2>4
  <1> QED
    BY <1>3, <1>4 DEF LeaveLua

Took(kind) == IF allowPause THEN Mask(kind) ELSE {}

LEMMA CrossOutClocks ==
  ASSUME LuaInv, NEW kind \in Crossings, CrossOut(kind)
  PROVE  Took(kind) \in SUBSET Segments /\ Effect(slot', TRUE, slot.paused \cup Took(kind))
  <1>1. stack # <<>>
    BY DEF CrossOut, AtLua, AtHost
  <1>2. Here \in Clock /\ Here.readable = TRUE /\ SlotFits(slot, TRUE, Here)
    BY <1>1, LuaParts
  <1>3. Took(kind) \in SUBSET Segments
    BY DEF Took, Mask, Segments
  <1>4. slot' = IF Took(kind) = {} THEN slot ELSE PausedFor(slot, Took(kind), Here)
    BY DEF CrossOut, Took
  <1>5. CASE Took(kind) = {}
    BY <1>2, <1>4, <1>5 DEF Effect, SameBill
  <1>6. CASE Took(kind) # {}
    <2>1. PICK m \in SUBSET Segments : m = Took(kind)
      BY <1>3
    <2> DEFINE q == PausedFor(slot, m, Here)
    <2>2. SlotFits(q, TRUE, Here) /\ q.paused = slot.paused \cup m /\ SameBill(q, slot, Here)
      <3>1. PICK c : c = Here
        OBVIOUS
      <3>2. c \in Clock /\ c.readable = TRUE /\ SlotFits(slot, TRUE, c)
        BY <1>2, <3>1
      <3>3. PICK r : r = slot
        OBVIOUS
      <3>4. PauseKeeps(r, m, c)
        BY <3>2, <3>3, PauseIsKept
      <3> QED
        BY <3>1, <3>3, <3>4 DEF PauseKeeps
    <2> QED
      BY <1>4, <1>6, <2>1, <2>2 DEF Effect
  <1> QED
    BY <1>3, <1>5, <1>6

LEMMA ResumeClocks ==
  ASSUME LuaInv, stack # <<>>, NEW mask \in SUBSET Segments
  PROVE  Effect(Resumed(slot, mask), TRUE, slot.paused \ mask)
  <1>1. now \in Nat /\ cpu \in Nat /\ SlotFits(slot, TRUE, Here)
    BY LuaParts
  <1>2. /\ SlotFits(Resumed(slot, mask), TRUE, Here)
        /\ Resumed(slot, mask).paused = slot.paused \ mask
        /\ SameBill(Resumed(slot, mask), slot, Here)
    BY <1>1, ResumedFits
  <1> QED
    BY <1>2 DEF Effect

LEMMA CrossBackClocks ==
  ASSUME LuaInv, CrossBack
  PROVE  Effect(slot', TRUE, IF Top.kind = "callback" THEN {} ELSE slot.paused \ Top.resumes)
  <1>1. stack # <<>> /\ slot' = Resumed(slot, Reopens)
    BY DEF CrossBack, AtHost
  <1>2. Reopens \in SUBSET Segments
    BY <1>1, LuaParts DEF Reopens, Frame
  <1>3. \A m \in SUBSET Segments : Effect(Resumed(slot, m), TRUE, slot.paused \ m)
    BY <1>1, ResumeClocks
  <1>4. Effect(slot', TRUE, slot.paused \ Reopens)
    BY <1>1, <1>2, <1>3
  <1>5. slot.paused \ Reopens = IF Top.kind = "callback" THEN {} ELSE slot.paused \ Top.resumes
    BY DEF Reopens
  <1> QED
    BY <1>4, <1>5

LEMMA PauseClocks ==
  ASSUME LuaInv, PauseTimers
  PROVE  Effect(slot', TRUE, IF allowPause THEN Segments ELSE slot.paused)
  <1>1. stack # <<>> /\ slot' = IF allowPause THEN PausedFor(slot, Segments, Here) ELSE slot
    BY DEF PauseTimers, AtHost
  <1>2. /\ Here \in Clock /\ Here.readable = TRUE /\ SlotFits(slot, TRUE, Here)
        /\ slot.paused \in SUBSET Segments
    BY <1>1, LuaParts
  <1>3. CASE ~allowPause
    BY <1>1, <1>2, <1>3 DEF Effect, SameBill
  <1>4. CASE allowPause
    <2> DEFINE q == PausedFor(slot, Segments, Here)
    <2>1. SlotFits(q, TRUE, Here) /\ q.paused = slot.paused \cup Segments /\ SameBill(q, slot, Here)
      BY <1>2, PauseIsKept DEF PauseKeeps
    <2>2. q.paused = Segments
      BY <1>2, <2>1
    <2> QED
      BY <1>1, <1>4, <2>1, <2>2 DEF Effect
  <1> QED
    BY <1>3, <1>4

LEMMA ResumeTimersClocks ==
  ASSUME LuaInv, ResumeTimers
  PROVE  Effect(slot', TRUE, {})
  <1>1. stack # <<>> /\ slot' = Resumed(slot, Segments)
    BY DEF ResumeTimers, AtHost
  <1>2. Effect(Resumed(slot, Segments), TRUE, slot.paused \ Segments)
    BY <1>1, ResumeClocks
  <1>3. slot.paused \ Segments = {}
    BY LuaParts
  <1> QED
    BY <1>1, <1>2, <1>3

-----------------------------------------------------------------------------
(* Before Lua runs again everything is resumed                             *)

\* The effect on the clocks and the frames that stand, in one place.
LEMMA LuaStands ==
  ASSUME LuaInv, UNCHANGED <<now, cpu>>, NEW on \in BOOLEAN, NEW paused,
         Effect(slot', on, paused), stack' \in Seq(Frame), Stacked(stack'),
         on <=> stack' # <<>>,
         PausingIsForCallbacks => Settles(stack', paused)
  PROVE  LuaInv'
  <1>1. SlotFits(slot', on, Here) /\ slot'.paused = paused
    BY DEF Effect
  <1>2. on = (stack' # <<>>)
    OBVIOUS
  <1>3. SlotFits(slot', stack' # <<>>, Here)
    BY <1>1, <1>2
  <1>4. PausingIsForCallbacks => Settles(stack', slot'.paused)
    BY <1>1
  <1>5. LuaFits(slot', stack', Here)
    BY <1>3, <1>4 DEF LuaFits
  <1> QED
    BY <1>5, LuaKept

LEMMA LuaInit ==
  ASSUME Init
  PROVE  LuaInv
  <1>1. /\ now = 0 /\ cpu = 0 /\ stack = <<>> /\ Self \in Owners
    BY TimersAssumption DEF Init
  <1>2. PICK cpuNs \in Limits, wallNs \in Limits :
          slot = WithWallLimit(WithCpuLimit(Acquired(BlankSlot, Self, TRUE), cpuNs, FALSE), wallNs)
    BY DEF Init
  <1> DEFINE a == Acquired(BlankSlot, Self, TRUE)
             b == WithCpuLimit(a, cpuNs, FALSE)
  <1>3. /\ a \in Slot /\ a.clockOk = TRUE /\ a.cpuOpenFailed = FALSE /\ a.armed = FALSE
        /\ a.open = {} /\ a.paused = {} /\ a.wallBase = 0 /\ a.cpuBase = 0
    <2>1. a \in Slot
      BY <1>1, BlankSlotType, AcquiredType
    <2> QED
      BY <2>1 DEF Acquired, BlankSlot
  <1>4. cpuNs \in Nat /\ wallNs \in Nat
    BY TimersAssumption
  <1> HIDE DEF a
  <1>5. b = [a EXCEPT !.cpuLimit = cpuNs, !.cpuWallLimit = 0, !.hasLimits = cpuNs # 0 \/ a.wallLimit # 0]
    BY DEF WithCpuLimit
  <1>6. (cpuNs # 0 \/ a.wallLimit # 0) \in BOOLEAN
    OBVIOUS
  <1>7. /\ b \in Slot /\ b.clockOk = TRUE /\ b.cpuOpenFailed = FALSE /\ b.armed = FALSE
        /\ b.open = {} /\ b.paused = {} /\ b.wallBase = 0 /\ b.cpuBase = 0
    <2> HIDE DEF b
    <2> QED
      BY <1>3, <1>4, <1>5, <1>6 DEF Slot
  <1> HIDE DEF b
  <1>8. slot = [b EXCEPT !.wallLimit = wallNs, !.hasLimits = b.cpuLimit # 0 \/ wallNs # 0]
    BY <1>2 DEF WithWallLimit, a, b
  <1>9. (b.cpuLimit # 0 \/ wallNs # 0) \in BOOLEAN
    OBVIOUS
  <1>10. /\ slot \in Slot /\ slot.clockOk = TRUE /\ slot.cpuOpenFailed = FALSE
         /\ slot.armed = FALSE /\ slot.open = {} /\ slot.paused = {}
         /\ slot.wallBase = 0 /\ slot.cpuBase = 0
    BY <1>4, <1>7, <1>8, <1>9 DEF Slot
  <1>11. SlotFits(slot, FALSE, Here)
    <2>1. Here.wall = 0 /\ Here.cpu = 0
      BY <1>1 DEF Here
    <2> QED
      BY <1>10, <2>1 DEF SlotFits
  <1>12. (stack # <<>>) = FALSE
    BY <1>1
  <1>13. stack \in Seq(Frame) /\ Stacked(stack) /\ Settles(stack, {})
    <2>1. stack \in Seq(Frame) /\ Len(stack) = 0
      BY <1>1
    <2> QED
      BY <1>1, <2>1 DEF Stacked, Settles
  <1>14. SlotFits(slot, stack # <<>>, Here)
    BY <1>11, <1>12
  <1>15. Settles(stack, slot.paused)
    BY <1>10, <1>13
  <1> QED
    BY <1>1, <1>13, <1>14, <1>15 DEF LuaInv, LuaFits

\* The Lua frame an entry pushes.
LuaFrame ==
  [kind |-> "lua", wasPaused |-> slot.paused, prevAllow |-> allowPause,
   status |-> "running", resumes |-> {}, unbilled |-> {}]

LEMMA EnterKeepsLua ==
  ASSUME LuaInv, allowPause \in BOOLEAN, EnterLua
  PROVE  LuaInv'
  <1>1. /\ stack' = Append(stack, LuaFrame)
        /\ UNCHANGED <<now, cpu>>
        /\ stack = <<>> \/ (stack # <<>> /\ Top.kind # "lua")
    BY DEF EnterLua, AtHost, LuaFrame
  <1>2. /\ stack \in Seq(Frame) /\ Stacked(stack) /\ slot.paused \in SUBSET Segments
        /\ PausingIsForCallbacks => Settles(stack, slot.paused)
    BY LuaParts
  <1>3. LuaFrame \in Frame /\ LuaFrame.kind = "lua" /\ LuaFrame.wasPaused = slot.paused
    BY <1>2 DEF LuaFrame, Frame
  <1>4. Longer(stack, stack') /\ stack'[Len(stack')] = LuaFrame /\ stack' # <<>>
    BY <1>1, <1>2, <1>3, AppendIsLonger
  <1>5. IsLua(stack', Len(stack')) /\ stack'[Len(stack')].wasPaused = slot.paused
    BY <1>3, <1>4 DEF IsLua
  <1>6. stack = <<>> \/ ~IsLua(stack, Len(stack))
    BY <1>1 DEF IsLua, Top
  <1>7. Stacked(stack') /\ (Settles(stack, slot.paused) => Settles(stack', {}))
    BY <1>2, <1>4, <1>5, <1>6, LuaPushed
  <1>8. stack' \in Seq(Frame)
    BY <1>4 DEF Longer
  <1>9. Effect(slot', TRUE, {})
    BY EnterClocks
  <1> QED
    BY <1>1, <1>2, <1>4, <1>7, <1>8, <1>9, LuaStands

\* The frame a crossing pushes.
HostFrame(kind) ==
  [kind |-> kind, wasPaused |-> {}, prevAllow |-> FALSE,
   status |-> "running",
   resumes |-> IF kind = "callback" THEN {} ELSE Took(kind),
   unbilled |-> (IF AtHost THEN Top.unbilled ELSE {}) \cup (Mask(kind) \cap Lent)]

LEMMA HostFrameType ==
  ASSUME LuaInv, NEW kind \in Crossings, stack # <<>>
  PROVE  HostFrame(kind) \in Frame
  <1>1. Top.unbilled \in SUBSET Segments
    BY LuaParts DEF Frame
  <1>2. Mask(kind) \in SUBSET Segments
    BY DEF Mask, Segments
  <1>3. Took(kind) \in SUBSET Segments
    BY <1>2 DEF Took
  <1> DEFINE resumes == IF kind = "callback" THEN {} ELSE Took(kind)
             unbilled == (IF AtHost THEN Top.unbilled ELSE {}) \cup (Mask(kind) \cap Lent)
  <1>4. resumes \in SUBSET Segments /\ unbilled \in SUBSET Segments
    BY <1>1, <1>2, <1>3
  <1>5. HostFrame(kind) = [kind |-> kind, wasPaused |-> {}, prevAllow |-> FALSE,
          status |-> "running", resumes |-> resumes, unbilled |-> unbilled]
    BY DEF HostFrame
  <1> HIDE DEF resumes, unbilled
  <1> QED
    BY <1>4, <1>5 DEF Frame

LEMMA CrossOutKeepsLua ==
  ASSUME LuaInv, NEW kind \in Crossings, CrossOut(kind)
  PROVE  LuaInv'
  <1>1. /\ stack' = Append(stack, HostFrame(kind))
        /\ UNCHANGED <<now, cpu>>
        /\ stack # <<>>
        /\ Top.kind = "lua" \/ kind = "sink"
    BY DEF CrossOut, AtLua, AtHost, HostFrame, Took
  <1>2. /\ stack \in Seq(Frame) /\ Stacked(stack)
        /\ PausingIsForCallbacks => Settles(stack, slot.paused)
    BY LuaParts
  <1>3. /\ HostFrame(kind) \in Frame /\ HostFrame(kind).kind = kind /\ kind # "lua"
        /\ kind = "callback" \/ Took(kind) \subseteq HostFrame(kind).resumes
    BY <1>1, HostFrameType DEF HostFrame, Crossings
  <1>4. Longer(stack, stack') /\ stack'[Len(stack')] = HostFrame(kind) /\ stack' # <<>>
    BY <1>1, <1>2, <1>3, AppendIsLonger
  <1>5. /\ ~IsLua(stack', Len(stack'))
        /\ stack'[Len(stack')].kind = "callback" \/ Took(kind) \subseteq stack'[Len(stack')].resumes
    BY <1>3, <1>4 DEF IsLua
  <1>6. IsLua(stack, Len(stack)) \/ stack'[Len(stack')].kind = "sink"
    BY <1>1, <1>3, <1>4 DEF IsLua, Top
  <1>7. PICK took : took = Took(kind)
    OBVIOUS
  <1>8. stack'[Len(stack')].kind = "callback" \/ took \subseteq stack'[Len(stack')].resumes
    BY <1>5, <1>7
  <1>9. Stacked(stack') /\ (Settles(stack, slot.paused) => Settles(stack', slot.paused \cup took))
    BY <1>1, <1>2, <1>4, <1>5, <1>6, <1>8, HostPushed
  <1>10. stack' \in Seq(Frame)
    BY <1>4 DEF Longer
  <1>11. Effect(slot', TRUE, slot.paused \cup took)
    BY <1>7, CrossOutClocks
  <1> QED
    BY <1>1, <1>2, <1>4, <1>9, <1>10, <1>11, LuaStands

LEMMA LeaveKeepsLua ==
  ASSUME LuaInv, LeaveLua
  PROVE  LuaInv'
  <1>1. stack # <<>> /\ Top.kind = "lua" /\ stack' = Popped /\ UNCHANGED <<now, cpu>>
    BY DEF LeaveLua
  <1>2. /\ stack \in Seq(Frame) /\ Stacked(stack) /\ Len(stack) \in Nat \ {0}
        /\ PausingIsForCallbacks => Settles(stack, slot.paused)
    BY <1>1, LuaParts
  <1>3. Longer(stack', stack)
    BY <1>1, <1>2, PoppedIsShorter DEF Popped
  <1>4. stack' \in Seq(Frame) /\ Len(stack) = Len(stack') + 1
    BY <1>3 DEF Longer
  <1>5. IsLua(stack, Len(stack))
    BY <1>1 DEF IsLua, Top
  <1>6. CASE stack' = <<>>
    <2>1. Len(stack) = 1 /\ Len(stack') = 0
      BY <1>4, <1>6
    <2>2. Effect(slot', FALSE, {})
      BY <2>1, LeaveClocks
    <2>3. Stacked(stack') /\ Settles(stack', {})
      BY <1>6, <2>1 DEF Stacked, Settles
    <2> QED
      BY <1>1, <1>4, <1>6, <2>2, <2>3, LuaStands
  <1>7. CASE stack' # <<>>
    <2>1. Len(stack) > 1
      BY <1>2, <1>4, <1>7
    <2>2. Effect(slot', TRUE, Top.wasPaused)
      BY <2>1, LeaveClocks
    <2>3. /\ Stacked(stack')
          /\ Settles(stack, slot.paused) => Settles(stack', stack[Len(stack)].wasPaused)
      BY <1>2, <1>3, <1>5, <1>7, LuaPopped
    <2>4. PausingIsForCallbacks => Settles(stack', Top.wasPaused)
      BY <1>2, <2>3 DEF Top
    <2> QED
      BY <1>1, <1>4, <1>7, <2>2, <2>3, <2>4, LuaStands
  <1> QED
    BY <1>6, <1>7

LEMMA CrossBackKeepsLua ==
  ASSUME LuaInv, CrossBack
  PROVE  LuaInv'
  <1>1. stack # <<>> /\ Top.kind # "lua" /\ stack' = Popped /\ UNCHANGED <<now, cpu>>
    BY DEF CrossBack, AtHost
  <1>2. /\ stack \in Seq(Frame) /\ Stacked(stack)
        /\ PausingIsForCallbacks => Settles(stack, slot.paused)
    BY <1>1, LuaParts
  <1>3. Longer(stack', stack)
    BY <1>1, <1>2, PoppedIsShorter DEF Popped
  <1>4. stack' \in Seq(Frame)
    BY <1>3 DEF Longer
  <1>5. ~IsLua(stack, Len(stack))
    BY <1>1 DEF IsLua, Top
  <1>6. PICK left : left = IF Top.kind = "callback" THEN {} ELSE slot.paused \ Top.resumes
    OBVIOUS
  <1>7. left = (IF stack[Len(stack)].kind = "callback" THEN {}
                ELSE slot.paused \ stack[Len(stack)].resumes)
    BY <1>6 DEF Top
  <1>8. Stacked(stack') /\ stack' # <<>> /\ (Settles(stack, slot.paused) => Settles(stack', left))
    BY <1>2, <1>3, <1>5, <1>7, HostPopped
  <1>9. Effect(slot', TRUE, left)
    BY <1>6, CrossBackClocks
  <1> QED
    BY <1>1, <1>2, <1>4, <1>8, <1>9, LuaStands

\* The top frame with another return status, or another charge.
LEMMA FinishEdits ==
  ASSUME LuaInv, stack # <<>>, NEW status \in {"running", "ok", "failed"}, Finish(status)
  PROVE  Alike(stack, stack') /\ stack' # <<>>
  <1> DEFINE f == [Top EXCEPT !.status = status]
  <1>1. stack \in Seq(Frame) /\ Top \in Frame
    BY LuaParts
  <1>2. /\ f \in Frame /\ f.kind = Top.kind /\ f.wasPaused = Top.wasPaused /\ f.resumes = Top.resumes
    BY <1>1 DEF Frame
  <1>3. stack' = Append(SubSeq(stack, 1, Len(stack) - 1), f)
    BY DEF Finish, Popped
  <1> HIDE DEF f
  <1> QED
    BY <1>1, <1>2, <1>3, EditIsAlike DEF Top

LEMMA ChargeEdits ==
  ASSUME LuaInv, stack # <<>>, NEW unbilled \in SUBSET Segments, Charge(unbilled)
  PROVE  Alike(stack, stack') /\ stack' # <<>>
  <1> DEFINE f == [Top EXCEPT !.unbilled = unbilled]
  <1>1. stack \in Seq(Frame) /\ Top \in Frame
    BY LuaParts
  <1>2. /\ f \in Frame /\ f.kind = Top.kind /\ f.wasPaused = Top.wasPaused /\ f.resumes = Top.resumes
    BY <1>1 DEF Frame
  <1>3. stack' = Append(SubSeq(stack, 1, Len(stack) - 1), f)
    BY DEF Charge, Popped
  <1> HIDE DEF f
  <1> QED
    BY <1>1, <1>2, <1>3, EditIsAlike DEF Top

\* An edit of the top frame that leaves the clocks alone, or pauses at will
\* in a callback.
LEMMA EditKeepsLua ==
  ASSUME LuaInv, stack # <<>>, Alike(stack, stack'), stack' # <<>>, UNCHANGED <<now, cpu>>,
         NEW paused, Effect(slot', TRUE, paused),
         PausingIsForCallbacks => paused = slot.paused \/ Top.kind = "callback"
  PROVE  LuaInv'
  <1>1. /\ stack \in Seq(Frame) /\ Stacked(stack)
        /\ PausingIsForCallbacks => Settles(stack, slot.paused)
    BY LuaParts
  <1>2. PausingIsForCallbacks => Settles(stack, paused)
    <2>1. CASE Top.kind = "callback"
      BY <1>1, <2>1, CallbackPauses DEF Top
    <2> QED
      BY <1>1, <2>1
  <1>3. Stacked(stack') /\ (Settles(stack, paused) => Settles(stack', paused))
    BY <1>1, TopEdited
  <1>4. stack' \in Seq(Frame)
    BY DEF Alike
  <1> QED
    BY <1>2, <1>3, <1>4, LuaStands

LEMMA SameSlot ==
  ASSUME LuaInv, stack # <<>>, UNCHANGED slot
  PROVE  Effect(slot', TRUE, slot.paused)
BY LuaParts DEF Effect, SameBill

LEMMA ReturnKeepsLua ==
  ASSUME LuaInv, ReturnOk \/ ReturnError
  PROVE  LuaInv'
  <1>1. stack # <<>> /\ UNCHANGED <<slot, now, cpu>>
    BY DEF ReturnOk, ReturnError, AtLua
  <1>2. \E status \in {"running", "ok", "failed"} : Finish(status)
    BY DEF ReturnOk, ReturnError
  <1>3. Alike(stack, stack') /\ stack' # <<>>
    BY <1>1, <1>2, FinishEdits
  <1>4. Effect(slot', TRUE, slot.paused)
    BY <1>1, SameSlot
  <1> QED
    BY <1>1, <1>3, <1>4, EditKeepsLua

LEMMA PauseKeepsLua ==
  ASSUME LuaInv, PauseTimers
  PROVE  LuaInv'
  <1>1. /\ stack # <<>> /\ UNCHANGED <<now, cpu>> /\ Charge(Top.unbilled \cup Lent)
        /\ Top.kind \in Pausers
    BY DEF PauseTimers, AtHost
  <1>2. Top.unbilled \cup Lent \in SUBSET Segments
    <2>1. Top \in Frame /\ stack \in Seq(Frame) /\ Stacked(stack)
      BY <1>1, LuaParts
    <2>2. Lent \subseteq Segments
      BY <1>1, <2>1, LentType
    <2> QED
      BY <2>1, <2>2 DEF Frame
  <1>3. Alike(stack, stack') /\ stack' # <<>>
    BY <1>1, <1>2, ChargeEdits
  <1>4. PICK paused : paused = IF allowPause THEN Segments ELSE slot.paused
    OBVIOUS
  <1>5. Effect(slot', TRUE, paused)
    BY <1>4, PauseClocks
  <1>6. PausingIsForCallbacks => Top.kind = "callback"
    BY <1>1 DEF PausingIsForCallbacks
  <1> QED
    BY <1>1, <1>3, <1>5, <1>6, EditKeepsLua

LEMMA ResumeKeepsLua ==
  ASSUME LuaInv, ResumeTimers
  PROVE  LuaInv'
  <1>1. /\ stack # <<>> /\ UNCHANGED <<now, cpu>> /\ Charge({})
        /\ Top.kind \in Pausers
    BY DEF ResumeTimers, AtHost
  <1>2. {} \in SUBSET Segments
    OBVIOUS
  <1>3. Alike(stack, stack') /\ stack' # <<>>
    BY <1>1, <1>2, ChargeEdits
  <1>4. Effect(slot', TRUE, {})
    BY ResumeTimersClocks
  <1>5. PausingIsForCallbacks => Top.kind = "callback"
    BY <1>1 DEF PausingIsForCallbacks
  <1> QED
    BY <1>1, <1>3, <1>4, <1>5, EditKeepsLua

LEMMA TickKeepsLua ==
  ASSUME LuaInv, Tick
  PROVE  LuaInv'
  <1>1. /\ now' = now + 1 /\ cpu' \in {cpu, cpu + 1} /\ UNCHANGED <<slot, stack>>
    BY DEF Tick
  <1>2. /\ now \in Nat /\ cpu \in Nat /\ stack \in Seq(Frame) /\ Stacked(stack)
        /\ SlotFits(slot, stack # <<>>, Here)
        /\ PausingIsForCallbacks => Settles(stack, slot.paused)
    BY DEF LuaInv, LuaFits
  <1>3. PICK c : c = [wall |-> now', cpu |-> cpu', readable |-> TRUE]
    OBVIOUS
  <1>4. SlotFits(slot, stack # <<>>, c)
    <2>1. /\ Here.wall = now /\ Here.cpu = cpu /\ c.wall = now' /\ c.cpu = cpu'
      BY <1>3 DEF Here
    <2>2. slot.wallBase <= now /\ slot.cpuBase <= cpu /\ slot.wallBase \in Nat /\ slot.cpuBase \in Nat
      BY <1>2, <2>1 DEF SlotFits, Slot
    <2>3. slot.wallBase <= c.wall /\ slot.cpuBase <= c.cpu
      BY <1>1, <1>2, <2>1, <2>2
    <2> QED
      BY <1>2, <2>3 DEF SlotFits
  <1>5. Here' = c
    BY <1>3 DEF Here
  <1>6. now' \in Nat /\ cpu' \in Nat
    BY <1>1, <1>2
  <1>7. LuaFits(slot', stack', c)
    BY <1>1, <1>2, <1>4 DEF LuaFits
  <1> QED
    BY <1>5, <1>6, <1>7 DEF LuaInv

-----------------------------------------------------------------------------
(* Lua and host frames in turn, each host frame with its own pause         *)

\* luaext_timers_enter_lua: the entry may pause below if its caller paused.
LEMMA FramesLuaPushed ==
  ASSUME NEW s, NEW t, Longer(s, t), IsLua(t, Len(t)), NEW paused, NEW allow, NEW may,
         s = <<>> \/ (~IsLua(s, Len(s)) /\ s[Len(s)].kind # "backend" /\ Len(s) > 1),
         t[Len(t)].wasPaused = paused, t[Len(t)].prevAllow = allow,
         may = (s = <<>> \/ paused # {}),
         FollowsTheFrames(s, paused, allow)
  PROVE  FollowsTheFrames(t, {}, may)
  <1> DEFINE n == Len(s)
  <1>1. n \in Nat /\ Len(t) = n + 1 /\ \A i \in 1..n : t[i] = s[i]
    BY DEF Longer
  <1>2. s = <<>> <=> n = 0
    BY DEF Longer
  <1>3. \A i \in 1..n : IsLua(t, i) = IsLua(s, i)
    BY <1>1 DEF IsLua
  <1>4. n # 0 => ~IsLua(s, n) /\ s[n].kind # "backend" /\ n > 1
    BY <1>2
  <1>5. \A i \in 2..Len(t) : IsLua(t, i) <=> ~IsLua(t, i - 1)
    <2>1. \A i \in 2..n : IsLua(t, i) <=> ~IsLua(t, i - 1)
      BY <1>1, <1>3 DEF FollowsTheFrames
    <2>2. n # 0 => ~IsLua(t, n)
      BY <1>1, <1>3, <1>4
    <2> QED
      BY <1>1, <2>1, <2>2
  <1>6. ASSUME NEW i \in 2..Len(t), ~IsLua(t, i)
        PROVE  /\ PausedIn(t, {}, i) = t[i].unbilled
               /\ t[i].unbilled \subseteq LentTo(t, i)
               /\ t[i].kind # "backend" => t[i].unbilled \in {{}, Segments}
               /\ i < Len(t) => t[i].kind # "backend"
    <2>1. i \in 2..n /\ i \in 1..n /\ ~IsLua(s, i) /\ t[i] = s[i] /\ i # Len(t)
      BY <1>1, <1>3, <1>6
    <2>2. /\ PausedIn(s, paused, i) = s[i].unbilled
          /\ s[i].unbilled \subseteq LentTo(s, i)
          /\ s[i].kind # "backend" => s[i].unbilled \in {{}, Segments}
          /\ i < n => s[i].kind # "backend"
      BY <2>1 DEF FollowsTheFrames
    <2>3. PausedIn(t, {}, i) = PausedIn(s, paused, i)
      <3>1. CASE i = n
        BY <1>1, <2>1, <3>1 DEF PausedIn
      <3>2. CASE i # n
        <4>1. i + 1 \in 1..n
          BY <1>1, <2>1, <3>2
        <4> QED
          BY <1>1, <2>1, <3>2, <4>1 DEF PausedIn
      <3> QED
        BY <3>1, <3>2
    <2>4. LentTo(t, i) = LentTo(s, i)
      <3>1. i # 2 => i - 2 \in 1..n
        BY <1>1, <2>1
      <3> QED
        BY <1>1, <3>1 DEF LentTo
    <2>5. s[i].kind # "backend"
      <3>1. i = n \/ i < n
        BY <1>1, <2>1
      <3>2. i = n => s[i].kind # "backend"
        BY <1>1, <1>4, <2>1
      <3> QED
        BY <2>2, <3>1, <3>2
    <2> QED
      BY <2>1, <2>2, <2>3, <2>4, <2>5
  <1>7. ASSUME NEW i \in 1..Len(t), IsLua(t, i)
        PROVE  (IF i + 1 < Len(t) THEN t[i+2].prevAllow ELSE may) = Lends(t, i)
    <2>1. CASE i = n + 1
      <3>1. ~(i + 1 < Len(t))
        BY <1>1, <2>1
      <3>2. CASE n = 0
        BY <1>1, <1>2, <2>1, <3>1, <3>2 DEF Lends
      <3>3. CASE n # 0
        <4>1. n \in 2..n /\ ~IsLua(s, n) /\ s # <<>>
          BY <1>1, <1>2, <1>4, <3>3
        <4>2. PausedIn(s, paused, n) = s[n].unbilled
          BY <4>1 DEF FollowsTheFrames
        <4>3. paused = s[n].unbilled
          BY <4>2 DEF PausedIn
        <4>4. i - 1 = n /\ t[n] = s[n] /\ i # 1
          BY <1>1, <2>1, <3>3
        <4> QED
          BY <3>1, <4>1, <4>3, <4>4 DEF Lends
      <3> QED
        BY <3>2, <3>3
    <2>2. CASE i # n + 1
      <3>1. i \in 1..n /\ IsLua(s, i) /\ n # 0 /\ i # n /\ i + 1 <= n
        BY <1>1, <1>3, <1>4, <1>7, <2>2
      <3>2. (IF i + 1 < n THEN s[i+2].prevAllow ELSE allow) = Lends(s, i)
        BY <3>1 DEF FollowsTheFrames
      <3>3. Lends(t, i) = Lends(s, i)
        <4>1. i # 1 => i - 1 \in 1..n
          BY <1>1, <3>1
        <4> QED
          BY <1>1, <4>1 DEF Lends
      <3>4. i + 1 < Len(t)
        BY <1>1, <3>1
      <3>5. CASE i + 1 < n
        <4>1. i + 2 \in 1..n
          BY <1>1, <3>1, <3>5
        <4> QED
          BY <1>1, <3>2, <3>3, <3>4, <3>5, <4>1
      <3>6. CASE ~(i + 1 < n)
        <4>1. i + 2 = Len(t)
          BY <1>1, <3>1, <3>6
        <4> QED
          BY <3>2, <3>3, <3>4, <3>6, <4>1
      <3> QED
        BY <3>5, <3>6
    <2> QED
      BY <2>1, <2>2
  <1> QED
    BY <1>5, <1>6, <1>7 DEF FollowsTheFrames

\* A crossing from Lua pauses what its caller lent it, and says so.
LEMMA FramesHostPushed ==
  ASSUME NEW s, NEW t, Longer(s, t), ~IsLua(t, Len(t)), s # <<>>, IsLua(s, Len(s)),
         NEW allow, NEW took,
         took = t[Len(t)].unbilled, took \subseteq LentTo(t, Len(t)),
         t[Len(t)].kind # "backend" => took \in {{}, Segments},
         FollowsTheFrames(s, {}, allow)
  PROVE  FollowsTheFrames(t, took, allow)
  <1> DEFINE n == Len(s)
  <1>1. n \in Nat /\ n > 0 /\ Len(t) = n + 1 /\ \A i \in 1..n : t[i] = s[i]
    BY DEF Longer
  <1>3. \A i \in 1..n : IsLua(t, i) = IsLua(s, i)
    BY <1>1 DEF IsLua
  <1>5. \A i \in 2..Len(t) : IsLua(t, i) <=> ~IsLua(t, i - 1)
    <2>1. \A i \in 2..n : IsLua(t, i) <=> ~IsLua(t, i - 1)
      BY <1>1, <1>3 DEF FollowsTheFrames
    <2>2. IsLua(t, n) /\ ~IsLua(t, n + 1)
      BY <1>1, <1>3
    <2> QED
      BY <1>1, <2>1, <2>2
  <1>6. ASSUME NEW i \in 2..Len(t), ~IsLua(t, i)
        PROVE  /\ PausedIn(t, took, i) = t[i].unbilled
               /\ t[i].unbilled \subseteq LentTo(t, i)
               /\ t[i].kind # "backend" => t[i].unbilled \in {{}, Segments}
               /\ i < Len(t) => t[i].kind # "backend"
    <2>1. CASE i = n + 1
      <3>1. i = Len(t) /\ ~(i < Len(t))
        BY <1>1, <2>1
      <3> QED
        BY <3>1 DEF PausedIn
    <2>2. CASE i # n + 1
      <3>1. i \in 2..n /\ i \in 1..n /\ ~IsLua(s, i) /\ t[i] = s[i] /\ i # Len(t) /\ i # n /\ i < n
        BY <1>1, <1>3, <1>6, <2>2
      <3>2. /\ PausedIn(s, {}, i) = s[i].unbilled
            /\ s[i].unbilled \subseteq LentTo(s, i)
            /\ s[i].kind # "backend" => s[i].unbilled \in {{}, Segments}
            /\ s[i].kind # "backend"
        BY <3>1 DEF FollowsTheFrames
      <3>3. PausedIn(t, took, i) = PausedIn(s, {}, i)
        <4>1. i + 1 \in 1..n
          BY <1>1, <3>1
        <4> QED
          BY <1>1, <3>1, <4>1 DEF PausedIn
      <3>4. LentTo(t, i) = LentTo(s, i)
        <4>1. i # 2 => i - 2 \in 1..n
          BY <1>1, <3>1
        <4> QED
          BY <1>1, <4>1 DEF LentTo
      <3> QED
        BY <3>1, <3>2, <3>3, <3>4
    <2> QED
      BY <2>1, <2>2
  <1>7. ASSUME NEW i \in 1..Len(t), IsLua(t, i)
        PROVE  (IF i + 1 < Len(t) THEN t[i+2].prevAllow ELSE allow) = Lends(t, i)
    <2>1. i \in 1..n /\ IsLua(s, i)
      BY <1>1, <1>3, <1>7
    <2>2. (IF i + 1 < n THEN s[i+2].prevAllow ELSE allow) = Lends(s, i)
      BY <2>1 DEF FollowsTheFrames
    <2>3. Lends(t, i) = Lends(s, i)
      <3>1. i # 1 => i - 1 \in 1..n
        BY <1>1, <2>1
      <3> QED
        BY <1>1, <3>1 DEF Lends
    <2>4. CASE i = n
      <3>1. ~(i + 1 < n) /\ ~(i + 1 < Len(t))
        BY <1>1, <2>4
      <3> QED
        BY <2>2, <2>3, <3>1
    <2>5. CASE i # n
      <3>1. i + 1 # n
        <4>1. i + 1 \in 2..n
          BY <1>1, <2>1, <2>5
        <4>2. IsLua(s, i + 1) <=> ~IsLua(s, i + 1 - 1)
          BY <4>1 DEF FollowsTheFrames
        <4>3. ~IsLua(s, i + 1)
          BY <1>1, <2>1, <4>2
        <4> QED
          BY <4>3
      <3>2. i + 1 < n /\ i + 1 < Len(t) /\ i + 2 \in 1..n
        BY <1>1, <2>1, <2>5, <3>1
      <3> QED
        BY <1>1, <2>2, <2>3, <3>2
    <2> QED
      BY <2>4, <2>5
  <1> QED
    BY <1>5, <1>6, <1>7 DEF FollowsTheFrames

\* luaext_timers_leave_lua puts back what the entry saved.
LEMMA FramesLuaPopped ==
  ASSUME NEW s, NEW t, Longer(t, s), t # <<>>, IsLua(s, Len(s)), NEW paused, NEW allow,
         FollowsTheFrames(s, paused, allow)
  PROVE  FollowsTheFrames(t, s[Len(s)].wasPaused, s[Len(s)].prevAllow)
  <1> DEFINE n == Len(t)
             was == s[Len(s)].wasPaused
             prev == s[Len(s)].prevAllow
  <1>1. n \in Nat /\ n > 0 /\ Len(s) = n + 1 /\ \A i \in 1..n : t[i] = s[i]
    BY DEF Longer
  <1>3. \A i \in 1..n : IsLua(t, i) = IsLua(s, i)
    BY <1>1 DEF IsLua
  <1>4. ~IsLua(t, n)
    <2>1. n + 1 \in 2..Len(s) /\ n + 1 - 1 = n
      BY <1>1
    <2> QED
      BY <1>1, <1>3, <2>1 DEF FollowsTheFrames
  <1>5. \A i \in 2..n : IsLua(t, i) <=> ~IsLua(t, i - 1)
    BY <1>1, <1>3 DEF FollowsTheFrames
  <1>6. ASSUME NEW i \in 2..n, ~IsLua(t, i)
        PROVE  /\ PausedIn(t, was, i) = t[i].unbilled
               /\ t[i].unbilled \subseteq LentTo(t, i)
               /\ t[i].kind # "backend" => t[i].unbilled \in {{}, Segments}
               /\ i < Len(t) => t[i].kind # "backend"
    <2>1. i \in 2..Len(s) /\ i \in 1..n /\ ~IsLua(s, i) /\ t[i] = s[i] /\ i # Len(s) /\ i < Len(s)
      BY <1>1, <1>3, <1>6
    <2>2. /\ PausedIn(s, paused, i) = s[i].unbilled
          /\ s[i].unbilled \subseteq LentTo(s, i)
          /\ s[i].kind # "backend" => s[i].unbilled \in {{}, Segments}
          /\ s[i].kind # "backend"
      BY <2>1 DEF FollowsTheFrames
    <2>3. PausedIn(t, was, i) = PausedIn(s, paused, i)
      <3>1. CASE i = n
        BY <1>1, <2>1, <3>1 DEF PausedIn
      <3>2. CASE i # n
        <4>1. i + 1 \in 1..n
          BY <1>1, <2>1, <3>2
        <4> QED
          BY <1>1, <2>1, <3>2, <4>1 DEF PausedIn
      <3> QED
        BY <3>1, <3>2
    <2>4. LentTo(t, i) = LentTo(s, i)
      <3>1. i # 2 => i - 2 \in 1..n
        BY <1>1, <2>1
      <3> QED
        BY <1>1, <3>1 DEF LentTo
    <2> QED
      BY <2>1, <2>2, <2>3, <2>4
  <1>7. ASSUME NEW i \in 1..n, IsLua(t, i)
        PROVE  (IF i + 1 < n THEN t[i+2].prevAllow ELSE prev) = Lends(t, i)
    <2>1. i \in 1..Len(s) /\ IsLua(s, i) /\ i # n
      BY <1>1, <1>3, <1>4, <1>7
    <2>2. (IF i + 1 < Len(s) THEN s[i+2].prevAllow ELSE allow) = Lends(s, i)
      BY <2>1 DEF FollowsTheFrames
    <2>3. Lends(t, i) = Lends(s, i)
      <3>1. i # 1 => i - 1 \in 1..n
        BY <1>1, <2>1
      <3> QED
        BY <1>1, <3>1 DEF Lends
    <2>4. i + 1 < Len(s)
      BY <1>1, <2>1
    <2>5. CASE i + 1 < n
      <3>1. i + 2 \in 1..n
        BY <1>1, <2>1, <2>5
      <3> QED
        BY <1>1, <2>2, <2>3, <2>4, <2>5, <3>1
    <2>6. CASE ~(i + 1 < n)
      <3>1. i + 2 = Len(s)
        BY <1>1, <2>1, <2>6
      <3> QED
        BY <2>2, <2>3, <2>4, <2>6, <3>1
    <2> QED
      BY <2>5, <2>6
  <1> QED
    BY <1>5, <1>6, <1>7 DEF FollowsTheFrames

\* A host frame that returns leaves Lua's frame with nothing paused.
LEMMA FramesHostPopped ==
  ASSUME NEW s, NEW t, Longer(t, s), t # <<>>, ~IsLua(s, Len(s)), NEW paused, NEW allow,
         FollowsTheFrames(s, paused, allow)
  PROVE  FollowsTheFrames(t, {}, allow) /\ IsLua(t, Len(t))
  <1> DEFINE n == Len(t)
  <1>1. n \in Nat /\ n > 0 /\ Len(s) = n + 1 /\ \A i \in 1..n : t[i] = s[i]
    BY DEF Longer
  <1>3. \A i \in 1..n : IsLua(t, i) = IsLua(s, i)
    BY <1>1 DEF IsLua
  <1>4. IsLua(t, n)
    <2>1. n + 1 \in 2..Len(s) /\ n + 1 - 1 = n
      BY <1>1
    <2> QED
      BY <1>1, <1>3, <2>1 DEF FollowsTheFrames
  <1>5. \A i \in 2..n : IsLua(t, i) <=> ~IsLua(t, i - 1)
    BY <1>1, <1>3 DEF FollowsTheFrames
  <1>6. ASSUME NEW i \in 2..n, ~IsLua(t, i)
        PROVE  /\ PausedIn(t, {}, i) = t[i].unbilled
               /\ t[i].unbilled \subseteq LentTo(t, i)
               /\ t[i].kind # "backend" => t[i].unbilled \in {{}, Segments}
               /\ i < Len(t) => t[i].kind # "backend"
    <2>1. i \in 2..Len(s) /\ i \in 1..n /\ ~IsLua(s, i) /\ t[i] = s[i] /\ i # Len(s) /\ i < Len(s)
          /\ i # n
      BY <1>1, <1>3, <1>4, <1>6
    <2>2. /\ PausedIn(s, paused, i) = s[i].unbilled
          /\ s[i].unbilled \subseteq LentTo(s, i)
          /\ s[i].kind # "backend" => s[i].unbilled \in {{}, Segments}
          /\ s[i].kind # "backend"
      BY <2>1 DEF FollowsTheFrames
    <2>3. PausedIn(t, {}, i) = PausedIn(s, paused, i)
      <3>1. i + 1 \in 1..n
        BY <1>1, <2>1
      <3> QED
        BY <1>1, <2>1, <3>1 DEF PausedIn
    <2>4. LentTo(t, i) = LentTo(s, i)
      <3>1. i # 2 => i - 2 \in 1..n
        BY <1>1, <2>1
      <3> QED
        BY <1>1, <3>1 DEF LentTo
    <2> QED
      BY <2>1, <2>2, <2>3, <2>4
  <1>7. ASSUME NEW i \in 1..n, IsLua(t, i)
        PROVE  (IF i + 1 < n THEN t[i+2].prevAllow ELSE allow) = Lends(t, i)
    <2>1. i \in 1..Len(s) /\ IsLua(s, i)
      BY <1>1, <1>3, <1>7
    <2>2. (IF i + 1 < Len(s) THEN s[i+2].prevAllow ELSE allow) = Lends(s, i)
      BY <2>1 DEF FollowsTheFrames
    <2>3. Lends(t, i) = Lends(s, i)
      <3>1. i # 1 => i - 1 \in 1..n
        BY <1>1, <2>1
      <3> QED
        BY <1>1, <3>1 DEF Lends
    <2>4. CASE i = n
      <3>1. ~(i + 1 < n) /\ ~(i + 1 < Len(s))
        BY <1>1, <2>4
      <3> QED
        BY <2>2, <2>3, <3>1
    <2>5. CASE i # n
      <3>1. i + 1 # n
        <4>1. i + 1 \in 2..n
          BY <1>1, <2>1, <2>5
        <4>2. IsLua(t, i + 1) <=> ~IsLua(t, i + 1 - 1)
          BY <1>5, <4>1
        <4>3. ~IsLua(t, i + 1)
          BY <1>1, <1>7, <4>2
        <4> QED
          BY <1>4, <4>3
      <3>2. i + 1 < n /\ i + 1 < Len(s) /\ i + 2 \in 1..n
        BY <1>1, <2>1, <2>5, <3>1
      <3> QED
        BY <1>1, <2>2, <2>3, <3>2
    <2> QED
      BY <2>4, <2>5
  <1> QED
    BY <1>4, <1>5, <1>6, <1>7 DEF FollowsTheFrames

\* The stack t is s with the top frame's status or charge edited.
Charged(s, t) ==
  /\ s \in Seq(Frame) /\ t \in Seq(Frame) /\ Len(t) = Len(s) /\ s # <<>>
  /\ \A i \in 1..(Len(s) - 1) : t[i] = s[i]
  /\ t[Len(s)].kind = s[Len(s)].kind
  /\ t[Len(s)].wasPaused = s[Len(s)].wasPaused
  /\ t[Len(s)].prevAllow = s[Len(s)].prevAllow

\* A charge that comes with the pause it stands for.
LEMMA FramesCharged ==
  ASSUME NEW s, NEW t, Charged(s, t), NEW paused, NEW unbilled, NEW allow,
         \/ IsLua(s, Len(s))
         \/ /\ unbilled = t[Len(s)].unbilled
            /\ unbilled \subseteq LentTo(s, Len(s))
            /\ s[Len(s)].kind # "backend" => unbilled \in {{}, Segments},
         FollowsTheFrames(s, paused, allow)
  PROVE  FollowsTheFrames(t, unbilled, allow)
  <1> DEFINE n == Len(s)
  <1>1. /\ n \in Nat /\ n > 0 /\ Len(t) = n /\ \A i \in 1..(n - 1) : t[i] = s[i]
        /\ t[n].kind = s[n].kind /\ t[n].wasPaused = s[n].wasPaused
        /\ t[n].prevAllow = s[n].prevAllow
    BY DEF Charged
  <1>2. \A i \in 1..n : i = n \/ i \in 1..(n - 1)
    BY <1>1
  <1>3. \A i \in 1..n : /\ IsLua(t, i) = IsLua(s, i) /\ t[i].kind = s[i].kind
                        /\ t[i].wasPaused = s[i].wasPaused /\ t[i].prevAllow = s[i].prevAllow
    BY <1>1, <1>2 DEF IsLua
  <1>5. \A i \in 2..n : IsLua(t, i) <=> ~IsLua(t, i - 1)
    BY <1>1, <1>3 DEF FollowsTheFrames
  <1>6. ASSUME NEW i \in 2..n, ~IsLua(t, i)
        PROVE  /\ PausedIn(t, unbilled, i) = t[i].unbilled
               /\ t[i].unbilled \subseteq LentTo(t, i)
               /\ t[i].kind # "backend" => t[i].unbilled \in {{}, Segments}
               /\ i < n => t[i].kind # "backend"
    <2>1. ~IsLua(s, i) /\ t[i].kind = s[i].kind
      BY <1>1, <1>3, <1>6
    <2>2. /\ PausedIn(s, paused, i) = s[i].unbilled
          /\ s[i].unbilled \subseteq LentTo(s, i)
          /\ s[i].kind # "backend" => s[i].unbilled \in {{}, Segments}
          /\ i < n => s[i].kind # "backend"
      BY <2>1 DEF FollowsTheFrames
    <2>3. LentTo(t, i) = LentTo(s, i)
      <3>1. i # 2 => i - 2 \in 1..(n - 1)
        BY <1>1
      <3> QED
        BY <1>1, <3>1 DEF LentTo
    <2>4. CASE i = n
      <3>1. PausedIn(t, unbilled, i) = unbilled
        BY <1>1, <2>4 DEF PausedIn
      <3> QED
        BY <1>1, <2>1, <2>3, <2>4, <3>1
    <2>5. CASE i # n
      <3>1. i \in 1..(n - 1) /\ i + 1 \in 1..n
        BY <1>1, <2>5
      <3>2. PausedIn(t, unbilled, i) = PausedIn(s, paused, i)
        BY <1>1, <1>3, <2>5, <3>1 DEF PausedIn
      <3> QED
        BY <1>1, <2>1, <2>2, <2>3, <3>1, <3>2
    <2> QED
      BY <2>4, <2>5
  <1>7. ASSUME NEW i \in 1..n, IsLua(t, i)
        PROVE  (IF i + 1 < n THEN t[i+2].prevAllow ELSE allow) = Lends(t, i)
    <2>1. IsLua(s, i)
      BY <1>3, <1>7
    <2>2. (IF i + 1 < n THEN s[i+2].prevAllow ELSE allow) = Lends(s, i)
      BY <2>1 DEF FollowsTheFrames
    <2>3. Lends(t, i) = Lends(s, i)
      <3>1. i # 1 => i - 1 \in 1..(n - 1)
        BY <1>1
      <3> QED
        BY <1>1, <3>1 DEF Lends
    <2>4. i + 1 < n => t[i+2].prevAllow = s[i+2].prevAllow
      <3>1. i + 1 < n => i + 2 \in 1..n
        BY <1>1
      <3> QED
        BY <1>3, <3>1
    <2> QED
      BY <2>2, <2>3, <2>4
  <1> QED
    BY <1>1, <1>5, <1>6, <1>7 DEF FollowsTheFrames

\* What a crossing may un-bill is all or nothing, and allow_pause says which.
LEMMA LentIsAllOrNothing ==
  ASSUME LuaInv, allowPause \in BOOLEAN, stack # <<>>,
         FollowsTheFrames(stack, slot.paused, allowPause)
  PROVE  /\ Lent = IF allowPause THEN Segments ELSE {}
         /\ Top.kind = "lua" =>
              Lent = IF Len(stack) = 1 THEN Segments ELSE stack[Len(stack) - 1].unbilled
         /\ Top.kind # "lua" => Len(stack) > 1 /\ Lent = LentTo(stack, Len(stack))
  <1> DEFINE n == Len(stack)
  <1>1. stack \in Seq(Frame) /\ Stacked(stack) /\ n \in Nat /\ n > 0 /\ IsLua(stack, 1)
    BY LuaParts DEF Stacked
  <1>2. PICK k \in 1..n :
           /\ IsLua(stack, k)
           /\ \A j \in k+1..n : ~IsLua(stack, j)
           /\ Lent = IF k = 1 THEN Segments ELSE stack[k-1].unbilled
    BY <1>1, LenderFound
  <1>3. \A i \in 2..n : IsLua(stack, i) <=> ~IsLua(stack, i - 1)
    BY DEF FollowsTheFrames
  <1>4. k + 1 >= n
    <2> SUFFICES ASSUME k + 1 < n PROVE FALSE
      BY <1>1
    <2>1. k + 2 \in 2..n /\ k + 2 \in k+1..n /\ k + 1 \in k+1..n /\ k + 2 - 1 = k + 1
      BY <1>1
    <2> QED
      BY <1>2, <1>3, <2>1
  <1>5. ~(k + 1 < n)
    BY <1>1, <1>4
  <1>6. allowPause = Lends(stack, k)
    BY <1>2, <1>5 DEF FollowsTheFrames
  <1>7. Lent = IF allowPause THEN Segments ELSE {}
    <2>1. CASE k = 1
      BY <1>2, <1>6, <2>1 DEF Lends
    <2>2. CASE k # 1
      <3>1. k \in 2..n /\ ~IsLua(stack, k - 1)
        BY <1>1, <1>2, <1>3, <2>2
      <3>2. k - 1 \in 2..n /\ k - 1 < n
        <4>1. k # 2
          BY <1>1, <3>1
        <4> QED
          BY <3>1, <4>1
      <3>3. stack[k-1].unbilled \in {{}, Segments}
        BY <3>1, <3>2 DEF FollowsTheFrames
      <3>4. Segments # {}
        BY DEF Segments
      <3> QED
        BY <1>2, <1>6, <2>2, <3>3, <3>4 DEF Lends
    <2> QED
      BY <2>1, <2>2
  <1>8. Top.kind = "lua" => k = n
    <2>1. Top.kind = "lua" => IsLua(stack, n)
      BY DEF Top, IsLua
    <2>2. k # n => n \in k+1..n
      BY <1>1
    <2> QED
      BY <1>2, <2>1, <2>2
  <1>9. Top.kind # "lua" => n > 1 /\ k = n - 1
    <2>1. Top.kind # "lua" => ~IsLua(stack, n)
      BY DEF Top, IsLua
    <2>2. Top.kind # "lua" => k # n /\ n # 1
      BY <1>1, <1>2, <2>1
    <2> QED
      BY <1>1, <1>4, <2>2
  <1>10. Top.kind = "lua" => Lent = IF n = 1 THEN Segments ELSE stack[n-1].unbilled
    BY <1>2, <1>8
  <1>11. Top.kind # "lua" => Lent = LentTo(stack, n)
    <2>1. n > 1 /\ k = n - 1 => (k = 1 <=> n = 2) /\ k - 1 = n - 2
      BY <1>1
    <2> QED
      BY <1>2, <1>9, <2>1 DEF LentTo
  <1> QED
    BY <1>7, <1>9, <1>10, <1>11

LEMMA LentAbove ==
  ASSUME NEW s, NEW t, Longer(s, t), s # <<>>
  PROVE  LentTo(t, Len(t)) = IF Len(s) = 1 THEN Segments ELSE s[Len(s) - 1].unbilled
  <1>1. Len(s) \in Nat \ {0} /\ Len(t) = Len(s) + 1 /\ \A i \in 1..Len(s) : t[i] = s[i]
    BY DEF Longer
  <1>2. CASE Len(s) = 1
    BY <1>1, <1>2 DEF LentTo
  <1>3. CASE Len(s) # 1
    <2>1. Len(t) # 2 /\ Len(t) - 2 = Len(s) - 1 /\ Len(s) - 1 \in 1..Len(s)
      BY <1>1, <1>3
    <2> QED
      BY <1>1, <1>3, <2>1 DEF LentTo
  <1> QED
    BY <1>2, <1>3

LEMMA EnterFollows ==
  ASSUME LuaInv, allowPause \in BOOLEAN, Plain, EnterLua,
         FollowsTheFrames(stack, slot.paused, allowPause)
  PROVE  FollowsTheFrames(stack', slot'.paused, allowPause')
  <1>1. /\ stack' = Append(stack, LuaFrame)
        /\ stack = <<>> \/ (stack # <<>> /\ Top.kind # "lua" /\ Top.kind \in Reentrants)
        /\ allowPause' = (InLua = 0 \/ slot.paused # {})
    BY DEF EnterLua, AtHost, LuaFrame, MayPause
  <1>2. /\ stack \in Seq(Frame) /\ Stacked(stack) /\ slot.paused \in SUBSET Segments
        /\ InLua = 0 <=> stack = <<>>
    BY LuaParts, LuaCounted
  <1>3. LuaFrame \in Frame /\ LuaFrame.kind = "lua" /\ LuaFrame.wasPaused = slot.paused
        /\ LuaFrame.prevAllow = allowPause
    BY <1>2 DEF LuaFrame, Frame
  <1>4. Longer(stack, stack') /\ stack'[Len(stack')] = LuaFrame
    BY <1>1, <1>2, <1>3, AppendIsLonger
  <1>5. /\ IsLua(stack', Len(stack')) /\ stack'[Len(stack')].wasPaused = slot.paused
        /\ stack'[Len(stack')].prevAllow = allowPause
    BY <1>3, <1>4 DEF IsLua
  <1>6. stack = <<>> \/ (/\ ~IsLua(stack, Len(stack)) /\ stack[Len(stack)].kind # "backend"
                         /\ Len(stack) > 1)
    <2> SUFFICES ASSUME stack # <<>>
                 PROVE  /\ ~IsLua(stack, Len(stack)) /\ stack[Len(stack)].kind # "backend"
                        /\ Len(stack) > 1
      OBVIOUS
    <2>1. ~IsLua(stack, Len(stack)) /\ stack[Len(stack)].kind # "backend"
      BY <1>1 DEF Plain, IsLua, Top
    <2>2. IsLua(stack, 1) /\ Len(stack) \in Nat \ {0}
      BY <1>2 DEF Stacked
    <2>3. Len(stack) # 1
      BY <2>1, <2>2
    <2> QED
      BY <2>1, <2>2, <2>3
  <1>7. allowPause' = (stack = <<>> \/ slot.paused # {})
    BY <1>1, <1>2
  <1>8. FollowsTheFrames(stack', {}, allowPause')
    BY <1>4, <1>5, <1>6, <1>7, FramesLuaPushed
  <1>9. slot'.paused = {}
    BY EnterClocks DEF Effect
  <1> QED
    BY <1>8, <1>9

LEMMA CrossOutFollows ==
  ASSUME LuaInv, allowPause \in BOOLEAN, Plain, NEW kind \in Crossings, CrossOut(kind),
         FollowsTheFrames(stack, slot.paused, allowPause)
  PROVE  FollowsTheFrames(stack', slot'.paused, allowPause')
  <1>1. /\ stack' = Append(stack, HostFrame(kind))
        /\ stack # <<>> /\ Top.kind = "lua" /\ allowPause' = allowPause
    BY DEF CrossOut, AtLua, AtHost, HostFrame, Took, Plain
  <1>2. /\ stack \in Seq(Frame) /\ Stacked(stack) /\ Settles(stack, slot.paused)
        /\ IsLua(stack, Len(stack)) /\ Len(stack) \in Nat \ {0}
    BY <1>1, LuaParts DEF Plain, IsLua, Top
  <1>3. slot.paused = {}
    BY <1>1, <1>2 DEF Settles
  <1>4. /\ Lent = IF allowPause THEN Segments ELSE {}
        /\ Lent = IF Len(stack) = 1 THEN Segments ELSE stack[Len(stack) - 1].unbilled
    BY <1>1, LentIsAllOrNothing
  <1>5. /\ HostFrame(kind) \in Frame /\ HostFrame(kind).kind = kind /\ kind # "lua"
        /\ HostFrame(kind).unbilled = Mask(kind) \cap Lent
    BY <1>1, HostFrameType DEF HostFrame, Crossings, AtHost
  <1>6. Longer(stack, stack') /\ stack'[Len(stack')] = HostFrame(kind)
    BY <1>1, <1>2, <1>5, AppendIsLonger
  <1>7. Mask(kind) \in SUBSET Segments /\ (kind # "backend" => Mask(kind) \in {{}, Segments})
    BY DEF Mask, Segments
  <1>8. PICK took : took = Took(kind)
    OBVIOUS
  <1>9. took = Mask(kind) \cap Lent /\ took \subseteq Lent /\ (kind # "backend" => took \in {{}, Segments})
    BY <1>4, <1>7, <1>8 DEF Took
  <1>10. took = stack'[Len(stack')].unbilled /\ ~IsLua(stack', Len(stack'))
         /\ stack'[Len(stack')].kind = kind
    BY <1>5, <1>6, <1>9 DEF IsLua
  <1>11. LentTo(stack', Len(stack')) = Lent
    BY <1>1, <1>4, <1>6, LentAbove
  <1>12. FollowsTheFrames(stack, {}, allowPause)
    BY <1>3
  <1>13. took \subseteq LentTo(stack', Len(stack'))
         /\ (stack'[Len(stack')].kind # "backend" => took \in {{}, Segments})
    BY <1>9, <1>10, <1>11
  <1>14. FollowsTheFrames(stack', took, allowPause)
    BY <1>1, <1>2, <1>6, <1>10, <1>12, <1>13, FramesHostPushed
  <1>15. slot'.paused = slot.paused \cup took
    BY <1>8, CrossOutClocks DEF Effect
  <1>16. slot'.paused = took
    BY <1>3, <1>15
  <1> QED
    BY <1>1, <1>14, <1>16

LEMMA LeaveFollows ==
  ASSUME LuaInv, LeaveLua, FollowsTheFrames(stack, slot.paused, allowPause)
  PROVE  FollowsTheFrames(stack', slot'.paused, allowPause')
  <1>1. /\ stack # <<>> /\ Top.kind = "lua" /\ stack' = Popped
        /\ allowPause' = stack[Len(stack)].prevAllow
    BY DEF LeaveLua, Top
  <1>2. stack \in Seq(Frame) /\ Len(stack) \in Nat \ {0}
    BY <1>1, LuaParts
  <1>3. Longer(stack', stack)
    BY <1>1, <1>2, PoppedIsShorter DEF Popped
  <1>4. stack' \in Seq(Frame) /\ Len(stack) = Len(stack') + 1
    BY <1>3 DEF Longer
  <1>5. IsLua(stack, Len(stack))
    BY <1>1 DEF IsLua, Top
  <1>6. CASE stack' = <<>>
    <2>1. Len(stack') = 0
      BY <1>6
    <2> QED
      BY <2>1 DEF FollowsTheFrames
  <1>7. CASE stack' # <<>>
    <2>1. Len(stack) > 1
      BY <1>2, <1>4, <1>7
    <2>2. slot'.paused = stack[Len(stack)].wasPaused
      BY <2>1, LeaveClocks DEF Effect, Top
    <2>3. FollowsTheFrames(stack', stack[Len(stack)].wasPaused, stack[Len(stack)].prevAllow)
      BY <1>3, <1>5, <1>7, FramesLuaPopped
    <2> QED
      BY <1>1, <2>2, <2>3
  <1> QED
    BY <1>6, <1>7

LEMMA CrossBackFollows ==
  ASSUME LuaInv, Plain, CrossBack, FollowsTheFrames(stack, slot.paused, allowPause)
  PROVE  FollowsTheFrames(stack', slot'.paused, allowPause')
  <1>1. stack # <<>> /\ Top.kind # "lua" /\ stack' = Popped /\ allowPause' = allowPause
    BY DEF CrossBack, AtHost
  <1>2. stack \in Seq(Frame) /\ Stacked(stack) /\ Len(stack) \in Nat \ {0}
    BY <1>1, LuaParts
  <1>3. Longer(stack', stack)
    BY <1>1, <1>2, PoppedIsShorter DEF Popped
  <1>4. ~IsLua(stack, Len(stack)) /\ IsLua(stack, 1)
    BY <1>1, <1>2 DEF IsLua, Top, Stacked
  <1>5. stack' # <<>>
    <2>1. Len(stack) # 1 /\ Len(stack) = Len(stack') + 1
      BY <1>3, <1>4 DEF Longer
    <2> QED
      BY <2>1
  <1>6. FollowsTheFrames(stack', {}, allowPause) /\ IsLua(stack', Len(stack'))
    BY <1>3, <1>4, <1>5, FramesHostPopped
  <1>7. slot'.paused = {}
    <2>1. LuaInv'
      BY CrossBackKeepsLua
    <2>2. Settles(stack', slot'.paused)
      BY <2>1 DEF LuaInv, LuaFits, Plain, PausingIsForCallbacks
    <2> QED
      BY <1>5, <1>6, <2>2 DEF Settles
  <1> QED
    BY <1>1, <1>6, <1>7

LEMMA ChargeIsCharged ==
  ASSUME LuaInv, stack # <<>>, NEW f \in Frame, NEW t,
         t = Append(Popped, f), f.kind = Top.kind,
         f.wasPaused = Top.wasPaused, f.prevAllow = Top.prevAllow
  PROVE  Charged(stack, t) /\ t[Len(stack)] = f
  <1>1. stack \in Seq(Frame)
    BY LuaParts
  <1> DEFINE u == Popped
  <1>2. Longer(u, stack)
    BY <1>1, PoppedIsShorter DEF Popped
  <1> HIDE DEF u
  <1>3. /\ u \in Seq(Frame) /\ Len(stack) = Len(u) + 1
        /\ \A i \in 1..Len(u) : stack[i] = u[i]
    BY <1>2 DEF Longer
  <1>4. t = Append(u, f)
    BY DEF u
  <1>5. /\ t \in Seq(Frame) /\ Len(t) = Len(stack) /\ t[Len(stack)] = f
        /\ \A i \in 1..Len(u) : t[i] = u[i]
    BY <1>3, <1>4
  <1>6. Len(stack) - 1 = Len(u)
    BY <1>3
  <1> QED
    BY <1>1, <1>3, <1>5, <1>6 DEF Charged, Top

LEMMA ReturnFollows ==
  ASSUME LuaInv, ReturnOk \/ ReturnError, FollowsTheFrames(stack, slot.paused, allowPause)
  PROVE  FollowsTheFrames(stack', slot'.paused, allowPause')
  <1>1. stack # <<>> /\ Top.kind = "lua" /\ UNCHANGED <<slot, allowPause>>
    BY DEF ReturnOk, ReturnError, AtLua
  <1>2. PICK status \in {"running", "ok", "failed"} : Finish(status)
    BY DEF ReturnOk, ReturnError
  <1> DEFINE f == [Top EXCEPT !.status = status]
  <1>3. Top \in Frame
    BY <1>1, LuaParts
  <1>4. /\ f \in Frame /\ f.kind = Top.kind /\ f.wasPaused = Top.wasPaused
        /\ f.prevAllow = Top.prevAllow
    BY <1>3 DEF Frame
  <1>5. stack' = Append(Popped, f)
    BY <1>2 DEF Finish
  <1> HIDE DEF f
  <1>6. Charged(stack, stack')
    BY <1>1, <1>4, <1>5, ChargeIsCharged
  <1>7. IsLua(stack, Len(stack))
    BY <1>1 DEF IsLua, Top
  <1>8. \A p : FollowsTheFrames(stack', p, allowPause)
    BY <1>6, <1>7, FramesCharged
  <1> QED
    BY <1>1, <1>8

\* A charge to the host frame on top, made by a call to Sandbox's timers.
LEMMA ChargeFollows ==
  ASSUME LuaInv, stack # <<>>, Top.kind # "lua", UNCHANGED allowPause,
         NEW unbilled \in {{}, Segments}, Charge(unbilled),
         unbilled \subseteq LentTo(stack, Len(stack)), slot'.paused = unbilled,
         FollowsTheFrames(stack, slot.paused, allowPause)
  PROVE  FollowsTheFrames(stack', slot'.paused, allowPause')
  <1> DEFINE f == [Top EXCEPT !.unbilled = unbilled]
  <1>1. Top \in Frame
    BY LuaParts
  <1>2. /\ f \in Frame /\ f.kind = Top.kind /\ f.wasPaused = Top.wasPaused
        /\ f.prevAllow = Top.prevAllow /\ f.unbilled = unbilled
    BY <1>1 DEF Frame
  <1>3. stack' = Append(Popped, f)
    BY DEF Charge
  <1> HIDE DEF f
  <1>4. Charged(stack, stack') /\ stack'[Len(stack)] = f
    BY <1>2, <1>3, ChargeIsCharged
  <1>5. unbilled = stack'[Len(stack)].unbilled
    BY <1>2, <1>4
  <1>6. FollowsTheFrames(stack', unbilled, allowPause)
    BY <1>4, <1>5, FramesCharged
  <1> QED
    BY <1>6

LEMMA PauseFollows ==
  ASSUME LuaInv, allowPause \in BOOLEAN, Plain, PauseTimers,
         FollowsTheFrames(stack, slot.paused, allowPause)
  PROVE  FollowsTheFrames(stack', slot'.paused, allowPause')
  <1>1. /\ stack # <<>> /\ Top.kind # "lua" /\ Charge(Top.unbilled \cup Lent)
        /\ allowPause' = allowPause
    BY DEF PauseTimers, AtHost
  <1>2. stack \in Seq(Frame)
    BY LuaParts
  <1>3. /\ Lent = IF allowPause THEN Segments ELSE {}
        /\ Len(stack) > 1 /\ Lent = LentTo(stack, Len(stack))
    BY <1>1, LentIsAllOrNothing
  <1>4. /\ ~IsLua(stack, Len(stack)) /\ Len(stack) \in 2..Len(stack)
    BY <1>1, <1>2, <1>3 DEF IsLua, Top
  <1>5. slot.paused = Top.unbilled /\ Top.unbilled \subseteq Lent
    BY <1>3, <1>4 DEF FollowsTheFrames, PausedIn, Top
  <1>6. PICK unbilled : unbilled = Top.unbilled \cup Lent
    OBVIOUS
  <1>7. unbilled = Lent /\ unbilled \in {{}, Segments} /\ Charge(unbilled)
    BY <1>1, <1>3, <1>5, <1>6
  <1>8. slot'.paused = IF allowPause THEN Segments ELSE slot.paused
    BY PauseClocks DEF Effect
  <1>9. slot'.paused = unbilled
    BY <1>3, <1>5, <1>7, <1>8
  <1>10. unbilled \subseteq LentTo(stack, Len(stack))
    BY <1>3, <1>7
  <1> QED
    BY <1>1, <1>7, <1>9, <1>10, ChargeFollows

LEMMA ResumeFollows ==
  ASSUME LuaInv, ResumeTimers, FollowsTheFrames(stack, slot.paused, allowPause)
  PROVE  FollowsTheFrames(stack', slot'.paused, allowPause')
  <1>1. /\ stack # <<>> /\ Top.kind # "lua" /\ Charge({}) /\ allowPause' = allowPause
    BY DEF ResumeTimers, AtHost
  <1>2. slot'.paused = {}
    BY ResumeTimersClocks DEF Effect
  <1>3. {} \in {{}, Segments} /\ {} \subseteq LentTo(stack, Len(stack))
    OBVIOUS
  <1> QED
    BY <1>1, <1>2, <1>3, ChargeFollows

-----------------------------------------------------------------------------
(* The bill                                                                *)

LEMMA BillKept ==
  ASSUME UNCHANGED <<now, cpu, ledger>>, SameBill(slot', slot, Here), Billed
  PROVE  Billed'
  <1>1. Here' = Here
    BY DEF Here
  <1> QED
    BY <1>1 DEF Billed, SameBill

\* A clock measures exactly when the frame on top is charged for it.
LEMMA MeasuredIsBilled ==
  ASSUME LuaInv, Plain, FollowsTheFrames(stack, slot.paused, allowPause),
         NEW segment \in Segments
  PROVE  Bills(segment) <=> segment \in slot.open
  <1>1. stack \in Seq(Frame) /\ Stacked(stack) /\ Settles(stack, slot.paused)
    BY LuaParts DEF Plain
  <1>2. CASE stack = <<>>
    <2>1. slot.open = {}
      BY <1>2, LuaParts DEF SlotFits
    <2> QED
      BY <1>2, <2>1 DEF Bills
  <1>3. CASE stack # <<>>
    <2>1. slot.open = Segments \ slot.paused
      BY <1>3, LuaParts DEF SlotFits
    <2>2. CASE Top.kind = "lua"
      <3>1. slot.paused = {}
        BY <1>1, <1>3, <2>2 DEF Settles, IsLua, Top
      <3> QED
        BY <1>3, <2>1, <2>2, <3>1 DEF Bills
    <2>3. CASE Top.kind # "lua"
      <3>1. ~IsLua(stack, Len(stack)) /\ IsLua(stack, 1) /\ Len(stack) \in Nat \ {0}
        BY <1>1, <1>3, <2>3 DEF IsLua, Top, Stacked
      <3>2. Len(stack) \in 2..Len(stack)
        <4>1. Len(stack) # 1
          BY <3>1
        <4> QED
          BY <3>1, <4>1
      <3>3. slot.paused = Top.unbilled
        BY <3>1, <3>2 DEF FollowsTheFrames, PausedIn, Top
      <3> QED
        BY <1>3, <2>1, <2>3, <3>3 DEF Bills
    <2> QED
      BY <2>2, <2>3
  <1> QED
    BY <1>2, <1>3

LEMMA TickBills ==
  ASSUME LuaInv, Plain, FollowsTheFrames(stack, slot.paused, allowPause),
         ledger \in [cpu : Nat, wall : Nat], Billed, Tick
  PROVE  Billed'
  <1>1. /\ now' = now + 1 /\ cpu' \in {cpu, cpu + 1} /\ slot' = slot
        /\ ledger' = [cpu |-> ledger.cpu + IF Bills("cpu") THEN cpu' - cpu ELSE 0,
                      wall |-> ledger.wall + IF Bills("wall") THEN 1 ELSE 0]
    BY DEF Tick
  <1>2. /\ now \in Nat /\ cpu \in Nat
        /\ slot \in Slot /\ slot.clockOk = TRUE
        /\ slot.wallBase <= Here.wall /\ slot.cpuBase <= Here.cpu
    BY DEF LuaInv, LuaFits, SlotFits
  <1>3. /\ slot.wallBase \in Nat /\ slot.cpuBase \in Nat
        /\ slot.wallUsed \in Nat /\ slot.cpuUsed \in Nat
    BY <1>2 DEF Slot
  <1>4. /\ Here.wall = now /\ Here.cpu = cpu /\ Here.readable = TRUE
        /\ Here'.wall = now' /\ Here'.cpu = cpu' /\ Here'.readable = TRUE
    BY DEF Here
  <1>5. WallSpent(slot, Here') = WallSpent(slot, Here) + IF "wall" \in slot.open THEN 1 ELSE 0
    <2>1. Elapsed(now', slot.wallBase) = Elapsed(now, slot.wallBase) + 1
      BY <1>1, <1>2, <1>3, <1>4 DEF Elapsed
    <2>2. Elapsed(now, slot.wallBase) \in Nat
      BY <1>2, <1>3 DEF Elapsed
    <2>3. CASE "wall" \in slot.open
      BY <1>3, <1>4, <2>1, <2>2, <2>3 DEF WallSpent
    <2>4. CASE "wall" \notin slot.open
      BY <1>3, <1>4, <2>4 DEF WallSpent
    <2> QED
      BY <2>3, <2>4
  <1>6. CpuSpent(slot, Here') = CpuSpent(slot, Here) + IF "cpu" \in slot.open THEN cpu' - cpu ELSE 0
    <2>1. Elapsed(cpu', slot.cpuBase) = Elapsed(cpu, slot.cpuBase) + (cpu' - cpu)
      BY <1>1, <1>2, <1>3, <1>4 DEF Elapsed
    <2>2. Elapsed(cpu, slot.cpuBase) \in Nat /\ cpu' - cpu \in Nat
      <3>1. Elapsed(cpu, slot.cpuBase) \in Nat
        BY <1>2, <1>3 DEF Elapsed
      <3>2. cpu' - cpu \in Nat
        <4>1. \A n \in Nat : n - n \in Nat /\ n + 1 - n \in Nat
          OBVIOUS
        <4>2. cpu' = cpu \/ cpu' = cpu + 1
          BY <1>1
        <4> QED
          BY <1>2, <4>1, <4>2
      <3> QED
        BY <3>1, <3>2
    <2>3. CASE "cpu" \in slot.open
      BY <1>2, <1>3, <1>4, <2>1, <2>2, <2>3 DEF CpuSpent
    <2>4. CASE "cpu" \notin slot.open
      BY <1>3, <1>4, <2>4 DEF CpuSpent
    <2> QED
      BY <2>3, <2>4
  <1>7. /\ Bills("wall") <=> "wall" \in slot.open
        /\ Bills("cpu") <=> "cpu" \in slot.open
    BY MeasuredIsBilled DEF Segments
  <1>8. WallSpent(slot, Here) = ledger.wall /\ CpuSpent(slot, Here) = ledger.cpu
    BY DEF Billed
  <1>9. /\ ledger'.wall = ledger.wall + IF Bills("wall") THEN 1 ELSE 0
        /\ ledger'.cpu = ledger.cpu + IF Bills("cpu") THEN cpu' - cpu ELSE 0
    BY <1>1
  <1>10. WallSpent(slot, Here') = ledger'.wall
    BY <1>5, <1>7, <1>8, <1>9
  <1>11. CpuSpent(slot, Here') = ledger'.cpu
    BY <1>6, <1>7, <1>8, <1>9
  <1> QED
    BY <1>1, <1>10, <1>11 DEF Billed

-----------------------------------------------------------------------------
(* The whole invariant                                                     *)

Typed ==
  /\ allowPause \in BOOLEAN
  /\ policy \in Policies
  /\ steps \in Nat
  /\ ledger \in [cpu : Nat, wall : Nat]
  /\ breached \in BOOLEAN

TimersInv == LuaInv /\ Typed /\ FlagInv /\ FrameInv /\ BillInv

\* Init starts it: nothing paused, nothing spent, the flag down.
LEMMA TimersStart == Init => TimersInv
  <1> SUFFICES ASSUME Init PROVE TimersInv
    OBVIOUS
  <1>1. LuaInv
    BY LuaInit
  <1>2. /\ allowPause = FALSE /\ stack = <<>> /\ irq = "none" /\ policy \in Policies
        /\ now = 0 /\ cpu = 0 /\ steps = 0
        /\ ledger = [cpu |-> 0, wall |-> 0] /\ breached = FALSE
    BY DEF Init
  <1>3. Typed
    BY <1>2 DEF Typed
  <1>4. FlagInv
    BY <1>2 DEF FlagInv, Reasons
  <1>5. FollowsTheFrames(stack, slot.paused, allowPause)
    <2>1. Len(stack) = 0
      BY <1>2
    <2> QED
      BY <2>1 DEF FollowsTheFrames
  <1>6. Billed
    <2>1. PICK cpuNs \in Limits, wallNs \in Limits :
            slot = WithWallLimit(WithCpuLimit(Acquired(BlankSlot, Self, TRUE), cpuNs, FALSE), wallNs)
      BY DEF Init
    <2> DEFINE a == Acquired(BlankSlot, Self, TRUE)
    <2>2. a.cpuUsed = 0 /\ a.wallUsed = 0 /\ a.open = {} /\ a \in Slot
      <3>1. a \in Slot
        BY TimersAssumption, BlankSlotType, AcquiredType
      <3> QED
        BY <3>1 DEF Acquired, BlankSlot
    <2> HIDE DEF a
    <2>3. slot.cpuUsed = 0 /\ slot.wallUsed = 0 /\ slot.open = {}
      BY <2>1, <2>2 DEF WithWallLimit, WithCpuLimit, Slot, a
    <2> QED
      BY <1>2, <2>3 DEF Billed, WallSpent, CpuSpent
  <1> QED
    BY <1>1, <1>3, <1>4, <1>5, <1>6 DEF TimersInv, FrameInv, BillInv

\* The flag: an evaluation never takes it down.
LEMMA FlaggedStays ==
  ASSUME FlagInv, NEW r, NEW mask
  PROVE  /\ Flagged(r) \in Reasons \cup {"abort"}
         /\ FlaggedBy(r, mask) \in Reasons \cup {"abort"}
         /\ breached => Flagged(r) # "none" /\ FlaggedBy(r, mask) # "none"
  <1>1. Verdict(r, Here) \in Reasons
    BY DEF Verdict, Reasons
  <1> QED
    BY <1>1 DEF FlagInv, Flagged, FlaggedBy

LEMMA FlagKept ==
  ASSUME breached \in BOOLEAN, NEW reason \in Reasons \cup {"abort"}, Flag(reason),
         breached => reason # "none" \/ stack' = <<>>
  PROVE  FlagInv' /\ breached' \in BOOLEAN
BY DEF Flag, FlagInv

LEMMA FlagStep ==
  ASSUME LuaInv, Typed, FlagInv, [Next]_vars
  PROVE  FlagInv' /\ breached' \in BOOLEAN
  <1>1. breached \in BOOLEAN
    BY DEF Typed
  <1>2. CASE UNCHANGED <<irq, breached>>
    BY <1>1, <1>2 DEF FlagInv
  <1>3. \A r, m : /\ Flagged(r) \in Reasons \cup {"abort"}
                  /\ FlaggedBy(r, m) \in Reasons \cup {"abort"}
                  /\ breached => Flagged(r) # "none" /\ FlaggedBy(r, m) # "none"
    BY FlaggedStays
  <1>4. CASE EnterLua
    <2>1. PICK r : Flag(IF InLua = 0 THEN Flagged(r) ELSE FlaggedBy(r, slot.paused))
      BY <1>4 DEF EnterLua
    <2> QED
      BY <1>1, <1>3, <2>1, FlagKept
  <1>5. CASE ReturnOk
    BY <1>1, <1>3, <1>5, FlagKept DEF ReturnOk
  <1>6. CASE LeaveLua
    <2>1. CASE InLua = 1 /\ Flag("none")
      <3>1. stack # <<>> /\ Top.kind = "lua" /\ stack' = Popped
        BY <1>6 DEF LeaveLua
      <3>2. stack \in Seq(Frame) /\ Stacked(stack)
        BY LuaParts
      <3>3. Len(stack) = 1
        BY <2>1, <3>1, <3>2, LuaCounted
      <3>4. stack' = <<>>
        <4>1. Longer(stack', stack)
          BY <3>1, <3>2, PoppedIsShorter DEF Popped
        <4> QED
          BY <3>3, <4>1 DEF Longer
      <3> QED
        BY <1>1, <2>1, <3>4, FlagKept DEF Reasons
    <2>2. CASE Flag(KeptFlag(slot))
      BY <1>1, <1>3, <2>2, FlagKept DEF KeptFlag
    <2> QED
      BY <1>6, <2>1, <2>2 DEF LeaveLua
  <1>7. CASE CrossBack
    <2>1. PICK r : Flag(FlaggedBy(r, Reopens)) \/ Flag(Flagged(r))
      BY <1>7 DEF CrossBack
    <2> QED
      BY <1>1, <1>3, <2>1, FlagKept
  <1>8. CASE ResumeTimers
    <2>1. PICK r : Flag(Flagged(r))
      BY <1>8 DEF ResumeTimers
    <2> QED
      BY <1>1, <1>3, <2>1, FlagKept
  <1>9. CASE WatchdogTrips
    BY <1>1, <1>3, <1>9, FlagKept DEF WatchdogTrips
  <1>10. CASE Interrupt
    BY <1>1, <1>10, FlagKept DEF Interrupt
  <1>11. CASE \/ ReturnError \/ (\E kind \in Crossings : CrossOut(kind)) \/ PauseTimers
              \/ Tick \/ UNCHANGED vars
    <2>1. UNCHANGED <<irq, breached>>
      BY <1>11 DEF ReturnError, CrossOut, PauseTimers, Tick, vars
    <2> QED
      BY <1>2, <2>1
  <1> QED
    BY <1>4, <1>5, <1>6, <1>7, <1>8, <1>9, <1>10, <1>11 DEF Next

LEMMA TypedStep ==
  ASSUME LuaInv, Typed, FlagInv, [Next]_vars
  PROVE  Typed'
  <1>1. /\ allowPause \in BOOLEAN /\ policy \in Policies /\ steps \in Nat
        /\ ledger \in [cpu : Nat, wall : Nat] /\ now \in Nat /\ cpu \in Nat
    BY DEF Typed, LuaInv
  <1>2. breached' \in BOOLEAN
    BY FlagStep
  <1>3. policy' \in Policies
    BY <1>1 DEF Next, vars, EnterLua, ReturnOk, ReturnError, LeaveLua, CrossOut, CrossBack,
                PauseTimers, ResumeTimers, WatchdogTrips, Interrupt, Tick
  <1>4. steps' \in Nat
    <2>1. steps' = steps \/ steps' = steps + 1
      BY DEF Next, vars, EnterLua, ReturnOk, ReturnError, LeaveLua, CrossOut, CrossBack,
             PauseTimers, ResumeTimers, WatchdogTrips, Interrupt, Tick, Spend
    <2> QED
      BY <1>1, <2>1
  <1>5. ledger' \in [cpu : Nat, wall : Nat]
    <2>1. CASE Tick
      <3>1. /\ cpu' \in {cpu, cpu + 1}
            /\ ledger' = [cpu |-> ledger.cpu + IF Bills("cpu") THEN cpu' - cpu ELSE 0,
                          wall |-> ledger.wall + IF Bills("wall") THEN 1 ELSE 0]
        BY <2>1 DEF Tick
      <3>2. cpu' - cpu \in Nat
        <4>1. \A n \in Nat : n - n \in Nat /\ n + 1 - n \in Nat
          OBVIOUS
        <4>2. cpu' = cpu \/ cpu' = cpu + 1
          BY <3>1
        <4> QED
          BY <1>1, <4>1, <4>2
      <3>3. ledger.cpu + (IF Bills("cpu") THEN cpu' - cpu ELSE 0) \in Nat
        BY <1>1, <3>2
      <3>4. ledger.wall + (IF Bills("wall") THEN 1 ELSE 0) \in Nat
        BY <1>1
      <3> QED
        BY <3>1, <3>3, <3>4
    <2>2. CASE ~Tick
      <3>1. ledger' = ledger
        BY <2>2 DEF Next, vars, EnterLua, ReturnOk, ReturnError, LeaveLua, CrossOut, CrossBack,
                    PauseTimers, ResumeTimers, WatchdogTrips, Interrupt
      <3> QED
        BY <1>1, <3>1
    <2> QED
      BY <2>1, <2>2
  <1>6. allowPause' \in BOOLEAN
    <2>1. CASE EnterLua
      <3>1. allowPause' = (InLua = 0 \/ slot.paused # {})
        BY <2>1 DEF EnterLua, MayPause
      <3>2. (InLua = 0 \/ slot.paused # {}) \in BOOLEAN
        OBVIOUS
      <3> QED
        BY <3>1, <3>2
    <2>2. CASE LeaveLua
      <3>1. allowPause' = Top.prevAllow /\ stack # <<>>
        BY <2>2 DEF LeaveLua
      <3> QED
        BY <3>1, LuaParts DEF Frame
    <2>3. CASE ~EnterLua /\ ~LeaveLua
      <3>1. allowPause' = allowPause
        BY <2>3 DEF Next, vars, ReturnOk, ReturnError, CrossOut, CrossBack,
                    PauseTimers, ResumeTimers, WatchdogTrips, Interrupt, Tick
      <3> QED
        BY <1>1, <3>1
    <2> QED
      BY <2>1, <2>2, <2>3
  <1> QED
    BY <1>2, <1>3, <1>4, <1>5, <1>6 DEF Typed

LEMMA LuaStep ==
  ASSUME LuaInv, Typed, [Next]_vars
  PROVE  LuaInv'
  <1>1. allowPause \in BOOLEAN
    BY DEF Typed
  <1>2. CASE EnterLua
    BY <1>1, <1>2, EnterKeepsLua
  <1>3. CASE ReturnOk \/ ReturnError
    BY <1>3, ReturnKeepsLua
  <1>4. CASE LeaveLua
    BY <1>4, LeaveKeepsLua
  <1>5. CASE \E kind \in Crossings : CrossOut(kind)
    BY <1>5, CrossOutKeepsLua
  <1>6. CASE CrossBack
    BY <1>6, CrossBackKeepsLua
  <1>7. CASE PauseTimers
    BY <1>7, PauseKeepsLua
  <1>8. CASE ResumeTimers
    BY <1>8, ResumeKeepsLua
  <1>9. CASE Tick
    BY <1>9, TickKeepsLua
  <1>10. CASE WatchdogTrips \/ Interrupt \/ UNCHANGED vars
    <2>1. slot' = slot /\ stack' = stack /\ now' = now /\ cpu' = cpu
      BY <1>10 DEF WatchdogTrips, Interrupt, vars
    <2>2. Here' = Here
      BY <2>1 DEF Here
    <2> QED
      BY <2>1, <2>2 DEF LuaInv
  <1> QED
    BY <1>2, <1>3, <1>4, <1>5, <1>6, <1>7, <1>8, <1>9, <1>10 DEF Next

LEMMA FrameStep ==
  ASSUME LuaInv, Typed, FrameInv, [Next]_vars
  PROVE  FrameInv'
  <1> SUFFICES ASSUME Plain PROVE FollowsTheFrames(stack', slot'.paused, allowPause')
    BY DEF FrameInv
  <1>1. allowPause \in BOOLEAN /\ FollowsTheFrames(stack, slot.paused, allowPause)
    BY DEF Typed, FrameInv
  <1>2. CASE EnterLua
    BY <1>1, <1>2, EnterFollows
  <1>3. CASE ReturnOk \/ ReturnError
    BY <1>1, <1>3, ReturnFollows
  <1>4. CASE LeaveLua
    BY <1>1, <1>4, LeaveFollows
  <1>5. CASE \E kind \in Crossings : CrossOut(kind)
    BY <1>1, <1>5, CrossOutFollows
  <1>6. CASE CrossBack
    BY <1>1, <1>6, CrossBackFollows
  <1>7. CASE PauseTimers
    BY <1>1, <1>7, PauseFollows
  <1>8. CASE ResumeTimers
    BY <1>1, <1>8, ResumeFollows
  <1>9. CASE Tick \/ WatchdogTrips \/ Interrupt \/ UNCHANGED vars
    <2>1. slot' = slot /\ stack' = stack /\ allowPause' = allowPause
      BY <1>9 DEF Tick, WatchdogTrips, Interrupt, vars
    <2> QED
      BY <1>1, <2>1
  <1> QED
    BY <1>2, <1>3, <1>4, <1>5, <1>6, <1>7, <1>8, <1>9 DEF Next

\* No operation of the bracket spends or refunds anything.
LEMMA NothingSpent ==
  ASSUME LuaInv, Next, ~Tick
  PROVE  SameBill(slot', slot, Here)
  <1>1. CASE EnterLua
    BY <1>1, EnterClocks DEF Effect
  <1>2. CASE LeaveLua
    <2>1. Len(stack) = 1 \/ Len(stack) > 1
      <3>1. stack # <<>> /\ stack \in Seq(Frame)
        BY <1>2, LuaParts DEF LeaveLua
      <3>2. Len(stack) \in Nat \ {0}
        BY <3>1
      <3>3. \A n \in Nat \ {0} : n = 1 \/ n > 1
        OBVIOUS
      <3> QED
        BY <3>2, <3>3
    <2> QED
      BY <1>2, <2>1, LeaveClocks DEF Effect
  <1>3. CASE \E kind \in Crossings : CrossOut(kind)
    BY <1>3, CrossOutClocks DEF Effect
  <1>4. CASE CrossBack
    BY <1>4, CrossBackClocks DEF Effect
  <1>5. CASE PauseTimers
    BY <1>5, PauseClocks DEF Effect
  <1>6. CASE ResumeTimers
    BY <1>6, ResumeTimersClocks DEF Effect
  <1>7. CASE ReturnOk \/ ReturnError \/ WatchdogTrips \/ Interrupt
    <2>1. slot' = slot
      BY <1>7 DEF ReturnOk, ReturnError, WatchdogTrips, Interrupt
    <2> QED
      BY <2>1 DEF SameBill
  <1> QED
    BY <1>1, <1>2, <1>3, <1>4, <1>5, <1>6, <1>7 DEF Next

LEMMA BillStep ==
  ASSUME LuaInv, Typed, FrameInv, BillInv, [Next]_vars
  PROVE  BillInv'
  <1> SUFFICES ASSUME Plain PROVE Billed'
    BY DEF BillInv
  <1>1. /\ FollowsTheFrames(stack, slot.paused, allowPause) /\ Billed
        /\ ledger \in [cpu : Nat, wall : Nat]
    BY DEF FrameInv, BillInv, Typed
  <1>2. CASE Tick
    BY <1>1, <1>2, TickBills
  <1>3. CASE Next /\ ~Tick
    <2>1. UNCHANGED <<now, cpu, ledger>>
      BY <1>3 DEF Next, EnterLua, ReturnOk, ReturnError, LeaveLua, CrossOut, CrossBack,
                  PauseTimers, ResumeTimers, WatchdogTrips, Interrupt
    <2> QED
      BY <1>1, <1>3, <2>1, NothingSpent, BillKept
  <1>4. CASE UNCHANGED vars
    <2>1. slot' = slot /\ UNCHANGED <<now, cpu, ledger>>
      BY <1>4 DEF vars
    <2>2. SameBill(slot', slot, Here)
      BY <2>1 DEF SameBill
    <2> QED
      BY <1>1, <2>1, <2>2, BillKept
  <1> QED
    BY <1>2, <1>3, <1>4

LEMMA TimersStep == TimersInv /\ [Next]_vars => TimersInv'
BY LuaStep, TypedStep, FlagStep, FrameStep, BillStep DEF TimersInv

\* The bracket keeps to it, however Lua and the host nest.
THEOREM BracketHolds == Spec => []TimersInv
BY TimersStart, TimersStep, PTL DEF Spec

\* Every field of the frames, the slot and the auxiliary ledger keeps to its
\* type (TypeOK of luaext_timers.c's state).
THEOREM TimersTyped == Spec => []TypeOK
  <1>1. TimersInv => TypeOK
    BY DEF TimersInv, LuaInv, LuaFits, SlotFits, Typed, FlagInv, TypeOK
  <1> QED
    BY <1>1, BracketHolds, PTL

\* Lua time always counts: with only registered callables pausing the timers,
\* both clocks run whenever Lua does, whatever the frames around it paused.
THEOREM LuaIsAlwaysBilled ==
  ASSUME PausingIsForCallbacks
  PROVE  Spec => []LuaTimeCounts
  <1>1. TimersInv => LuaTimeCounts
    <2> SUFFICES ASSUME TimersInv, AtLua PROVE slot.paused = {} /\ slot.open = Segments
      BY DEF LuaTimeCounts
    <2>1. LuaInv /\ stack # <<>> /\ Top.kind = "lua"
      BY DEF TimersInv, AtLua
    <2>2. Settles(stack, slot.paused) /\ SlotFits(slot, TRUE, Here)
      BY <2>1, LuaParts
    <2>3. slot.paused = {}
      BY <2>1, <2>2 DEF Settles, IsLua, Top
    <2> QED
      BY <2>2, <2>3 DEF SlotFits
  <1> QED
    BY <1>1, BracketHolds, PTL

\* The pause in force is the running host frame's own, for every nesting of
\* crossings that re-enter Lua from anything but a filesystem backend.
THEOREM PauseIsTheFramesOwn ==
  ASSUME Plain
  PROVE  Spec => []PauseFollowsTheFrame
  <1>1. TimersInv => PauseFollowsTheFrame
    <2> SUFFICES ASSUME TimersInv, AtHost
                 PROVE  slot.paused = Top.unbilled /\ slot.paused \subseteq Lent
      BY DEF PauseFollowsTheFrame
    <2>1. /\ LuaInv /\ allowPause \in BOOLEAN /\ stack # <<>> /\ Top.kind # "lua"
          /\ FollowsTheFrames(stack, slot.paused, allowPause)
      BY DEF TimersInv, Typed, FrameInv, AtHost
    <2>2. Len(stack) > 1 /\ Lent = LentTo(stack, Len(stack)) /\ stack \in Seq(Frame)
      BY <2>1, LentIsAllOrNothing, LuaParts
    <2>3. Len(stack) \in 2..Len(stack) /\ ~IsLua(stack, Len(stack))
      BY <2>1, <2>2 DEF IsLua, Top
    <2> QED
      BY <2>1, <2>2, <2>3 DEF FollowsTheFrames, PausedIn, Top
  <1> QED
    BY <1>1, BracketHolds, PTL

\* What the slot has measured is what the documented rules bill, to the unit.
THEOREM BillIsExact ==
  ASSUME Plain
  PROVE  Spec => []BilledByTheFrames
  <1>1. TimersInv => BilledByTheFrames
    BY DEF TimersInv, BillInv, Billed, BilledByTheFrames
  <1> QED
    BY <1>1, BracketHolds, PTL

\* luaext_exec_pcall's last look at the flag: a return that reports success
\* comes after no breach and no abort.
THEOREM BreachIsSticky == Spec => NoSuccessAfterBreach
  <1> DEFINE Ok == AtLua /\ InLua = 1 /\ stack' # <<>> /\ stack'[Len(stack')].status = "ok"
                     => ~breached
  <1>1. TimersInv /\ [Next]_vars => [Ok]_vars
    <2> SUFFICES ASSUME TimersInv, Next, AtLua, stack' # <<>>,
                        stack'[Len(stack')].status = "ok"
                 PROVE  ~breached
      OBVIOUS
    <2>1. /\ LuaInv /\ FlagInv /\ stack # <<>> /\ Top.kind = "lua" /\ Top.status = "running"
      BY DEF TimersInv, AtLua
    <2>2. stack \in Seq(Frame) /\ Top \in Frame
      BY <2>1, LuaParts
    <2>3. \A status \in {"running", "ok", "failed"} : Finish(status) => stack'[Len(stack')].status = status
      <3> SUFFICES ASSUME NEW status \in {"running", "ok", "failed"}, Finish(status)
                   PROVE  stack'[Len(stack')].status = status
        OBVIOUS
      <3> DEFINE f == [Top EXCEPT !.status = status]
      <3>1. /\ f \in Frame /\ f.kind = Top.kind /\ f.wasPaused = Top.wasPaused
            /\ f.prevAllow = Top.prevAllow /\ f.status = status
        BY <2>2 DEF Frame
      <3>2. stack' = Append(Popped, f)
        BY DEF Finish
      <3> HIDE DEF f
      <3>3. Charged(stack, stack') /\ stack'[Len(stack)] = f
        BY <2>1, <3>1, <3>2, ChargeIsCharged
      <3>4. Len(stack') = Len(stack)
        BY <3>3 DEF Charged
      <3> QED
        BY <3>1, <3>3, <3>4
    <2>4. CASE ReturnOk
      <3>1. Finish(IF Flagged(slot) = "none" THEN "ok" ELSE "failed")
        BY <2>4 DEF ReturnOk
      <3>2. Flagged(slot) = "none"
        BY <2>3, <3>1
      <3> QED
        BY <2>1, <3>2, FlaggedStays
    <2>5. CASE ReturnError
      BY <2>3, <2>5 DEF ReturnError
    <2>6. CASE \E kind \in Crossings : CrossOut(kind)
      <3>1. PICK kind \in Crossings : CrossOut(kind)
        BY <2>6
      <3>2. stack' = Append(stack, HostFrame(kind))
        BY <3>1 DEF CrossOut, HostFrame, Took
      <3>3. HostFrame(kind) \in Frame /\ HostFrame(kind).status = "running"
        BY <2>1, HostFrameType DEF HostFrame
      <3>4. stack'[Len(stack')] = HostFrame(kind)
        BY <2>2, <3>2, <3>3, AppendIsLonger
      <3> QED
        BY <3>3, <3>4
    <2>7. CASE WatchdogTrips \/ Interrupt \/ Tick
      <3>1. stack' = stack
        BY <2>7 DEF WatchdogTrips, Interrupt, Tick
      <3> QED
        BY <2>1, <3>1 DEF Top
    <2>8. CASE EnterLua \/ LeaveLua \/ CrossBack \/ PauseTimers \/ ResumeTimers
      BY <2>1, <2>8 DEF EnterLua, LeaveLua, CrossBack, PauseTimers, ResumeTimers, AtHost
    <2> QED
      BY <2>4, <2>5, <2>6, <2>7, <2>8 DEF Next
  <1>2. Spec => [][Ok]_vars
    BY <1>1, BracketHolds, PTL DEF Spec
  <1> QED
    BY <1>2 DEF NoSuccessAfterBreach
=============================================================================
