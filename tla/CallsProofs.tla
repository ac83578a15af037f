---- MODULE CallsProofs ----
EXTENDS Calls, SumTheorems, SequenceTheorems

--------------------------------------------------------------------------------
(* Theorems about Calls, for any threads, limits and depth of the C stack.      *)
(*                                                                              *)
(* What a frame is, and how a step changes the stack: a frame is pushed, or     *)
(* popped, or the top one replaced, or what an entry is owed is noted.          *)

ProtectFrame == [kind : {"pcall", "xpcall"}, todo : SUBSET {"message", "close"}]
ResumeFrame  == [kind : {"resume", "wrap"}, on : Threads, from : Threads \cup {Main}]
ClosingFrame == [kind : {"closing"}, on : Threads, from : Threads \cup {Main},
                 who : {"sweep", "wrap", "close", "self"}]
CreateFrame  == [kind : {"create"}, phase : {"collect", "make"}]
HandlerFrame == [kind : {"handler"}, over : Errors \cup {None}]
BareFrame    == [kind : {"gc", "callable", "backend"}]

Pushes(fs, gs, f) ==
    /\ Len(gs) = Len(fs) + 1 /\ gs[Len(gs)] = f
    /\ \A i \in 1 .. Len(fs) : gs[i] = fs[i]
Pops(fs, gs) ==
    /\ Len(fs) > 0 /\ Len(gs) = Len(fs) - 1
    /\ \A i \in 1 .. Len(gs) : gs[i] = fs[i]
Retops(fs, gs, f) ==
    /\ Len(fs) > 0 /\ Len(gs) = Len(fs) /\ gs[Len(gs)] = f
    /\ \A i \in 1 .. Len(fs) : i # Len(fs) => gs[i] = fs[i]

\* The same call but for what it is owed.
SameCall(f, g) ==
    /\ g.kind = "call" /\ g.todo = f.todo /\ g.outer = f.outer
    /\ g.phase = f.phase /\ g.result = f.result
Likes(fs, gs) ==
    /\ Len(gs) = Len(fs)
    /\ \A i \in 1 .. Len(fs) : IF fs[i].kind = "call" THEN SameCall(fs[i], gs[i])
                                                      ELSE gs[i] = fs[i]

\* Nothing between the call at b and the position i keeps an error from that call.
Reaches(fs, b, i) ==
    \A k \in 1 .. Len(fs) : b < k /\ k <= i => fs[k].kind \notin {"call", "gc"}

LEMMA FrameIs ==
    ASSUME NEW f \in Frame
    PROVE  /\ f.kind = "call" => f \in CallFrame
           /\ f.kind \in {"pcall", "xpcall"} => f \in ProtectFrame
           /\ f.kind \in {"resume", "wrap"} => f \in ResumeFrame
           /\ f.kind = "closing" => f \in ClosingFrame
           /\ f.kind = "create" => f \in CreateFrame
           /\ f.kind = "handler" => f \in HandlerFrame
           /\ f.kind \in {"gc", "callable", "backend"} => f \in BareFrame
           /\ f.kind \in {"call", "pcall", "xpcall", "resume", "wrap", "closing", "create",
                          "handler", "gc", "callable", "backend"}
<1>1. \/ f \in CallFrame \/ f \in ProtectFrame \/ f \in ResumeFrame \/ f \in ClosingFrame
      \/ f \in CreateFrame \/ f \in HandlerFrame \/ f \in BareFrame
    BY DEF Frame, ProtectFrame, ResumeFrame, ClosingFrame, CreateFrame, HandlerFrame, BareFrame
<1>2. CASE f \in CallFrame
    BY <1>2 DEF CallFrame
<1>3. CASE f \in ProtectFrame
    BY <1>3 DEF ProtectFrame
<1>4. CASE f \in ResumeFrame
    BY <1>4 DEF ResumeFrame
<1>5. CASE f \in ClosingFrame
    BY <1>5 DEF ClosingFrame
<1>6. CASE f \in CreateFrame
    BY <1>6 DEF CreateFrame
<1>7. CASE f \in HandlerFrame
    BY <1>7 DEF HandlerFrame
<1>8. CASE f \in BareFrame
    BY <1>8 DEF BareFrame
<1> QED
    BY <1>1, <1>2, <1>3, <1>4, <1>5, <1>6, <1>7, <1>8

LEMMA IsFrame ==
    ASSUME NEW f, \/ f \in CallFrame \/ f \in ProtectFrame \/ f \in ResumeFrame
                  \/ f \in ClosingFrame \/ f \in CreateFrame \/ f \in HandlerFrame
                  \/ f \in BareFrame
    PROVE  f \in Frame
BY DEF Frame, ProtectFrame, ResumeFrame, ClosingFrame, CreateFrame, HandlerFrame, BareFrame

(* A frame pushed, one popped, and one put in the place of the top.             *)
LEMMA Pushed ==
    ASSUME NEW fs \in Seq(Frame), NEW f \in Frame, NEW gs, gs = Append(fs, f)
    PROVE  gs \in Seq(Frame) /\ Pushes(fs, gs, f)
BY DEF Pushes

LEMMA Popped ==
    ASSUME NEW fs \in Seq(Frame), fs # <<>>, NEW gs, gs = Front(fs)
    PROVE  gs \in Seq(Frame) /\ Pops(fs, gs)
<1>1. Len(fs) \in Nat /\ Len(fs) > 0
    BY EmptySeq
<1>2. \A i \in 1 .. Len(fs) : fs[i] \in Frame
    BY ElementOfSeq
<1>3. gs = [i \in 1 .. (Len(fs) - 1) |-> fs[i]]
    BY <1>1 DEF Front
<1>4. Len(fs) - 1 \in Nat /\ \A i \in 1 .. (Len(fs) - 1) : i \in 1 .. Len(fs)
    BY <1>1
<1>5. gs \in Seq(Frame)
    BY <1>2, <1>3, <1>4, IsASeq
<1>6. Len(gs) = Len(fs) - 1
    BY <1>3, <1>4, <1>5, LenProperties
<1> QED
    BY <1>1, <1>3, <1>4, <1>5, <1>6 DEF Pops

LEMMA Retopped ==
    ASSUME NEW fs \in Seq(Frame), fs # <<>>, NEW f \in Frame,
           NEW gs, gs = Append(Front(fs), f)
    PROVE  gs \in Seq(Frame) /\ Retops(fs, gs, f)
<1> DEFINE us == Front(fs)
<1>1. us \in Seq(Frame) /\ Pops(fs, us)
    BY Popped
<1> HIDE DEF us
<1>2. gs \in Seq(Frame) /\ Pushes(us, gs, f)
    BY <1>1, Pushed DEF us
<1>3. Len(fs) \in Nat /\ Len(us) \in Nat /\ Len(gs) \in Nat
    BY <1>1, <1>2
<1> QED
    BY <1>1, <1>2, <1>3 DEF Retops, Pops, Pushes

LEMMA LargestExists ==
    ASSUME NEW n \in Nat, NEW S \in SUBSET (1 .. n), S # {}
    PROVE  \E m \in S : \A y \in S : m >= y
<1> DEFINE P == {k \in Nat : \A T \in SUBSET (1 .. k) :
                                T # {} => \E m \in T : \A y \in T : m >= y}
<1>1. 0 \in P
    <2>1. \A T \in SUBSET (1 .. 0) : T = {}
        OBVIOUS
    <2> QED
        BY <2>1
<1>2. ASSUME NEW k \in Nat, k \in P PROVE k + 1 \in P
    <2>1. ASSUME NEW T \in SUBSET (1 .. k + 1), T # {} PROVE \E m \in T : \A y \in T : m >= y
        <3>1. CASE k + 1 \in T
            BY <3>1, <1>2
        <3>2. CASE k + 1 \notin T
            <4>1. T \in SUBSET (1 .. k)
                BY <3>2, <1>2
            <4> QED
                BY <4>1, <2>1, <1>2
        <3> QED
            BY <3>1, <3>2
    <2> QED
        BY <2>1
<1> HIDE DEF P
<1>3. Nat \subseteq P
    BY <1>1, <1>2, SetInduction
<1> QED
    BY <1>3 DEF P

LEMMA LargestIs ==
    ASSUME NEW S \in SUBSET Nat, NEW m \in S, \A y \in S : m >= y
    PROVE  Max(S) = m
<1> DEFINE x == Max(S)
<1>1. x \in S /\ \A y \in S : x >= y
    BY DEF Max
<1> HIDE DEF x
<1>2. x \in Nat /\ m \in Nat /\ x >= m /\ m >= x
    BY <1>1
<1>3. x = m
    BY <1>2
<1> QED
    BY <1>3 DEF x

(* The boundary is the innermost entry.                                         *)
LEMMA BoundaryIs ==
    ASSUME NEW fs \in Seq(Frame)
    PROVE  /\ Boundary(fs) = 0 => \A i \in 1 .. Len(fs) : fs[i].kind # "call"
           /\ Boundary(fs) # 0 =>
                /\ Boundary(fs) \in 1 .. Len(fs) /\ fs[Boundary(fs)].kind = "call"
                /\ \A i \in 1 .. Len(fs) : Boundary(fs) < i => fs[i].kind # "call"
<1>1. Len(fs) \in Nat /\ DOMAIN fs = 1 .. Len(fs)
    OBVIOUS
<1>2. CASE CallsOf(fs) = {}
    BY <1>1, <1>2 DEF Boundary, CallsOf
<1>3. CASE CallsOf(fs) # {}
    <2>1. CallsOf(fs) \in SUBSET (1 .. Len(fs))
        BY <1>1 DEF CallsOf
    <2>2. PICK m \in CallsOf(fs) : \A y \in CallsOf(fs) : m >= y
        BY <1>1, <1>3, <2>1, LargestExists
    <2>3. Boundary(fs) = m
        BY <1>3, <2>1, <2>2, LargestIs DEF Boundary
    <2>4. m \in 1 .. Len(fs) /\ fs[m].kind = "call"
        BY <2>1, <2>2 DEF CallsOf
    <2> QED
        BY <1>1, <2>2, <2>3, <2>4 DEF CallsOf
<1> QED
    BY <1>2, <1>3

LEMMA OweType ==
    ASSUME NEW f \in CallFrame, NEW x \in Errors \cup {None}, NEW g, g = [f EXCEPT !.owed = x]
    PROVE  g \in CallFrame /\ SameCall(f, g) /\ g.owed = x
BY DEF CallFrame, SameCall

LEMMA ThrownType ==
    ASSUME NEW e \in Errors
    PROVE  /\ ThrownFor(e) \in {"runtime", "fatal", "foreign", "exit"} /\ ThrownFor(e) \in Errors
           /\ RaisedFor(e) \in Errors /\ Kept(e) \in Errors \cup {None}
BY CallsAssumption DEF ThrownFor, RaisedFor, Kept, IsFatal, Errors

Notes(fs, gs, b, x) ==
    /\ gs \in Seq(Frame) /\ Likes(fs, gs)
    /\ \A i \in 1 .. Len(fs) : gs[i] = IF i = b THEN [fs[b] EXCEPT !.owed = x] ELSE fs[i]

LEMMA OwedType ==
    ASSUME NEW fs \in Seq(Frame), NEW b \in 1 .. Len(fs), fs[b].kind = "call",
           NEW x \in Errors \cup {None}, NEW gs, gs = [fs EXCEPT ![b].owed = x]
    PROVE  Notes(fs, gs, b, x)
<1>1. Len(fs) \in Nat /\ DOMAIN fs = 1 .. Len(fs) /\ \A i \in 1 .. Len(fs) : fs[i] \in Frame
    BY ElementOfSeq
<1> DEFINE g == [fs[b] EXCEPT !.owed = x]
<1>2. fs[b] \in CallFrame
    BY <1>1, FrameIs
<1>3. g \in CallFrame /\ SameCall(fs[b], g) /\ g.owed = x
    BY <1>2, OweType
<1>4. g \in Frame
    BY <1>3, IsFrame
<1>5. gs = [i \in 1 .. Len(fs) |-> IF i = b THEN g ELSE fs[i]]
    BY <1>1
<1> HIDE DEF g
<1>6. \A i \in 1 .. Len(fs) : (IF i = b THEN g ELSE fs[i]) \in Frame
    BY <1>1, <1>4
<1>7. gs \in Seq(Frame)
    BY <1>1, <1>5, <1>6, IsASeq
<1>8. Len(gs) = Len(fs)
    BY <1>1, <1>5, <1>7, LenProperties
<1>9. \A i \in 1 .. Len(fs) : gs[i] = IF i = b THEN g ELSE fs[i]
    BY <1>5
<1>10. ASSUME NEW i \in 1 .. Len(fs)
       PROVE  IF fs[i].kind = "call" THEN SameCall(fs[i], gs[i]) ELSE gs[i] = fs[i]
    <2>1. CASE i = b
        BY <1>3, <1>9, <2>1
    <2>2. CASE i # b
        BY <1>9, <2>2 DEF SameCall
    <2> QED
        BY <2>1, <2>2
<1>11. Likes(fs, gs)
    BY <1>8, <1>10 DEF Likes
<1> QED
    BY <1>7, <1>9, <1>11 DEF g, Notes

(* What throwing notes: the entry that runs the script, and no finaliser's, is  *)
(* owed what it is not to miss.                                                 *)
OwedWhen(fs, e, i) ==
    /\ Uncatchable(e) /\ fs[i].kind = "call" /\ fs[i].phase = "run"
    /\ Reaches(fs, i, Len(fs) + 1)

OwedFrame(fs, e, i) == IF OwedWhen(fs, e, i) THEN [fs[i] EXCEPT !.owed = ThrownFor(e)] ELSE fs[i]

LEMMA OwingIs ==
    ASSUME NEW fs \in Seq(Frame), NEW e \in Errors, NEW gs, gs = Owing(fs, e)
    PROVE  /\ gs \in Seq(Frame) /\ Likes(fs, gs)
           /\ \A i \in 1 .. Len(fs) : gs[i] = OwedFrame(fs, e, i)
<1>0. PICK b : b = Boundary(fs)
    OBVIOUS
<1>1. Len(fs) \in Nat /\ \A i \in 1 .. Len(fs) : fs[i] \in Frame
    BY ElementOfSeq
<1>2. /\ b = 0 => \A i \in 1 .. Len(fs) : fs[i].kind # "call"
      /\ b # 0 => /\ b \in 1 .. Len(fs) /\ fs[b].kind = "call"
                  /\ \A i \in 1 .. Len(fs) : b < i => fs[i].kind # "call"
    BY <1>0, BoundaryIs
<1>3. Owing(fs, e) = IF /\ Uncatchable(e) /\ b # 0 /\ fs[b].phase = "run"
                        /\ \A i \in b + 1 .. Len(fs) : fs[i].kind # "gc"
                     THEN [fs EXCEPT ![b].owed = ThrownFor(e)] ELSE fs
    BY <1>0 DEF Owing
<1>4. Likes(fs, fs)
    BY <1>1 DEF Likes, SameCall
<1>5. CASE /\ Uncatchable(e) /\ b # 0 /\ fs[b].phase = "run"
           /\ \A i \in b + 1 .. Len(fs) : fs[i].kind # "gc"
    <2>1. gs = [fs EXCEPT ![b].owed = ThrownFor(e)]
        BY <1>3, <1>5
    <2>2. b \in 1 .. Len(fs) /\ fs[b].kind = "call"
        BY <1>2, <1>5
    <2>3. ThrownFor(e) \in Errors \cup {None}
        BY ThrownType
    <2>4. /\ gs \in Seq(Frame) /\ Likes(fs, gs)
          /\ \A i \in 1 .. Len(fs) :
                gs[i] = IF i = b THEN [fs[b] EXCEPT !.owed = ThrownFor(e)] ELSE fs[i]
        <3>1. Notes(fs, gs, b, ThrownFor(e))
            BY <2>1, <2>2, <2>3, OwedType
        <3> QED
            BY <3>1 DEF Notes
    <2>5. ASSUME NEW i \in 1 .. Len(fs) PROVE OwedWhen(fs, e, i) <=> i = b
        <3>1. i = b => OwedWhen(fs, e, i)
            BY <1>1, <1>2, <1>5, <2>2 DEF OwedWhen, Reaches
        <3>2. ASSUME i # b, fs[i].kind = "call" PROVE ~Reaches(fs, i, Len(fs) + 1)
            <4>1. i < b
                BY <1>1, <1>2, <2>2, <3>2
            <4> QED
                BY <1>1, <2>2, <4>1 DEF Reaches
        <3> QED
            BY <3>1, <3>2 DEF OwedWhen
    <2> QED
        BY <2>4, <2>5 DEF OwedFrame
<1>6. CASE ~(/\ Uncatchable(e) /\ b # 0 /\ fs[b].phase = "run"
             /\ \A i \in b + 1 .. Len(fs) : fs[i].kind # "gc")
    <2>1. gs = fs
        BY <1>3, <1>6
    <2>2. ASSUME NEW i \in 1 .. Len(fs), OwedWhen(fs, e, i) PROVE FALSE
        <3>1. /\ Uncatchable(e) /\ fs[i].kind = "call" /\ fs[i].phase = "run"
              /\ \A k \in 1 .. Len(fs) : i < k => fs[k].kind \notin {"call", "gc"}
            BY <1>1, <2>2 DEF OwedWhen, Reaches
        <3>2. b # 0
            BY <1>2, <3>1
        <3>3. b \in 1 .. Len(fs) /\ fs[b].kind = "call"
            BY <1>2, <3>2
        <3>4. b = i
            BY <1>1, <1>2, <3>1, <3>2, <3>3
        <3> QED
            BY <1>1, <1>6, <3>1, <3>2, <3>4
    <2> QED
        BY <1>4, <2>1, <2>2 DEF OwedFrame
<1> QED
    BY <1>5, <1>6

(* What a handler that replaced an error with another forgives.                 *)
LEMMA ForgivingIs ==
    ASSUME NEW fs \in Seq(Frame), NEW over, NEW e, NEW gs, gs = Forgiving(fs, over, e)
    PROVE  /\ gs \in Seq(Frame) /\ Likes(fs, gs)
           /\ \A i \in 1 .. Len(fs) : gs[i] = fs[i] \/ gs[i].owed = None
           /\ Uncatchable(over) /\ ~Uncatchable(e) =>
                \A i \in 1 .. Len(fs) :
                    fs[i].kind = "call" /\ Reaches(fs, i, Len(fs) + 1) => gs[i].owed = None
<1>0. PICK b : b = Boundary(fs)
    OBVIOUS
<1>1. Len(fs) \in Nat /\ \A i \in 1 .. Len(fs) : fs[i] \in Frame
    BY ElementOfSeq
<1>2. /\ b = 0 => \A i \in 1 .. Len(fs) : fs[i].kind # "call"
      /\ b # 0 => /\ b \in 1 .. Len(fs) /\ fs[b].kind = "call"
                  /\ \A i \in 1 .. Len(fs) : b < i => fs[i].kind # "call"
    BY <1>0, BoundaryIs
<1>3. Forgiving(fs, over, e) = IF Uncatchable(over) /\ ~Uncatchable(e) /\ b # 0
                               THEN [fs EXCEPT ![b].owed = None] ELSE fs
    BY <1>0 DEF Forgiving
<1>4. Likes(fs, fs)
    BY <1>1 DEF Likes, SameCall
<1>5. CASE Uncatchable(over) /\ ~Uncatchable(e) /\ b # 0
    <2>1. gs = [fs EXCEPT ![b].owed = None]
        BY <1>3, <1>5
    <2>2. b \in 1 .. Len(fs) /\ fs[b].kind = "call"
        BY <1>2, <1>5
    <2>7. None \in Errors \cup {None}
        OBVIOUS
    <2>3. /\ gs \in Seq(Frame) /\ Likes(fs, gs)
          /\ \A i \in 1 .. Len(fs) :
                gs[i] = IF i = b THEN [fs[b] EXCEPT !.owed = None] ELSE fs[i]
        <3>1. Notes(fs, gs, b, None)
            BY <2>1, <2>2, <2>7, OwedType
        <3> QED
            BY <3>1 DEF Notes
    <2>4. fs[b] \in CallFrame
        BY <1>1, <2>2, FrameIs
    <2>5. gs[b].owed = None
        BY <2>2, <2>3, <2>4 DEF CallFrame
    <2>6. ASSUME NEW i \in 1 .. Len(fs), fs[i].kind = "call", Reaches(fs, i, Len(fs) + 1)
          PROVE  i = b
        BY <1>1, <1>2, <1>5, <2>2, <2>6 DEF Reaches
    <2> QED
        BY <2>3, <2>5, <2>6
<1>6. CASE ~(Uncatchable(over) /\ ~Uncatchable(e) /\ b # 0)
    <2>1. gs = fs
        BY <1>3, <1>6
    <2>2. Uncatchable(over) /\ ~Uncatchable(e) => \A i \in 1 .. Len(fs) : fs[i].kind # "call"
        BY <1>2, <1>6
    <2> QED
        BY <1>4, <2>1, <2>2
<1> QED
    BY <1>5, <1>6

--------------------------------------------------------------------------------
(* Which state's code a stack of frames runs.                                   *)

InnerKinds == {"resume", "wrap", "closing"}

\* Of the first n frames, the innermost that runs a state's code runs s's.
Innermost(fs, n, s) ==
    \/ s = Main /\ \A j \in 1 .. n : fs[j].kind \notin InnerKinds
    \/ \E j \in 1 .. n :
        /\ fs[j].kind \in InnerKinds /\ fs[j].on = s
        /\ \A k \in 1 .. n : fs[k].kind \in InnerKinds => k <= j

\* Every frame remembers the state it was entered from, and s runs now.
Chained(fs, s) ==
    /\ \A i \in 1 .. Len(fs) :
        fs[i].kind \in InnerKinds => Innermost(fs, i - 1, fs[i].from)
    /\ Innermost(fs, Len(fs), s)

SameInner(fs, gs, n) ==
    \A i \in 1 .. n : gs[i] = fs[i] \/ {fs[i].kind, gs[i].kind} \cap InnerKinds = {}

LEMMA InnermostSame ==
    ASSUME NEW fs, NEW gs, NEW n \in Nat, NEW s, SameInner(fs, gs, n), Innermost(fs, n, s)
    PROVE  Innermost(gs, n, s)
<1>1. \A i \in 1 .. n : /\ fs[i].kind \in InnerKinds <=> gs[i].kind \in InnerKinds
                        /\ fs[i].kind \in InnerKinds => gs[i] = fs[i]
    BY DEF SameInner
<1>2. CASE s = Main /\ \A j \in 1 .. n : fs[j].kind \notin InnerKinds
    BY <1>1, <1>2 DEF Innermost
<1>3. CASE \E j \in 1 .. n :
            /\ fs[j].kind \in InnerKinds /\ fs[j].on = s
            /\ \A k \in 1 .. n : fs[k].kind \in InnerKinds => k <= j
    BY <1>1, <1>3 DEF Innermost
<1> QED
    BY <1>2, <1>3 DEF Innermost

LEMMA InnermostPlain ==
    ASSUME NEW fs, NEW n \in Nat, NEW s, fs[n + 1].kind \notin InnerKinds
    PROVE  Innermost(fs, n, s) <=> Innermost(fs, n + 1, s)
<1>1. \A j : j \in 1 .. n + 1 <=> j \in 1 .. n \/ j = n + 1
    OBVIOUS
<1> QED
    BY <1>1 DEF Innermost

LEMMA InnermostTop ==
    ASSUME NEW fs, NEW n \in Nat, NEW s, fs[n + 1].kind \in InnerKinds
    PROVE  Innermost(fs, n + 1, s) <=> s = fs[n + 1].on
<1>1. \A j : j \in 1 .. n + 1 => j \in Int /\ j <= n + 1
    OBVIOUS
<1>2. n + 1 \in 1 .. n + 1
    OBVIOUS
<1>3. ASSUME Innermost(fs, n + 1, s) PROVE s = fs[n + 1].on
    <2>1. PICK j \in 1 .. n + 1 :
            /\ fs[j].kind \in InnerKinds /\ fs[j].on = s
            /\ \A k \in 1 .. n + 1 : fs[k].kind \in InnerKinds => k <= j
        BY <1>2, <1>3 DEF Innermost
    <2>2. j = n + 1
        BY <1>1, <1>2, <2>1
    <2> QED
        BY <2>1, <2>2
<1>4. ASSUME s = fs[n + 1].on PROVE Innermost(fs, n + 1, s)
    BY <1>1, <1>2, <1>4 DEF Innermost
<1> QED
    BY <1>3, <1>4

LEMMA ChainedPush ==
    ASSUME NEW fs \in Seq(Frame), NEW gs \in Seq(Frame), NEW f, Pushes(fs, gs, f),
           NEW s, Chained(fs, s), f.kind \in InnerKinds => f.from = s
    PROVE  Chained(gs, IF f.kind \in InnerKinds THEN f.on ELSE s)
<1> DEFINE n == Len(fs)
<1>1. n \in Nat /\ Len(gs) = n + 1 /\ gs[n + 1] = f /\ \A i \in 1 .. n : gs[i] = fs[i]
    BY DEF Pushes
<1> HIDE DEF n
<1>2. ASSUME NEW i \in 0 .. n, NEW x, Innermost(fs, i, x) PROVE Innermost(gs, i, x)
    <2>1. SameInner(fs, gs, i) /\ i \in Nat
        BY <1>1 DEF SameInner
    <2> QED
        BY <1>2, <2>1, InnermostSame
<1>3. Innermost(gs, n, s)
    BY <1>1, <1>2 DEF Chained, n
<1>4. ASSUME NEW i \in 1 .. n + 1, gs[i].kind \in InnerKinds
      PROVE  Innermost(gs, i - 1, gs[i].from)
    <2>1. CASE i = n + 1
        BY <1>1, <1>3, <1>4, <2>1
    <2>2. CASE i # n + 1
        <3>1. i \in 1 .. n /\ i - 1 \in 0 .. n
            BY <1>1, <2>2
        <3>2. Innermost(fs, i - 1, fs[i].from)
            BY <1>1, <1>4, <3>1 DEF Chained, n
        <3> QED
            BY <1>1, <1>2, <3>1, <3>2
    <2> QED
        BY <2>1, <2>2
<1>5. Innermost(gs, n + 1, IF f.kind \in InnerKinds THEN f.on ELSE s)
    <2>1. CASE f.kind \in InnerKinds
        BY <1>1, <2>1, InnermostTop
    <2>2. CASE f.kind \notin InnerKinds
        BY <1>1, <1>3, <2>2, InnermostPlain
    <2> QED
        BY <2>1, <2>2
<1> QED
    BY <1>1, <1>4, <1>5 DEF Chained

LEMMA ChainedPop ==
    ASSUME NEW fs \in Seq(Frame), NEW gs \in Seq(Frame), Pops(fs, gs),
           NEW s, Chained(fs, s), NEW f, f = fs[Len(fs)]
    PROVE  /\ Chained(gs, IF f.kind \in InnerKinds THEN f.from ELSE s)
           /\ f.kind \in InnerKinds => s = f.on
<1>1. PICK n \in Nat : Len(gs) = n /\ Len(fs) = n + 1
    BY DEF Pops
<1>2. \A i \in 1 .. n : gs[i] = fs[i]
    BY <1>1 DEF Pops
<1>3. ASSUME NEW i \in 0 .. n, NEW x, Innermost(fs, i, x) PROVE Innermost(gs, i, x)
    <2>1. SameInner(fs, gs, i) /\ i \in Nat
        BY <1>2 DEF SameInner
    <2> QED
        BY <1>3, <2>1, InnermostSame
<1>4. Innermost(fs, n + 1, s) /\ f = fs[n + 1]
    BY <1>1 DEF Chained
<1>5. ASSUME NEW i \in 1 .. n, gs[i].kind \in InnerKinds
      PROVE  Innermost(gs, i - 1, gs[i].from)
    <2>1. i \in 1 .. n + 1 /\ i - 1 \in 0 .. n
        OBVIOUS
    <2>2. Innermost(fs, i - 1, fs[i].from)
        BY <1>1, <1>2, <1>5, <2>1 DEF Chained
    <2> QED
        BY <1>2, <1>3, <2>1, <2>2
<1>6. CASE f.kind \in InnerKinds
    <2>1. s = f.on
        BY <1>4, <1>6, InnermostTop
    <2>2. Innermost(fs, n, f.from)
        <3>1. n + 1 \in 1 .. n + 1 /\ n + 1 - 1 = n
            OBVIOUS
        <3> QED
            BY <1>1, <1>4, <1>6, <3>1 DEF Chained
    <2>3. Innermost(gs, n, f.from)
        BY <1>3, <2>2
    <2> QED
        BY <1>1, <1>5, <1>6, <2>1, <2>3 DEF Chained
<1>7. CASE f.kind \notin InnerKinds
    <2>1. Innermost(fs, n, s)
        BY <1>4, <1>7, InnermostPlain
    <2>2. Innermost(gs, n, s)
        BY <1>3, <2>1
    <2> QED
        BY <1>1, <1>5, <1>7, <2>2 DEF Chained
<1> QED
    BY <1>6, <1>7

LEMMA ChainedLike ==
    ASSUME NEW fs \in Seq(Frame), NEW gs \in Seq(Frame), Likes(fs, gs),
           NEW s, Chained(fs, s)
    PROVE  Chained(gs, s)
<1>1. PICK n \in Nat : Len(gs) = n /\ Len(fs) = n
    BY DEF Likes
<1>2. ASSUME NEW i \in 1 .. n
      PROVE  /\ gs[i] = fs[i] \/ {fs[i].kind, gs[i].kind} \cap InnerKinds = {}
    BY <1>1 DEF Likes, SameCall, InnerKinds
<1>3. ASSUME NEW i \in 0 .. n, NEW x, Innermost(fs, i, x) PROVE Innermost(gs, i, x)
    <2>1. SameInner(fs, gs, i) /\ i \in Nat
        BY <1>2 DEF SameInner
    <2> QED
        BY <1>3, <2>1, InnermostSame
<1>4. ASSUME NEW i \in 1 .. n, gs[i].kind \in InnerKinds
      PROVE  Innermost(gs, i - 1, gs[i].from)
    <2>1. gs[i] = fs[i] /\ i - 1 \in 0 .. n
        BY <1>2, <1>4
    <2>2. Innermost(fs, i - 1, fs[i].from)
        BY <1>1, <1>4, <2>1 DEF Chained
    <2> QED
        BY <1>3, <2>1, <2>2
<1> QED
    BY <1>1, <1>3, <1>4 DEF Chained

--------------------------------------------------------------------------------
(* What the counters count.                                                     *)

OpenCalls(fs)  == {i \in 1 .. Len(fs) : fs[i].kind = "call" /\ fs[i].phase # "settle"}
HostFrames(fs) == {i \in 1 .. Len(fs) : fs[i].kind = "callable"}
Resumed(fs)    == {i \in 1 .. Len(fs) : fs[i].kind \in {"resume", "wrap"}}

Counted(fs, lua, php, depth) ==
    /\ lua = Cardinality(OpenCalls(fs))
    /\ php = Cardinality(HostFrames(fs))
    /\ depth = Cardinality(Resumed(fs))

LEMMA OneMore ==
    ASSUME NEW n \in Nat, NEW S \in SUBSET (1 .. n)
    PROVE  /\ Cardinality(S) \in Nat
           /\ Cardinality(S \cup {n + 1}) = Cardinality(S) + 1
<1>1. IsFiniteSet(1 .. n)
    BY FS_Interval
<1>2. IsFiniteSet(S) /\ Cardinality(S) \in Nat
    BY <1>1, FS_Subset, FS_CardinalityType
<1>3. n + 1 \notin S
    OBVIOUS
<1> QED
    BY <1>2, <1>3, FS_AddElement

LEMMA CountedPush ==
    ASSUME NEW fs \in Seq(Frame), NEW gs \in Seq(Frame), NEW f, Pushes(fs, gs, f),
           NEW lua, NEW php, NEW depth
    PROVE  /\ Cardinality(OpenCalls(fs)) \in Nat /\ Cardinality(HostFrames(fs)) \in Nat
           /\ Cardinality(Resumed(fs)) \in Nat
           /\ Cardinality(OpenCalls(gs)) = IF f.kind = "call" /\ f.phase # "settle"
                  THEN Cardinality(OpenCalls(fs)) + 1 ELSE Cardinality(OpenCalls(fs))
           /\ Cardinality(HostFrames(gs)) = IF f.kind = "callable"
                  THEN Cardinality(HostFrames(fs)) + 1 ELSE Cardinality(HostFrames(fs))
           /\ Cardinality(Resumed(gs)) = IF f.kind \in {"resume", "wrap"}
                  THEN Cardinality(Resumed(fs)) + 1 ELSE Cardinality(Resumed(fs))
<1>1. PICK n \in Nat : Len(fs) = n
    OBVIOUS
<1>2. Len(gs) = n + 1 /\ gs[n + 1] = f /\ \A i \in 1 .. n : gs[i] = fs[i]
    BY <1>1 DEF Pushes
<1>3. \A i : i \in 1 .. n + 1 <=> i \in 1 .. n \/ i = n + 1
    OBVIOUS
<1>4. n + 1 \notin 1 .. n
    OBVIOUS
<1>5. /\ OpenCalls(fs) \in SUBSET (1 .. n) /\ HostFrames(fs) \in SUBSET (1 .. n)
      /\ Resumed(fs) \in SUBSET (1 .. n)
    BY <1>1 DEF OpenCalls, HostFrames, Resumed
<1>6. OpenCalls(gs) = IF f.kind = "call" /\ f.phase # "settle"
                      THEN OpenCalls(fs) \cup {n + 1} ELSE OpenCalls(fs)
    BY <1>1, <1>2, <1>3, <1>4 DEF OpenCalls
<1>7. HostFrames(gs) = IF f.kind = "callable" THEN HostFrames(fs) \cup {n + 1} ELSE HostFrames(fs)
    BY <1>1, <1>2, <1>3, <1>4 DEF HostFrames
<1>8. Resumed(gs) = IF f.kind \in {"resume", "wrap"} THEN Resumed(fs) \cup {n + 1}
                    ELSE Resumed(fs)
    BY <1>1, <1>2, <1>3, <1>4 DEF Resumed
<1>9. /\ Cardinality(OpenCalls(fs)) \in Nat
      /\ Cardinality(OpenCalls(fs) \cup {n + 1}) = Cardinality(OpenCalls(fs)) + 1
    BY <1>5, OneMore
<1>10. /\ Cardinality(HostFrames(fs)) \in Nat
       /\ Cardinality(HostFrames(fs) \cup {n + 1}) = Cardinality(HostFrames(fs)) + 1
    BY <1>5, OneMore
<1>11. /\ Cardinality(Resumed(fs)) \in Nat
       /\ Cardinality(Resumed(fs) \cup {n + 1}) = Cardinality(Resumed(fs)) + 1
    BY <1>5, OneMore
<1> QED
    BY <1>6, <1>7, <1>8, <1>9, <1>10, <1>11

LEMMA CountedLike ==
    ASSUME NEW fs \in Seq(Frame), NEW gs \in Seq(Frame), Likes(fs, gs)
    PROVE  /\ OpenCalls(gs) = OpenCalls(fs) /\ HostFrames(gs) = HostFrames(fs)
           /\ Resumed(gs) = Resumed(fs)
<1>1. Len(gs) = Len(fs)
    BY DEF Likes
<1>2. ASSUME NEW i \in 1 .. Len(fs)
      PROVE  gs[i].kind = fs[i].kind /\ (fs[i].kind = "call" => gs[i].phase = fs[i].phase)
    BY DEF Likes, SameCall
<1> QED
    BY <1>1, <1>2 DEF OpenCalls, HostFrames, Resumed

LuaOf(f)   == IF f.kind = "call" /\ f.phase # "settle" THEN 1 ELSE 0
PhpOf(f)   == IF f.kind = "callable" THEN 1 ELSE 0
DepthOf(f) == IF f.kind \in {"resume", "wrap"} THEN 1 ELSE 0

LEMMA PoppedIsPushed ==
    ASSUME NEW fs \in Seq(Frame), NEW gs \in Seq(Frame), Pops(fs, gs)
    PROVE  Pushes(gs, fs, fs[Len(fs)])
BY DEF Pops, Pushes

LEMMA CountedUp ==
    ASSUME NEW fs \in Seq(Frame), NEW gs \in Seq(Frame), NEW f, Pushes(fs, gs, f),
           NEW lua, NEW php, NEW depth, Counted(fs, lua, php, depth)
    PROVE  /\ Counted(gs, lua + LuaOf(f), php + PhpOf(f), depth + DepthOf(f))
           /\ lua \in Nat /\ php \in Nat /\ depth \in Nat
BY CountedPush DEF Counted, LuaOf, PhpOf, DepthOf

LEMMA CountedDown ==
    ASSUME NEW fs \in Seq(Frame), NEW gs \in Seq(Frame), Pops(fs, gs), NEW f, f = fs[Len(fs)],
           NEW lua, NEW php, NEW depth, Counted(fs, lua, php, depth)
    PROVE  /\ Counted(gs, lua - LuaOf(f), php - PhpOf(f), depth - DepthOf(f))
           /\ lua - LuaOf(f) \in Nat /\ php - PhpOf(f) \in Nat /\ depth - DepthOf(f) \in Nat
           /\ lua \in Nat /\ php \in Nat /\ depth \in Nat
<1>1. Pushes(gs, fs, f)
    BY PoppedIsPushed
<1> QED
    BY <1>1, CountedPush DEF Counted, LuaOf, PhpOf, DepthOf

--------------------------------------------------------------------------------
(* What each frame can stand on, and what can stand on it.                      *)

\* Under such a frame on top no Lua code is running, and no error is in flight.
Hushed(f) ==
    \/ f.kind \in {"callable", "backend"}
    \/ f.kind = "call" /\ f.phase \in {"walk", "files", "sample"}

\* It is under a host's frame, an entry or a sweep's close alone.
MayHush(f) ==
    f.kind \in {"call", "backend"} \/ (f.kind = "closing" /\ f.who = "sweep")

Seat(fs, i) ==
    /\ i = 1 => fs[i].kind = "call"
    /\ i > 1 /\ ~MayHush(fs[i]) => ~Hushed(fs[i - 1])
    /\ fs[i].kind = "call" =>
        /\ fs[i].outer <=> i = 1
        /\ i > 1 => fs[i - 1].kind \in {"callable", "backend"}
        /\ fs[i].phase \in {"walk", "files"} => i = 1
    /\ fs[i].kind = "closing" /\ fs[i].who = "self" =>
        i > 1 /\ fs[i - 1].kind \in {"resume", "wrap"} /\ fs[i - 1].on = fs[i].on
    /\ fs[i].kind = "closing" /\ fs[i].who = "sweep" =>
        i = 2 /\ fs[1].kind = "call" /\ fs[1].phase = "walk"
    /\ fs[i].kind = "closing" /\ i < Len(fs) => fs[i + 1].kind = "handler"
    /\ fs[i].kind = "create" /\ i < Len(fs) => fs[i + 1].kind = "gc"
    /\ fs[i].kind \in {"callable", "backend"} =>
        \E j \in 1 .. i - 1 : fs[j].kind = "call" /\ fs[j].phase # "settle"

Built(fs) == \A i \in 1 .. Len(fs) : Seat(fs, i)

LEMMA BuiltPush ==
    ASSUME NEW fs \in Seq(Frame), NEW gs \in Seq(Frame), NEW f, Pushes(fs, gs, f),
           Built(fs), Seat(gs, Len(fs) + 1),
           Len(fs) > 0 /\ fs[Len(fs)].kind = "closing" => f.kind = "handler",
           Len(fs) > 0 /\ fs[Len(fs)].kind = "create" => f.kind = "gc"
    PROVE  Built(gs)
<1>1. PICK n \in Nat : Len(fs) = n
    OBVIOUS
<1>2. Len(gs) = n + 1 /\ gs[n + 1] = f /\ \A i \in 1 .. n : gs[i] = fs[i]
    BY <1>1 DEF Pushes
<1>3. ASSUME NEW i \in 1 .. n PROVE Seat(gs, i)
    <2>1. Seat(fs, i) /\ gs[i] = fs[i]
        BY <1>1, <1>2 DEF Built
    <2>2. \A j \in 1 .. i : gs[j] = fs[j]
        BY <1>2
    <2>3. i > 1 => gs[i - 1] = fs[i - 1]
        BY <1>2
    <2>4. gs[1] = fs[1]
        BY <1>2
    <2>5. i < n => gs[i + 1] = fs[i + 1]
        BY <1>2
    <2>6. fs[i].kind = "closing" => gs[i + 1].kind = "handler"
        BY <1>1, <1>2, <2>1, <2>5 DEF Seat
    <2>7. fs[i].kind = "create" => gs[i + 1].kind = "gc"
        BY <1>1, <1>2, <2>1, <2>5 DEF Seat
    <2>9. i > 1 /\ ~MayHush(gs[i]) => ~Hushed(gs[i - 1])
        BY <2>1, <2>3 DEF Seat
    <2>8. fs[i].kind \in {"callable", "backend"} =>
            \E j \in 1 .. i - 1 : gs[j].kind = "call" /\ gs[j].phase # "settle"
        BY <2>1, <2>2 DEF Seat
    <2> QED
        BY <2>1, <2>3, <2>4, <2>6, <2>7, <2>8, <2>9 DEF Seat
<1>4. Seat(gs, n + 1)
    BY <1>1
<1> QED
    BY <1>2, <1>3, <1>4 DEF Built

LEMMA PlainSeat ==
    ASSUME NEW fs \in Seq(Frame), NEW gs \in Seq(Frame), NEW f \in Frame, Pushes(fs, gs, f),
           Len(fs) > 0, f.kind \notin {"call", "callable", "backend"},
           f.kind = "closing" => f.who \in {"close", "wrap"}, ~Hushed(fs[Len(fs)])
    PROVE  Seat(gs, Len(fs) + 1)
<1>1. PICK n \in Nat : Len(fs) = n /\ n > 0
    OBVIOUS
<1>2. Len(gs) = n + 1 /\ gs[n + 1] = f /\ gs[n] = fs[n]
    BY <1>1 DEF Pushes
<1>3. n + 1 > 1 /\ ~MayHush(gs[n + 1]) => ~Hushed(gs[n])
    BY <1>1, <1>2
<1>4. Seat(gs, n + 1)
    BY <1>1, <1>2, <1>3 DEF Seat
<1> QED
    BY <1>1, <1>4

LEMMA BuiltPop ==
    ASSUME NEW fs \in Seq(Frame), NEW gs \in Seq(Frame), Pops(fs, gs), Built(fs)
    PROVE  Built(gs)
<1>1. PICK n \in Nat : Len(gs) = n /\ Len(fs) = n + 1
    BY DEF Pops
<1>2. \A i \in 1 .. n : gs[i] = fs[i]
    BY <1>1 DEF Pops
<1>3. ASSUME NEW i \in 1 .. n PROVE Seat(gs, i)
    <2>1. Seat(fs, i) /\ gs[i] = fs[i]
        BY <1>1, <1>2 DEF Built
    <2>2. \A j \in 1 .. i - 1 : gs[j] = fs[j]
        BY <1>2
    <2>3. i > 1 => gs[i - 1] = fs[i - 1]
        BY <1>2
    <2>4. gs[1] = fs[1]
        BY <1>2
    <2>5. i < n => gs[i + 1] = fs[i + 1]
        BY <1>2
    <2>6. fs[i].kind \in {"callable", "backend"} =>
            \E j \in 1 .. i - 1 : gs[j].kind = "call" /\ gs[j].phase # "settle"
        BY <2>1, <2>2 DEF Seat
    <2>7. i > 1 /\ ~MayHush(gs[i]) => ~Hushed(gs[i - 1])
        BY <2>1, <2>3 DEF Seat
    <2> QED
        BY <1>1, <2>1, <2>3, <2>4, <2>5, <2>6, <2>7 DEF Seat
<1> QED
    BY <1>1, <1>3 DEF Built

LEMMA BuiltLike ==
    ASSUME NEW fs \in Seq(Frame), NEW gs \in Seq(Frame), Likes(fs, gs), Built(fs)
    PROVE  Built(gs)
<1>1. PICK n \in Nat : Len(gs) = n /\ Len(fs) = n
    BY DEF Likes
<1>2. \A i \in 1 .. n : IF fs[i].kind = "call" THEN SameCall(fs[i], gs[i]) ELSE gs[i] = fs[i]
    BY <1>1 DEF Likes
<1>3. \A i \in 1 .. n : /\ gs[i].kind = fs[i].kind
                        /\ fs[i].kind # "call" => gs[i] = fs[i]
                        /\ fs[i].kind = "call" => /\ gs[i].phase = fs[i].phase
                                                  /\ gs[i].outer = fs[i].outer
    BY <1>2 DEF SameCall
<1>4. ASSUME NEW i \in 1 .. n PROVE Seat(gs, i)
    <2>1. Seat(fs, i)
        BY <1>1 DEF Built
    <2>2. \A j \in 1 .. i - 1 : j \in 1 .. n
        BY <1>1
    <2>3. i > 1 => i - 1 \in 1 .. n
        BY <1>1
    <2>4. 1 \in 1 .. n
        OBVIOUS
    <2>5. i < n => i + 1 \in 1 .. n
        BY <1>1
    <2>6. fs[i].kind \in {"callable", "backend"} =>
            \E j \in 1 .. i - 1 : gs[j].kind = "call" /\ gs[j].phase # "settle"
        BY <1>3, <2>1, <2>2 DEF Seat
    <2>8. MayHush(gs[i]) <=> MayHush(fs[i])
        BY <1>3 DEF MayHush
    <2>9. i > 1 => (Hushed(gs[i - 1]) <=> Hushed(fs[i - 1]))
        BY <1>3, <2>3 DEF Hushed
    <2>7. i > 1 /\ ~MayHush(gs[i]) => ~Hushed(gs[i - 1])
        BY <2>1, <2>8, <2>9 DEF Seat
    <2> QED
        BY <1>1, <1>3, <2>1, <2>3, <2>4, <2>5, <2>6, <2>7 DEF Seat
<1> QED
    BY <1>1, <1>4 DEF Built

(* Host code runs under an entry that is not over, so the first entry alone is  *)
(* the one that in_lua counted from zero, and sweeps.                           *)
LEMMA HostIsUnderLua ==
    ASSUME NEW fs \in Seq(Frame), Built(fs), NEW lua, lua = Cardinality(OpenCalls(fs)),
           Len(fs) > 0, fs[Len(fs)].kind \in {"callable", "backend"}
    PROVE  lua \in Nat /\ lua # 0
<1>1. PICK n \in Nat : Len(fs) = n /\ n > 0
    OBVIOUS
<1>2. Seat(fs, n)
    BY <1>1 DEF Built
<1>3. PICK j \in 1 .. n - 1 : fs[j].kind = "call" /\ fs[j].phase # "settle"
    BY <1>1, <1>2 DEF Seat
<1>4. j \in OpenCalls(fs)
    BY <1>1, <1>3 DEF OpenCalls
<1>5. OpenCalls(fs) \in SUBSET (1 .. n) /\ IsFiniteSet(1 .. n)
    BY <1>1, FS_Interval DEF OpenCalls
<1> QED
    BY <1>4, <1>5, FS_Subset, FS_CardinalityType, FS_EmptySet

LEMMA OnlyEntry ==
    ASSUME NEW fs \in Seq(Frame), Built(fs), Cardinality(OpenCalls(fs)) = 1,
           Len(fs) > 0, fs[Len(fs)].kind = "call", fs[Len(fs)].phase # "settle"
    PROVE  Len(fs) = 1
<1>1. PICK n \in Nat : Len(fs) = n /\ n > 0
    OBVIOUS
<1>2. SUFFICES ASSUME n > 1 PROVE FALSE
    BY <1>1
<1>3. Seat(fs, n) /\ Seat(fs, n - 1)
    BY <1>1, <1>2 DEF Built
<1>4. fs[n - 1].kind \in {"callable", "backend"}
    BY <1>1, <1>2, <1>3 DEF Seat
<1>5. PICK j \in 1 .. n - 1 - 1 : fs[j].kind = "call" /\ fs[j].phase # "settle"
    BY <1>1, <1>3, <1>4 DEF Seat
<1>6. j \in OpenCalls(fs) /\ n \in OpenCalls(fs) /\ j # n
    BY <1>1, <1>5 DEF OpenCalls
<1>7. OpenCalls(fs) \in SUBSET (1 .. n) /\ IsFiniteSet(1 .. n)
    BY <1>1, FS_Interval DEF OpenCalls
<1>8. PICK x : OpenCalls(fs) = {x}
    BY <1>7, FS_Subset, FS_Singleton
<1> QED
    BY <1>6, <1>8

--------------------------------------------------------------------------------
(* The bodies of the coroutines, and the frames that run or close them.         *)

Bodies(fs, ts) ==
    /\ \A t \in Threads : ts[t].status \in {"dead", "unborn"} => ~ts[t].open
    /\ \A t \in Threads : ts[t].status = "active" =>
        \E i \in 1 .. Len(fs) : fs[i].kind \in {"resume", "wrap"} /\ fs[i].on = t
    /\ \A i \in 1 .. Len(fs) :
        fs[i].kind \in {"resume", "wrap"} => ts[fs[i].on].status = "active"
    /\ \A i \in 1 .. Len(fs) : fs[i].kind = "closing" =>
        IF fs[i].who = "self" THEN ts[fs[i].on].status = "active"
        ELSE ts[fs[i].on].status \notin {"active", "unborn"}
    /\ \A i, j \in 1 .. Len(fs) :
        fs[i].kind \in {"resume", "wrap"} /\ fs[j].kind \in {"resume", "wrap"} =>
            (fs[i].on = fs[j].on => i = j)
    /\ \A i, j \in 1 .. Len(fs) :
        fs[i].kind = "closing" /\ fs[j].kind = "closing" /\ fs[i].on = fs[j].on => i = j
    /\ \A i \in 1 .. Len(fs) : fs[i].kind = "closing" /\ i < Len(fs) =>
        fs[i + 1].over = ts[fs[i].on].err

OnlyChanges(ts, us, t) == \A o \in Threads : o # t => us[o] = ts[o]
KeepsErrors(ts, us) ==
    \A t \in Threads : us[t].status = ts[t].status /\ us[t].err = ts[t].err

ClosedIn(fs, t) == \E i \in 1 .. Len(fs) : fs[i].kind = "closing" /\ fs[i].on = t

LEMMA BodiesPush ==
    ASSUME NEW fs \in Seq(Frame), NEW gs \in Seq(Frame), NEW f, Pushes(fs, gs, f),
           NEW ts, Bodies(fs, ts), f.kind \notin InnerKinds,
           Len(fs) > 0 /\ fs[Len(fs)].kind = "closing" => f.over = ts[fs[Len(fs)].on].err
    PROVE  Bodies(gs, ts)
<1>1. PICK n \in Nat : Len(fs) = n
    OBVIOUS
<1>2. Len(gs) = n + 1 /\ gs[n + 1] = f /\ \A i \in 1 .. n : gs[i] = fs[i] /\ i \in 1 .. n + 1
    BY <1>1 DEF Pushes
<1>3. \A i \in 1 .. n + 1 : gs[i].kind \in InnerKinds => i \in 1 .. n /\ gs[i] = fs[i]
    BY <1>2
<1>4. \A i \in 1 .. n + 1 : gs[i].kind \in {"resume", "wrap"} => gs[i].kind \in InnerKinds
    BY DEF InnerKinds
<1>5. \A i \in 1 .. n + 1 : gs[i].kind = "closing" => gs[i].kind \in InnerKinds
    BY DEF InnerKinds
<1>6. ASSUME NEW i \in 1 .. n + 1, gs[i].kind = "closing", i < n + 1
      PROVE  gs[i + 1].over = ts[gs[i].on].err
    <2>1. i \in 1 .. n /\ gs[i] = fs[i]
        BY <1>3, <1>5, <1>6
    <2>2. CASE i = n
        BY <1>1, <1>2, <1>6, <2>1, <2>2
    <2>3. CASE i < n
        <3>1. i + 1 \in 1 .. n
            BY <2>3
        <3> QED
            BY <1>1, <1>2, <1>6, <2>1, <2>3, <3>1 DEF Bodies
    <2> QED
        BY <2>1, <2>2, <2>3
<1>7. \A t \in Threads : ts[t].status = "active" =>
        \E i \in 1 .. n + 1 : gs[i].kind \in {"resume", "wrap"} /\ gs[i].on = t
    BY <1>1, <1>2 DEF Bodies
<1>8. \A i \in 1 .. n + 1 :
        gs[i].kind \in {"resume", "wrap"} => ts[gs[i].on].status = "active"
    BY <1>1, <1>3, <1>4 DEF Bodies
<1>9. \A i \in 1 .. n + 1 : gs[i].kind = "closing" =>
        IF gs[i].who = "self" THEN ts[gs[i].on].status = "active"
        ELSE ts[gs[i].on].status \notin {"active", "unborn"}
    BY <1>1, <1>3, <1>5 DEF Bodies
<1>10. \A i, j \in 1 .. n + 1 :
        gs[i].kind \in {"resume", "wrap"} /\ gs[j].kind \in {"resume", "wrap"} =>
            (gs[i].on = gs[j].on => i = j)
    BY <1>1, <1>3, <1>4 DEF Bodies
<1>11. \A i, j \in 1 .. n + 1 :
        gs[i].kind = "closing" /\ gs[j].kind = "closing" /\ gs[i].on = gs[j].on => i = j
    BY <1>1, <1>3, <1>5 DEF Bodies
<1>12. \A t \in Threads : ts[t].status \in {"dead", "unborn"} => ~ts[t].open
    BY DEF Bodies
<1> QED
    BY <1>2, <1>6, <1>7, <1>8, <1>9, <1>10, <1>11, <1>12 DEF Bodies

LEMMA BodiesPop ==
    ASSUME NEW fs \in Seq(Frame), NEW gs \in Seq(Frame), Pops(fs, gs),
           NEW ts, Bodies(fs, ts), fs[Len(fs)].kind \notin {"resume", "wrap"}
    PROVE  Bodies(gs, ts)
<1>1. PICK n \in Nat : Len(gs) = n /\ Len(fs) = n + 1
    BY DEF Pops
<1>2. \A i \in 1 .. n : gs[i] = fs[i] /\ i \in 1 .. n + 1
    BY <1>1 DEF Pops
<1>3. \A t \in Threads : ts[t].status = "active" =>
        \E i \in 1 .. n : gs[i].kind \in {"resume", "wrap"} /\ gs[i].on = t
    <2>1. ASSUME NEW t \in Threads, ts[t].status = "active"
          PROVE  \E i \in 1 .. n : gs[i].kind \in {"resume", "wrap"} /\ gs[i].on = t
        <3>1. PICK i \in 1 .. n + 1 : fs[i].kind \in {"resume", "wrap"} /\ fs[i].on = t
            BY <1>1, <2>1 DEF Bodies
        <3>2. i \in 1 .. n
            BY <1>1, <3>1
        <3> QED
            BY <1>2, <3>1, <3>2
    <2> QED
        BY <2>1
<1>4. \A i \in 1 .. n : gs[i].kind = "closing" /\ i < n => gs[i + 1].over = ts[gs[i].on].err
    <2>1. ASSUME NEW i \in 1 .. n, gs[i].kind = "closing", i < n
          PROVE  gs[i + 1].over = ts[gs[i].on].err
        <3>1. i + 1 \in 1 .. n /\ i < n + 1
            BY <2>1
        <3> QED
            BY <1>1, <1>2, <2>1, <3>1 DEF Bodies
    <2> QED
        BY <2>1
<1> QED
    BY <1>1, <1>2, <1>3, <1>4 DEF Bodies

LEMMA BodiesLike ==
    ASSUME NEW fs \in Seq(Frame), NEW gs \in Seq(Frame), Likes(fs, gs),
           NEW ts, Bodies(fs, ts), Built(fs)
    PROVE  Bodies(gs, ts)
<1>1. PICK n \in Nat : Len(gs) = n /\ Len(fs) = n
    BY DEF Likes
<1>2. \A i \in 1 .. n : gs[i] = fs[i] \/ (fs[i].kind = "call" /\ gs[i].kind = "call")
    BY <1>1 DEF Likes, SameCall
<1>3. \A i \in 1 .. n : gs[i].kind = "closing" \/ fs[i].kind = "closing" => gs[i] = fs[i]
    BY <1>2
<1>4. \A i \in 1 .. n : gs[i].kind \in {"resume", "wrap"} \/ fs[i].kind \in {"resume", "wrap"}
                            => gs[i] = fs[i]
    BY <1>2
<1>5. \A i \in 1 .. n : gs[i].kind = "closing" /\ i < n => gs[i + 1].over = ts[gs[i].on].err
    <2>1. ASSUME NEW i \in 1 .. n, gs[i].kind = "closing", i < n
          PROVE  gs[i + 1].over = ts[gs[i].on].err
        <3>1. i + 1 \in 1 .. n /\ gs[i] = fs[i]
            BY <1>3, <2>1
        <3>2. fs[i + 1].kind = "handler"
            BY <1>1, <2>1, <3>1 DEF Built, Seat
        <3>3. gs[i + 1] = fs[i + 1]
            BY <1>2, <3>1, <3>2
        <3> QED
            BY <1>1, <2>1, <3>1, <3>3 DEF Bodies
    <2> QED
        BY <2>1
<1>6. \A t \in Threads : ts[t].status = "active" =>
        \E i \in 1 .. n : gs[i].kind \in {"resume", "wrap"} /\ gs[i].on = t
    BY <1>1, <1>4 DEF Bodies
<1> QED
    BY <1>1, <1>3, <1>4, <1>5, <1>6 DEF Bodies

(* A thread no frame runs or closes may become anything but active.             *)
LEMMA BodiesFree ==
    ASSUME NEW fs \in Seq(Frame), NEW ts, Bodies(fs, ts), NEW us, NEW t \in Threads,
           OnlyChanges(ts, us, t), ts[t].status # "active", ~ClosedIn(fs, t),
           us[t].status # "active", us[t].status \in {"dead", "unborn"} => ~us[t].open
    PROVE  Bodies(fs, us)
<1>1. \A i \in 1 .. Len(fs) : fs[i] \in Frame
    BY ElementOfSeq
<1>2. \A i \in 1 .. Len(fs) : fs[i].kind \in {"resume", "wrap"} =>
        fs[i].on \in Threads /\ fs[i].on # t
    BY <1>1, FrameIs DEF Bodies, ResumeFrame
<1>3. \A i \in 1 .. Len(fs) : fs[i].kind = "closing" => fs[i].on \in Threads /\ fs[i].on # t
    BY <1>1, FrameIs DEF ClosedIn, ClosingFrame
<1>4. \A o \in Threads : us[o].status \in {"dead", "unborn"} => ~us[o].open
    BY DEF Bodies, OnlyChanges
<1>5. \A o \in Threads : us[o].status = "active" =>
        \E i \in 1 .. Len(fs) : fs[i].kind \in {"resume", "wrap"} /\ fs[i].on = o
    BY DEF Bodies, OnlyChanges
<1>6. \A i \in 1 .. Len(fs) :
        fs[i].kind \in {"resume", "wrap"} => us[fs[i].on] = ts[fs[i].on]
    BY <1>2 DEF OnlyChanges
<1>7. \A i \in 1 .. Len(fs) : fs[i].kind = "closing" => us[fs[i].on] = ts[fs[i].on]
    BY <1>3 DEF OnlyChanges
<1> QED
    BY <1>4, <1>5, <1>6, <1>7 DEF Bodies

LEMMA BodiesKept ==
    ASSUME NEW fs \in Seq(Frame), NEW ts, Bodies(fs, ts), NEW us, KeepsErrors(ts, us),
           \A t \in Threads : us[t].open => ts[t].open \/ ts[t].status \notin {"dead", "unborn"}
    PROVE  Bodies(fs, us)
<1>1. \A i \in 1 .. Len(fs) : fs[i] \in Frame
    BY ElementOfSeq
<1>2. \A i \in 1 .. Len(fs) : fs[i].kind \in {"resume", "wrap"} => fs[i].on \in Threads
    BY <1>1, FrameIs DEF ResumeFrame
<1>3. \A i \in 1 .. Len(fs) : fs[i].kind = "closing" => fs[i].on \in Threads
    BY <1>1, FrameIs DEF ClosingFrame
<1>4. \A t \in Threads : us[t].status \in {"dead", "unborn"} => ~us[t].open
    BY DEF Bodies, KeepsErrors
<1>5. \A t \in Threads : us[t].status = "active" =>
        \E i \in 1 .. Len(fs) : fs[i].kind \in {"resume", "wrap"} /\ fs[i].on = t
    BY DEF Bodies, KeepsErrors
<1>6. \A i \in 1 .. Len(fs) :
        fs[i].kind \in {"resume", "wrap"} => us[fs[i].on].status = ts[fs[i].on].status
    BY <1>2 DEF KeepsErrors
<1>7. \A i \in 1 .. Len(fs) : fs[i].kind = "closing" =>
        us[fs[i].on].status = ts[fs[i].on].status /\ us[fs[i].on].err = ts[fs[i].on].err
    BY <1>3 DEF KeepsErrors
<1> QED
    BY <1>4, <1>5, <1>6, <1>7 DEF Bodies

(* Nothing closes the thread that is being resumed on top of the stack.         *)
LEMMA ResumedOpen ==
    ASSUME NEW fs \in Seq(Frame), Built(fs), NEW ts, Bodies(fs, ts), Len(fs) > 0,
           fs[Len(fs)].kind \in {"resume", "wrap"}
    PROVE  /\ fs[Len(fs)].on \in Threads /\ fs[Len(fs)].from \in Threads \cup {Main}
           /\ ts[fs[Len(fs)].on].status = "active"
           /\ ~ClosedIn(fs, fs[Len(fs)].on)
<1>1. PICK n \in Nat : Len(fs) = n /\ n > 0
    OBVIOUS
<1>2. fs[n] \in Frame /\ n \in 1 .. n
    BY <1>1, ElementOfSeq
<1>3. fs[n].on \in Threads /\ fs[n].from \in Threads \cup {Main}
    BY <1>1, <1>2, FrameIs DEF ResumeFrame
<1>4. ts[fs[n].on].status = "active"
    BY <1>1, <1>2 DEF Bodies
<1>5. ASSUME NEW i \in 1 .. n, fs[i].kind = "closing", fs[i].on = fs[n].on PROVE FALSE
    <2>1. fs[i].who = "self"
        BY <1>1, <1>4, <1>5 DEF Bodies
    <2>2. i > 1 /\ fs[i - 1].kind \in {"resume", "wrap"} /\ fs[i - 1].on = fs[i].on
        BY <1>1, <1>5, <2>1 DEF Built, Seat
    <2>3. i - 1 \in 1 .. n
        BY <2>2
    <2>4. i - 1 = n
        BY <1>1, <1>2, <1>5, <2>2, <2>3 DEF Bodies
    <2> QED
        BY <2>4
<1> QED
    BY <1>1, <1>3, <1>4, <1>5 DEF ClosedIn

LEMMA BodiesResume ==
    ASSUME NEW fs \in Seq(Frame), NEW gs \in Seq(Frame), NEW f \in ResumeFrame,
           Pushes(fs, gs, f), NEW ts, NEW us, Bodies(fs, ts),
           Len(fs) > 0 => fs[Len(fs)].kind # "closing",
           OnlyChanges(ts, us, f.on), ts[f.on].status = "suspended", ~ClosedIn(fs, f.on),
           us[f.on].status = "active"
    PROVE  Bodies(gs, us)
<1>1. PICK n \in Nat : Len(fs) = n
    OBVIOUS
<1>2. Len(gs) = n + 1 /\ gs[n + 1] = f /\ \A i \in 1 .. n : gs[i] = fs[i] /\ i \in 1 .. n + 1
    BY <1>1 DEF Pushes
<1>3. f.kind \in {"resume", "wrap"} /\ f.on \in Threads
    BY DEF ResumeFrame
<1>4. \A i \in 1 .. n : fs[i] \in Frame
    BY <1>1, ElementOfSeq
<1>5. \A i \in 1 .. n : fs[i].kind \in {"resume", "wrap"} =>
        fs[i].on \in Threads /\ fs[i].on # f.on
    BY <1>1, <1>4, FrameIs DEF Bodies, ResumeFrame
<1>6. \A i \in 1 .. n : fs[i].kind = "closing" => fs[i].on \in Threads /\ fs[i].on # f.on
    BY <1>1, <1>4, FrameIs DEF ClosedIn, ClosingFrame
<1>7. \A o \in Threads : o # f.on => us[o] = ts[o]
    BY DEF OnlyChanges
<1>8. \A i \in 1 .. n + 1 : i \in 1 .. n \/ i = n + 1
    OBVIOUS
<1>9. \A o \in Threads : us[o].status \in {"dead", "unborn"} => ~us[o].open
    BY <1>7 DEF Bodies
<1>10. \A o \in Threads : us[o].status = "active" =>
        \E i \in 1 .. n + 1 : gs[i].kind \in {"resume", "wrap"} /\ gs[i].on = o
    <2>1. ASSUME NEW o \in Threads, us[o].status = "active"
          PROVE  \E i \in 1 .. n + 1 : gs[i].kind \in {"resume", "wrap"} /\ gs[i].on = o
        <3>1. CASE o = f.on
            BY <1>2, <1>3, <3>1
        <3>2. CASE o # f.on
            BY <1>1, <1>2, <1>7, <2>1, <3>2 DEF Bodies
        <3> QED
            BY <3>1, <3>2
    <2> QED
        BY <2>1
<1>11. \A i \in 1 .. n + 1 :
        gs[i].kind \in {"resume", "wrap"} => us[gs[i].on].status = "active"
    BY <1>1, <1>2, <1>5, <1>7, <1>8 DEF Bodies
<1>12. \A i \in 1 .. n + 1 : gs[i].kind = "closing" => i \in 1 .. n /\ i < n
    BY <1>1, <1>2, <1>3, <1>8
<1>13. \A i \in 1 .. n + 1 : gs[i].kind = "closing" =>
        IF gs[i].who = "self" THEN us[gs[i].on].status = "active"
        ELSE us[gs[i].on].status \notin {"active", "unborn"}
    BY <1>1, <1>2, <1>6, <1>7, <1>12 DEF Bodies
<1>14. \A i, j \in 1 .. n + 1 :
        gs[i].kind \in {"resume", "wrap"} /\ gs[j].kind \in {"resume", "wrap"} =>
            (gs[i].on = gs[j].on => i = j)
    BY <1>1, <1>2, <1>5, <1>8 DEF Bodies
<1>15. \A i, j \in 1 .. n + 1 :
        gs[i].kind = "closing" /\ gs[j].kind = "closing" /\ gs[i].on = gs[j].on => i = j
    BY <1>1, <1>2, <1>12 DEF Bodies
<1>16. \A i \in 1 .. n + 1 : gs[i].kind = "closing" /\ i < n + 1 =>
        gs[i + 1].over = us[gs[i].on].err
    <2>1. ASSUME NEW i \in 1 .. n + 1, gs[i].kind = "closing"
          PROVE  gs[i + 1].over = us[gs[i].on].err
        <3>1. i \in 1 .. n /\ i < n /\ i + 1 \in 1 .. n
            BY <1>12, <2>1
        <3> QED
            BY <1>1, <1>2, <1>6, <1>7, <2>1, <3>1 DEF Bodies
    <2> QED
        BY <2>1
<1> QED
    BY <1>2, <1>9, <1>10, <1>11, <1>13, <1>14, <1>15, <1>16 DEF Bodies

LEMMA BodiesBack ==
    ASSUME NEW fs \in Seq(Frame), NEW gs \in Seq(Frame), Pops(fs, gs), Built(fs),
           NEW ts, NEW us, Bodies(fs, ts), NEW t, t = fs[Len(fs)].on,
           fs[Len(fs)].kind \in {"resume", "wrap"},
           OnlyChanges(ts, us, t), us[t].status # "active",
           us[t].status \in {"dead", "unborn"} => ~us[t].open
    PROVE  Bodies(gs, us)
<1>1. PICK n \in Nat : Len(gs) = n /\ Len(fs) = n + 1
    BY DEF Pops
<1>2. \A i \in 1 .. n : gs[i] = fs[i] /\ i \in 1 .. n + 1
    BY <1>1 DEF Pops
<1>3. t \in Threads /\ ~ClosedIn(fs, t)
    BY <1>1, ResumedOpen
<1>4. \A i \in 1 .. n : fs[i] \in Frame
    BY <1>1, <1>2, ElementOfSeq
<1>5. n + 1 \in 1 .. n + 1 /\ \A i \in 1 .. n : i # n + 1
    OBVIOUS
<1>6. \A i \in 1 .. n : fs[i].kind \in {"resume", "wrap"} => fs[i].on \in Threads /\ fs[i].on # t
    <2>1. ASSUME NEW i \in 1 .. n, fs[i].kind \in {"resume", "wrap"}
          PROVE  fs[i].on \in Threads /\ fs[i].on # t
        <3>1. fs[i].on \in Threads
            BY <1>4, <2>1, FrameIs DEF ResumeFrame
        <3>2. fs[i].on = t => i = n + 1
            BY <1>1, <1>2, <1>5, <2>1 DEF Bodies
        <3> QED
            BY <1>5, <3>1, <3>2
    <2> QED
        BY <2>1
<1>7. \A i \in 1 .. n : fs[i].kind = "closing" => fs[i].on \in Threads /\ fs[i].on # t
    BY <1>1, <1>2, <1>3, <1>4, FrameIs DEF ClosedIn, ClosingFrame
<1>8. \A o \in Threads : o # t => us[o] = ts[o]
    BY DEF OnlyChanges
<1>9. \A o \in Threads : us[o].status \in {"dead", "unborn"} => ~us[o].open
    BY <1>8 DEF Bodies
<1>10. \A o \in Threads : us[o].status = "active" =>
        \E i \in 1 .. n : gs[i].kind \in {"resume", "wrap"} /\ gs[i].on = o
    <2>1. ASSUME NEW o \in Threads, us[o].status = "active"
          PROVE  \E i \in 1 .. n : gs[i].kind \in {"resume", "wrap"} /\ gs[i].on = o
        <3>1. o # t /\ ts[o].status = "active"
            BY <1>8, <2>1
        <3>2. PICK i \in 1 .. n + 1 : fs[i].kind \in {"resume", "wrap"} /\ fs[i].on = o
            BY <1>1, <3>1 DEF Bodies
        <3>3. i # n + 1
            BY <1>1, <3>1, <3>2
        <3> QED
            BY <1>2, <3>2, <3>3
    <2> QED
        BY <2>1
<1>11. \A i \in 1 .. n :
        gs[i].kind \in {"resume", "wrap"} => us[gs[i].on].status = "active"
    BY <1>1, <1>2, <1>6, <1>8 DEF Bodies
<1>12. \A i \in 1 .. n : gs[i].kind = "closing" =>
        IF gs[i].who = "self" THEN us[gs[i].on].status = "active"
        ELSE us[gs[i].on].status \notin {"active", "unborn"}
    BY <1>1, <1>2, <1>7, <1>8 DEF Bodies
<1>13. \A i \in 1 .. n : gs[i].kind = "closing" /\ i < n => gs[i + 1].over = us[gs[i].on].err
    <2>1. ASSUME NEW i \in 1 .. n, gs[i].kind = "closing", i < n
          PROVE  gs[i + 1].over = us[gs[i].on].err
        <3>1. i + 1 \in 1 .. n /\ i < n + 1
            BY <2>1
        <3> QED
            BY <1>1, <1>2, <1>7, <1>8, <2>1, <3>1 DEF Bodies
    <2> QED
        BY <2>1
<1> QED
    BY <1>1, <1>2, <1>9, <1>10, <1>11, <1>12, <1>13 DEF Bodies

LEMMA BodiesClosing ==
    ASSUME NEW fs \in Seq(Frame), NEW gs \in Seq(Frame), NEW f \in ClosingFrame,
           Pushes(fs, gs, f), NEW ts, Bodies(fs, ts),
           Len(fs) > 0 => fs[Len(fs)].kind # "closing", ~ClosedIn(fs, f.on),
           IF f.who = "self" THEN ts[f.on].status = "active"
           ELSE ts[f.on].status \notin {"active", "unborn"}
    PROVE  Bodies(gs, ts)
<1>1. PICK n \in Nat : Len(fs) = n
    OBVIOUS
<1>2. Len(gs) = n + 1 /\ gs[n + 1] = f /\ \A i \in 1 .. n : gs[i] = fs[i] /\ i \in 1 .. n + 1
    BY <1>1 DEF Pushes
<1>3. f.kind = "closing" /\ f.on \in Threads
    BY DEF ClosingFrame
<1>4. \A i \in 1 .. n + 1 : i \in 1 .. n \/ i = n + 1
    OBVIOUS
<1>5. \A i \in 1 .. n : fs[i].kind = "closing" => i < n /\ fs[i].on # f.on
    BY <1>1 DEF ClosedIn
<1>6. \A t \in Threads : ts[t].status = "active" =>
        \E i \in 1 .. n + 1 : gs[i].kind \in {"resume", "wrap"} /\ gs[i].on = t
    BY <1>1, <1>2 DEF Bodies
<1>7. \A i \in 1 .. n + 1 : gs[i].kind \in {"resume", "wrap"} => i \in 1 .. n
    BY <1>2, <1>3, <1>4
<1>8. \A i \in 1 .. n + 1 : gs[i].kind = "closing" =>
        IF gs[i].who = "self" THEN ts[gs[i].on].status = "active"
        ELSE ts[gs[i].on].status \notin {"active", "unborn"}
    <2>1. ASSUME NEW i \in 1 .. n + 1, gs[i].kind = "closing"
          PROVE  IF gs[i].who = "self" THEN ts[gs[i].on].status = "active"
                 ELSE ts[gs[i].on].status \notin {"active", "unborn"}
        <3>1. CASE i = n + 1
            BY <1>2, <3>1
        <3>2. CASE i \in 1 .. n
            BY <1>1, <1>2, <2>1, <3>2 DEF Bodies
        <3> QED
            BY <1>4, <3>1, <3>2
    <2> QED
        BY <2>1
<1>9. \A i, j \in 1 .. n + 1 :
        gs[i].kind = "closing" /\ gs[j].kind = "closing" /\ gs[i].on = gs[j].on => i = j
    BY <1>1, <1>2, <1>4, <1>5 DEF Bodies
<1>10. \A i, j \in 1 .. n + 1 :
        gs[i].kind \in {"resume", "wrap"} /\ gs[j].kind \in {"resume", "wrap"} =>
            (gs[i].on = gs[j].on => i = j)
    BY <1>1, <1>2, <1>7 DEF Bodies
<1>11. \A i \in 1 .. n + 1 : gs[i].kind = "closing" /\ i < n + 1 =>
        gs[i + 1].over = ts[gs[i].on].err
    <2>1. ASSUME NEW i \in 1 .. n + 1, gs[i].kind = "closing", i < n + 1
          PROVE  gs[i + 1].over = ts[gs[i].on].err
        <3>1. i \in 1 .. n /\ gs[i] = fs[i]
            BY <1>2, <2>1
        <3>2. i < n /\ i + 1 \in 1 .. n
            BY <1>5, <2>1, <3>1
        <3> QED
            BY <1>1, <1>2, <2>1, <3>1, <3>2 DEF Bodies
    <2> QED
        BY <2>1
<1>12. \A t \in Threads : ts[t].status \in {"dead", "unborn"} => ~ts[t].open
    BY DEF Bodies
<1>13. \A i \in 1 .. n + 1 :
        gs[i].kind \in {"resume", "wrap"} => ts[gs[i].on].status = "active"
    BY <1>1, <1>2, <1>7 DEF Bodies
<1> QED
    BY <1>2, <1>6, <1>8, <1>9, <1>10, <1>11, <1>12, <1>13 DEF Bodies

(* What the thread on top of the stack being closed has for an error may change.*)
LEMMA BodiesHear ==
    ASSUME NEW fs \in Seq(Frame), NEW ts, NEW us, Bodies(fs, ts), Len(fs) > 0,
           fs[Len(fs)].kind = "closing", NEW t, t = fs[Len(fs)].on, OnlyChanges(ts, us, t),
           us[t].status = ts[t].status, us[t].open => ts[t].open
    PROVE  Bodies(fs, us)
<1>1. PICK n \in Nat : Len(fs) = n /\ n > 0
    OBVIOUS
<1>2. \A i \in 1 .. n : fs[i] \in Frame
    BY <1>1, ElementOfSeq
<1>3. \A o \in Threads : /\ us[o].status = ts[o].status
                         /\ us[o].open => ts[o].open
                         /\ o # t => us[o] = ts[o]
    BY DEF OnlyChanges
<1>4. \A i \in 1 .. n : fs[i].kind \in {"resume", "wrap"} => fs[i].on \in Threads
    BY <1>2, FrameIs DEF ResumeFrame
<1>5. \A i \in 1 .. n : fs[i].kind = "closing" => fs[i].on \in Threads
    BY <1>2, FrameIs DEF ClosingFrame
<1>6. \A i \in 1 .. n : fs[i].kind = "closing" /\ i < n => fs[i].on # t
    <2>1. ASSUME NEW i \in 1 .. n, fs[i].kind = "closing", i < n, fs[i].on = t PROVE FALSE
        <3>1. n \in 1 .. n /\ i # n
            BY <1>1, <2>1
        <3> QED
            BY <1>1, <2>1, <3>1 DEF Bodies
    <2> QED
        BY <2>1
<1>7. \A o \in Threads : us[o].status \in {"dead", "unborn"} => ~us[o].open
    BY <1>3 DEF Bodies
<1>8. \A o \in Threads : us[o].status = "active" =>
        \E i \in 1 .. n : fs[i].kind \in {"resume", "wrap"} /\ fs[i].on = o
    BY <1>1, <1>3 DEF Bodies
<1>9. \A i \in 1 .. n :
        fs[i].kind \in {"resume", "wrap"} => us[fs[i].on].status = "active"
    BY <1>1, <1>3, <1>4 DEF Bodies
<1>10. \A i \in 1 .. n : fs[i].kind = "closing" =>
        IF fs[i].who = "self" THEN us[fs[i].on].status = "active"
        ELSE us[fs[i].on].status \notin {"active", "unborn"}
    BY <1>1, <1>3, <1>5 DEF Bodies
<1>11. \A i \in 1 .. n : fs[i].kind = "closing" /\ i < n => fs[i + 1].over = us[fs[i].on].err
    BY <1>1, <1>3, <1>5, <1>6 DEF Bodies
<1> QED
    BY <1>1, <1>7, <1>8, <1>9, <1>10, <1>11 DEF Bodies

--------------------------------------------------------------------------------
(* What a thread that can be resumed has for an error: none, but while it is    *)
(* closed and until the resume it failed in has been told.                      *)

Resumable == {"suspended", "active"}

TopResumes(fs, t) ==
    Len(fs) > 0 /\ fs[Len(fs)].kind \in {"resume", "wrap"} /\ fs[Len(fs)].on = t

Clear(fs, ts, e) ==
    \A t \in Threads : ts[t].status \in Resumable =>
        ts[t].err = None \/ ClosedIn(fs, t) \/ (e # None /\ TopResumes(fs, t))

LEMMA ClosedInPush ==
    ASSUME NEW fs \in Seq(Frame), NEW gs \in Seq(Frame), NEW f, Pushes(fs, gs, f), NEW t
    PROVE  ClosedIn(gs, t) <=> ClosedIn(fs, t) \/ (f.kind = "closing" /\ f.on = t)
<1>1. PICK n \in Nat : Len(fs) = n
    OBVIOUS
<1>2. Len(gs) = n + 1 /\ gs[n + 1] = f /\ \A i \in 1 .. n : gs[i] = fs[i]
    BY <1>1 DEF Pushes
<1>3. \A i : i \in 1 .. n + 1 <=> i \in 1 .. n \/ i = n + 1
    OBVIOUS
<1> QED
    BY <1>1, <1>2, <1>3 DEF ClosedIn

LEMMA ClosedInPop ==
    ASSUME NEW fs \in Seq(Frame), NEW gs \in Seq(Frame), Pops(fs, gs), NEW t
    PROVE  ClosedIn(fs, t) <=>
              ClosedIn(gs, t) \/ (fs[Len(fs)].kind = "closing" /\ fs[Len(fs)].on = t)
<1>1. Pushes(gs, fs, fs[Len(fs)])
    BY PoppedIsPushed
<1> QED
    BY <1>1, ClosedInPush

LEMMA ClosedInLike ==
    ASSUME NEW fs \in Seq(Frame), NEW gs \in Seq(Frame), Likes(fs, gs), NEW t
    PROVE  ClosedIn(gs, t) <=> ClosedIn(fs, t)
<1>1. Len(gs) = Len(fs) /\ \A i \in 1 .. Len(fs) :
        gs[i] = fs[i] \/ (fs[i].kind = "call" /\ gs[i].kind = "call")
    BY DEF Likes, SameCall
<1> QED
    BY <1>1 DEF ClosedIn

LEMMA ClearMoved ==
    ASSUME NEW fs, NEW ts, NEW e, Clear(fs, ts, e), NEW gs, NEW us, NEW d, NEW t,
           \A o \in Threads : o # t => us[o].status = ts[o].status /\ us[o].err = ts[o].err,
           \A o \in Threads : o # t => (ClosedIn(fs, o) => ClosedIn(gs, o)),
           \A o \in Threads : o # t => ~(e # None /\ TopResumes(fs, o)),
           t \in Threads /\ us[t].status \in Resumable =>
              us[t].err = None \/ ClosedIn(gs, t) \/ (d # None /\ TopResumes(gs, t))
    PROVE  Clear(gs, us, d)
BY DEF Clear

(* The top of the stack may change in any way but by a close that ends.         *)
LEMMA ClearPlain ==
    ASSUME NEW fs \in Seq(Frame), NEW gs \in Seq(Frame), NEW ts, NEW e, Clear(fs, ts, e),
           NEW us, KeepsErrors(ts, us), NEW d, NEW f,
           \/ Pushes(fs, gs, f)
           \/ Pops(fs, gs) /\ fs[Len(fs)].kind # "closing"
           \/ Likes(fs, gs),
           e # None => Len(fs) = 0 \/ fs[Len(fs)].kind \notin {"resume", "wrap"}
    PROVE  Clear(gs, us, d)
<1>1. \A o \in Threads : ClosedIn(fs, o) => ClosedIn(gs, o)
    BY ClosedInPush, ClosedInPop, ClosedInLike
<1>2. \A o \in Threads : ~(e # None /\ TopResumes(fs, o))
    BY DEF TopResumes
<1>3. \A o \in Threads : us[o].status = ts[o].status /\ us[o].err = ts[o].err
    BY DEF KeepsErrors
<1> QED
    BY <1>1, <1>2, <1>3 DEF Clear

--------------------------------------------------------------------------------
(* The threads a call has to sweep.                                             *)

Unswept == {"suspended", "active", "failed"}

SweptIn(fs, t) ==
    \E i \in 1 .. Len(fs) : fs[i].kind = "closing" /\ fs[i].who = "sweep" /\ fs[i].on = t
Walking(fs)   == Len(fs) > 0 /\ fs[1].kind = "call" /\ fs[1].phase = "walk"
Harvested(fs) == Len(fs) = 0 \/ fs[1].phase \in {"files", "sample", "settle"}
NoCreate(fs)  == \A i \in 1 .. Len(fs) : fs[i].kind # "create"

Swept(fs, ts, c) ==
    /\ \A t \in c.tracked \cup c.left : ts[t].status # "unborn"
    /\ \A t \in Threads : ts[t].status \in Unswept =>
        t \in c.tracked \cup c.left \/ SweptIn(fs, t)
    /\ c.sweeping <=> Walking(fs)
    /\ c.sweeping => c.tracked = {} /\ NoCreate(fs)
    /\ ~c.sweeping => c.left = {} /\ c.live >= Cardinality(c.tracked)
    /\ Harvested(fs) => \A t \in Threads :
        ts[t].status \in Resumable \/ ts[t].open => ts[t].late

SameTable(c, d) ==
    d.tracked = c.tracked /\ d.left = c.left /\ d.sweeping = c.sweeping /\ d.live = c.live

\* A thread becomes nothing new to the sweep.
Follows(ts, us) ==
    \A t \in Threads :
        /\ us[t].late = ts[t].late
        /\ us[t].status = "unborn" <=> ts[t].status = "unborn"
        /\ us[t].status \in Unswept => ts[t].status \in Unswept
        /\ us[t].status \in Resumable \/ us[t].open => ts[t].status \in Resumable \/ ts[t].open

SameBottom(fs, gs) ==
    (Walking(gs) <=> Walking(fs)) /\ (Harvested(gs) <=> Harvested(fs))

LEMMA SweptMoved ==
    ASSUME NEW fs \in Seq(Frame), NEW gs \in Seq(Frame), NEW ts, NEW us, NEW c, NEW d,
           Swept(fs, ts, c), SameTable(c, d), Follows(ts, us), SameBottom(fs, gs),
           c.tracked \cup c.left \in SUBSET Threads,
           \A t \in Threads : SweptIn(fs, t) => SweptIn(gs, t) \/ us[t].status \notin Unswept,
           c.sweeping => NoCreate(gs)
    PROVE  Swept(gs, us, d)
<1>1. \A t \in d.tracked \cup d.left : us[t].status # "unborn"
    BY DEF Swept, SameTable, Follows
<1>2. \A t \in Threads : us[t].status \in Unswept =>
        t \in d.tracked \cup d.left \/ SweptIn(gs, t)
    BY DEF Swept, SameTable, Follows
<1>3. d.sweeping <=> Walking(gs)
    BY DEF Swept, SameTable, SameBottom
<1>4. d.sweeping => d.tracked = {} /\ NoCreate(gs)
    BY DEF Swept, SameTable
<1>5. ~d.sweeping => d.left = {} /\ d.live >= Cardinality(d.tracked)
    BY DEF Swept, SameTable
<1>6. Harvested(gs) => \A t \in Threads :
        us[t].status \in Resumable \/ us[t].open => us[t].late
    BY DEF Swept, Follows, SameBottom
<1> QED
    BY <1>1, <1>2, <1>3, <1>4, <1>5, <1>6 DEF Swept

LEMMA SweptPush ==
    ASSUME NEW fs \in Seq(Frame), NEW gs \in Seq(Frame), NEW f, Pushes(fs, gs, f), Len(fs) > 0,
           NEW ts, NEW us, NEW c, NEW d, Swept(fs, ts, c), SameTable(c, d), Follows(ts, us),
           c.tracked \cup c.left \in SUBSET Threads, f.kind = "create" => ~c.sweeping
    PROVE  Swept(gs, us, d)
<1>1. PICK n \in Nat : Len(fs) = n
    OBVIOUS
<1>2. Len(gs) = n + 1 /\ gs[n + 1] = f /\ \A i \in 1 .. n : gs[i] = fs[i]
    BY <1>1 DEF Pushes
<1>3. \A i : i \in 1 .. n + 1 <=> i \in 1 .. n \/ i = n + 1
    OBVIOUS
<1>4. SameBottom(fs, gs)
    BY <1>1, <1>2 DEF SameBottom, Walking, Harvested
<1>5. \A t \in Threads : SweptIn(fs, t) => SweptIn(gs, t)
    BY <1>1, <1>2, <1>3 DEF SweptIn
<1>6. c.sweeping => NoCreate(fs)
    BY DEF Swept
<1>7. c.sweeping => NoCreate(gs)
    BY <1>1, <1>2, <1>3, <1>6 DEF NoCreate
<1> QED
    BY <1>4, <1>5, <1>7, SweptMoved

LEMMA SweptPop ==
    ASSUME NEW fs \in Seq(Frame), NEW gs \in Seq(Frame), Pops(fs, gs), Len(fs) > 1,
           NEW ts, NEW us, NEW c, NEW d, Swept(fs, ts, c), SameTable(c, d), Follows(ts, us),
           c.tracked \cup c.left \in SUBSET Threads,
           fs[Len(fs)].kind = "closing" /\ fs[Len(fs)].who = "sweep" =>
              us[fs[Len(fs)].on].status \notin Unswept
    PROVE  Swept(gs, us, d)
<1>1. PICK n \in Nat : Len(gs) = n /\ Len(fs) = n + 1 /\ n > 0
    BY DEF Pops
<1>2. \A i \in 1 .. n : gs[i] = fs[i]
    BY <1>1 DEF Pops
<1>3. \A i : i \in 1 .. n + 1 <=> i \in 1 .. n \/ i = n + 1
    OBVIOUS
<1>4. SameBottom(fs, gs)
    BY <1>1, <1>2 DEF SameBottom, Walking, Harvested
<1>5. \A t \in Threads : SweptIn(fs, t) => SweptIn(gs, t) \/ us[t].status \notin Unswept
    BY <1>1, <1>2, <1>3 DEF SweptIn
<1>6. c.sweeping => NoCreate(fs)
    BY DEF Swept
<1>7. c.sweeping => NoCreate(gs)
    BY <1>1, <1>2, <1>3, <1>6 DEF NoCreate
<1> QED
    BY <1>4, <1>5, <1>7, SweptMoved

LEMMA SweptLike ==
    ASSUME NEW fs \in Seq(Frame), NEW gs \in Seq(Frame), Likes(fs, gs), Built(fs),
           NEW ts, NEW us, NEW c, NEW d, Swept(fs, ts, c), SameTable(c, d), Follows(ts, us),
           c.tracked \cup c.left \in SUBSET Threads
    PROVE  Swept(gs, us, d)
<1>1. PICK n \in Nat : Len(gs) = n /\ Len(fs) = n
    BY DEF Likes
<1>2. \A i \in 1 .. n : /\ gs[i] = fs[i] \/ (fs[i].kind = "call" /\ gs[i].kind = "call")
                        /\ fs[i].kind = "call" => gs[i].phase = fs[i].phase
    BY <1>1 DEF Likes, SameCall
<1>3. n > 0 => 1 \in 1 .. n /\ fs[1].kind = "call"
    BY <1>1 DEF Built, Seat
<1>4. SameBottom(fs, gs)
    BY <1>1, <1>2, <1>3 DEF SameBottom, Walking, Harvested
<1>5. \A t \in Threads : SweptIn(fs, t) => SweptIn(gs, t)
    BY <1>1, <1>2 DEF SweptIn
<1>6. c.sweeping => NoCreate(fs)
    BY DEF Swept
<1>7. c.sweeping => NoCreate(gs)
    BY <1>1, <1>2, <1>6 DEF NoCreate
<1> QED
    BY <1>4, <1>5, <1>7, SweptMoved

--------------------------------------------------------------------------------
(* The stack as a whole: running_L names its innermost state, the counters count*)
(* it, every frame is where it belongs, and no error flies over a hushed frame. *)

Stacked(fs, e, run, lua, php, depth) ==
    /\ fs \in Seq(Frame) /\ e \in Errors \cup {None}
    /\ Chained(fs, run) /\ Counted(fs, lua, php, depth) /\ Built(fs)
    /\ Len(fs) = 0 \/ Hushed(fs[Len(fs)]) => e = None

Entered(fs, run) == IF fs[Len(fs)].kind \in InnerKinds THEN fs[Len(fs)].on ELSE run
Left(fs, run)    == IF fs[Len(fs)].kind \in InnerKinds THEN fs[Len(fs)].from ELSE run

LEMMA StackedPush ==
    ASSUME NEW fs \in Seq(Frame), NEW gs \in Seq(Frame), NEW f \in Frame, Pushes(fs, gs, f),
           NEW e, NEW run, NEW lua, NEW php, NEW depth, Stacked(fs, e, run, lua, php, depth),
           Seat(gs, Len(gs)),
           Len(fs) > 0 /\ fs[Len(fs)].kind = "closing" => f.kind = "handler",
           Len(fs) > 0 /\ fs[Len(fs)].kind = "create" => f.kind = "gc",
           f.kind \in InnerKinds => f.from = run,
           NEW d \in Errors \cup {None}, Hushed(f) => d = None
    PROVE  Stacked(gs, d, Entered(gs, run), lua + LuaOf(f), php + PhpOf(f), depth + DepthOf(f))
<1>1. Len(gs) = Len(fs) + 1 /\ gs[Len(gs)] = f /\ Len(fs) \in Nat
    BY DEF Pushes
<1>2. Chained(fs, run) /\ Counted(fs, lua, php, depth) /\ Built(fs)
    BY DEF Stacked
<1>3. Chained(gs, IF f.kind \in InnerKinds THEN f.on ELSE run)
    BY <1>2, ChainedPush
<1>4. Counted(gs, lua + LuaOf(f), php + PhpOf(f), depth + DepthOf(f))
    BY <1>2, CountedUp
<1>5. Seat(gs, Len(fs) + 1)
    BY <1>1
<1>6. Built(gs)
    BY <1>2, <1>5, BuiltPush
<1>7. Chained(gs, Entered(gs, run))
    BY <1>1, <1>3 DEF Entered
<1> QED
    BY <1>1, <1>4, <1>6, <1>7 DEF Stacked

LEMMA StackedDrop ==
    ASSUME NEW fs \in Seq(Frame), NEW gs \in Seq(Frame), Pops(fs, gs), NEW f, f = fs[Len(fs)],
           NEW e, NEW run, NEW lua, NEW php, NEW depth, Stacked(fs, e, run, lua, php, depth)
    PROVE  /\ Stacked(gs, None, Left(fs, run), lua - LuaOf(f), php - PhpOf(f), depth - DepthOf(f))
           /\ f.kind \in InnerKinds => run = f.on
<1>1. Chained(fs, run) /\ Counted(fs, lua, php, depth) /\ Built(fs)
    BY DEF Stacked
<1>2. /\ Chained(gs, IF f.kind \in InnerKinds THEN f.from ELSE run)
      /\ f.kind \in InnerKinds => run = f.on
    BY <1>1, ChainedPop
<1>3. Counted(gs, lua - LuaOf(f), php - PhpOf(f), depth - DepthOf(f))
    BY <1>1, CountedDown
<1>4. Built(gs)
    BY <1>1, BuiltPop
<1>5. Chained(gs, Left(fs, run))
    BY <1>2 DEF Left
<1> QED
    BY <1>2, <1>3, <1>4, <1>5 DEF Stacked

\* An error may go on below a frame that stands on no hushed one.
LEMMA StackedPop ==
    ASSUME NEW fs \in Seq(Frame), NEW gs \in Seq(Frame), Pops(fs, gs), NEW f, f = fs[Len(fs)],
           NEW e, NEW run, NEW lua, NEW php, NEW depth, Stacked(fs, e, run, lua, php, depth),
           NEW d \in Errors \cup {None}, ~MayHush(f)
    PROVE  /\ Stacked(gs, d, Left(fs, run), lua - LuaOf(f), php - PhpOf(f), depth - DepthOf(f))
           /\ f.kind \in InnerKinds => run = f.on
<1>1. PICK n \in Nat : Len(gs) = n /\ Len(fs) = n + 1
    BY DEF Pops
<1>2. Seat(fs, n + 1)
    BY <1>1 DEF Stacked, Built
<1>3. n > 0 /\ ~Hushed(gs[n])
    <2>1. n > 0
        BY <1>1, <1>2 DEF Seat, MayHush
    <2>2. gs[n] = fs[n]
        BY <1>1, <2>1 DEF Pops
    <2>3. n + 1 > 1 /\ ~MayHush(fs[n + 1]) => ~Hushed(fs[n + 1 - 1])
        BY <1>2 DEF Seat
    <2>4. n + 1 - 1 = n
        BY <1>1
    <2> QED
        BY <1>1, <2>1, <2>2, <2>3, <2>4
<1>4. /\ Stacked(gs, None, Left(fs, run), lua - LuaOf(f), php - PhpOf(f), depth - DepthOf(f))
      /\ f.kind \in InnerKinds => run = f.on
    BY StackedDrop
<1> QED
    BY <1>1, <1>3, <1>4 DEF Stacked

LEMMA StackedLike ==
    ASSUME NEW fs \in Seq(Frame), NEW gs \in Seq(Frame), Likes(fs, gs),
           NEW e, NEW run, NEW lua, NEW php, NEW depth, Stacked(fs, e, run, lua, php, depth),
           NEW d \in Errors \cup {None},
           d = None \/ (Len(fs) > 0 /\ ~Hushed(fs[Len(fs)]))
    PROVE  Stacked(gs, d, run, lua, php, depth)
<1>1. Chained(fs, run) /\ Counted(fs, lua, php, depth) /\ Built(fs)
    BY DEF Stacked
<1>2. Chained(gs, run)
    BY <1>1, ChainedLike
<1>3. Counted(gs, lua, php, depth)
    BY <1>1, CountedLike DEF Counted
<1>4. Built(gs)
    BY <1>1, BuiltLike
<1>5. PICK n \in Nat : Len(gs) = n /\ Len(fs) = n
    BY DEF Likes
<1>6. n > 0 => (Hushed(gs[n]) <=> Hushed(fs[n]))
    BY <1>5 DEF Likes, SameCall, Hushed
<1> QED
    BY <1>2, <1>3, <1>4, <1>5, <1>6 DEF Stacked

(* One frame in the place of another.                                           *)
LEMMA StackedRetop ==
    ASSUME NEW fs \in Seq(Frame), fs # <<>>, NEW f \in Frame, NEW gs, gs = Append(Front(fs), f),
           NEW e, NEW run, NEW lua, NEW php, NEW depth, Stacked(fs, e, run, lua, php, depth),
           NEW g, g = fs[Len(fs)], g.kind \notin {"handler", "gc"}, Seat(gs, Len(fs)),
           f.kind \in InnerKinds <=> g.kind \in InnerKinds,
           f.kind \in InnerKinds => f.from = g.from /\ f.on = g.on,
           NEW d \in Errors \cup {None}, Hushed(f) => d = None
    PROVE  /\ gs \in Seq(Frame) /\ Retops(fs, gs, f)
           /\ Stacked(gs, d, run, lua - LuaOf(g) + LuaOf(f), php - PhpOf(g) + PhpOf(f),
                      depth - DepthOf(g) + DepthOf(f))
<1>1. gs \in Seq(Frame) /\ Retops(fs, gs, f)
    BY Retopped
<1>2. PICK us \in Seq(Frame) : us = Front(fs) /\ Pops(fs, us)
    BY Popped
<1>3. Pushes(us, gs, f)
    BY <1>2, Pushed
<1>4. PICK n \in Nat : Len(us) = n /\ Len(fs) = n + 1 /\ Len(gs) = n + 1
    BY <1>1, <1>2 DEF Pops, Retops
<1>5. /\ Stacked(us, None, Left(fs, run), lua - LuaOf(g), php - PhpOf(g), depth - DepthOf(g))
      /\ g.kind \in InnerKinds => run = g.on
    BY <1>2, StackedDrop
<1>6. n > 0 => us[n].kind \notin {"closing", "create"}
    <2>1. n > 0 => Seat(fs, n) /\ us[n] = fs[n]
        BY <1>2, <1>4 DEF Stacked, Built, Pops
    <2> QED
        BY <1>4, <2>1 DEF Seat
<1>7. f.kind \in InnerKinds => f.from = Left(fs, run)
    BY DEF Left
<1>8. Stacked(gs, d, Entered(gs, Left(fs, run)), lua - LuaOf(g) + LuaOf(f),
              php - PhpOf(g) + PhpOf(f), depth - DepthOf(g) + DepthOf(f))
    BY <1>1, <1>2, <1>3, <1>4, <1>5, <1>6, <1>7, StackedPush
<1>9. Entered(gs, Left(fs, run)) = run
    BY <1>1, <1>4, <1>5 DEF Entered, Left, Retops
<1> QED
    BY <1>1, <1>8, <1>9

(* The names of the model for the top of the stack.                             *)
LEMMA TopIs ==
    ASSUME frames \in Seq(Frame)
    PROVE  /\ Len(frames) \in Nat /\ (frames = <<>> <=> Len(frames) = 0)
           /\ Len(frames) > 0 => /\ Top = frames[Len(frames)] /\ TopKind = frames[Len(frames)].kind
                                 /\ frames[Len(frames)] \in Frame
           /\ Len(frames) = 0 => TopKind = "none"
           /\ TopKind # "none" => Len(frames) > 0
<1>1. Len(frames) \in Nat /\ (frames = <<>> <=> Len(frames) = 0)
    BY EmptySeq
<1>2. Len(frames) > 0 => Top = frames[Len(frames)] /\ frames[Len(frames)] \in Frame
    BY <1>1, ElementOfSeq DEF Top, Last
<1> QED
    BY <1>1, <1>2 DEF TopKind

LEMMA LuaTop ==
    ASSUME frames \in Seq(Frame), LuaOnTop
    PROVE  /\ err = None /\ Len(frames) > 0 /\ Top = frames[Len(frames)]
           /\ frames[Len(frames)] \in Frame /\ ~Hushed(frames[Len(frames)])
           /\ frames[Len(frames)].kind
                \in {"pcall", "xpcall", "resume", "wrap", "handler", "gc", "call"}
           /\ frames[Len(frames)].kind = "call" => frames[Len(frames)].phase = "run"
<1>1. TopKind \in {"pcall", "xpcall", "resume", "wrap", "handler", "gc", "call"} /\ err = None
    BY DEF LuaOnTop, Is
<1>2. TopKind = "call" => Top.phase = "run"
    BY DEF LuaOnTop, Is
<1> QED
    BY <1>1, <1>2, TopIs DEF Hushed

--------------------------------------------------------------------------------
(* What each step does, in the words of the lemmas: first the steps that leave  *)
(* the threads alone.                                                           *)

OnStack == CallsTypeOK /\ Stacked(frames, err, running, inLua, inPhp, co.depth)

\* luaext_phpcall_guard's caller is Lua code of an entry: no finaliser calls out
\* while results are converted.
Assumed == SettleCallsHost = FALSE

DoesPush(f) == f \in Frame /\ frames' \in Seq(Frame) /\ Pushes(frames, frames', f)
DoesPop     == frames' \in Seq(Frame) /\ Pops(frames, frames')
DoesRetop(f) ==
    /\ frames # <<>> /\ f \in Frame /\ frames' = Append(Front(frames), f)
    /\ frames' \in Seq(Frame) /\ Retops(frames, frames', f)

Topmost == frames[Len(frames)]

Resting == UNCHANGED <<frames, err, threads, co, running, inLua, inPhp>>

Throwing ==
    /\ LuaOnTop /\ err' \in Errors /\ frames' = Owing(frames, err')
    /\ UNCHANGED <<threads, co, running, inLua, inPhp>>

MayPush(f) ==
    \/ LuaOnTop /\ f.kind \in {"pcall", "xpcall"}
    \/ LuaOnTop /\ f.kind = "create" /\ ~co.sweeping /\ (f.phase = "make" => co.live < MaxLive)
    \/ LuaOnTop /\ f.kind = "callable" /\ inLua # 0
    \/ Allocating /\ f.kind = "gc" /\ ~Collecting
    \/ Len(frames) > 0 /\ Topmost.kind = "call" /\ Topmost.phase = "files" /\ f.kind = "backend"

Pushing(f) ==
    /\ DoesPush(f) /\ MayPush(f) /\ err = None /\ err' = None
    /\ inPhp' = inPhp + PhpOf(f)
    /\ UNCHANGED <<threads, co, running, inLua>>

Popping ==
    /\ DoesPop /\ Topmost.kind \in {"pcall", "xpcall", "gc", "callable", "backend"}
    /\ err # None => Topmost.kind = "gc"
    /\ err' = None
    /\ inPhp' = inPhp - PhpOf(Topmost)
    /\ UNCHANGED <<threads, co, running, inLua>>

PopThrowing ==
    /\ frames # <<>> /\ Topmost.kind \in {"create", "gc", "callable"}
    /\ err # None => Topmost.kind = "gc"
    /\ err' \in Errors /\ frames' = Owing(Front(frames), err')
    /\ co' = co \/ co' = [co EXCEPT !.live = Count(FALSE)]
    /\ inPhp' = inPhp - PhpOf(Topmost)
    /\ UNCHANGED <<threads, running, inLua>>

Unwinding ==
    /\ DoesPop /\ Topmost.kind \in {"pcall", "xpcall", "create"}
    /\ err # None /\ err' \in {err, Kept(err)}
    /\ UNCHANGED <<threads, co, running, inLua, inPhp>>

Skipping(f) ==
    /\ DoesRetop(f) /\ Topmost.kind = "xpcall" /\ f.kind = "xpcall"
    /\ err # None
    /\ UNCHANGED <<err, threads, co, running, inLua, inPhp>>

\* The same frame but for what it has to do when it is left.
SameBut(f, g) ==
    /\ g.kind = f.kind
    /\ f.kind = "call" => /\ g.outer = f.outer /\ g.phase = f.phase
                          /\ g.result = f.result /\ g.owed = f.owed

Handling(f, h) ==
    /\ frames # <<>> /\ f \in Frame /\ h \in Frame /\ h.kind = "handler" /\ h.over = err
    /\ SameBut(Topmost, f) /\ Topmost.kind \in {"pcall", "xpcall", "call"}
    /\ Topmost.kind = "call" => Topmost.phase = "run"
    /\ frames' = Append(Append(Front(frames), f), h) /\ err' = None
    /\ UNCHANGED <<threads, co, running, inLua, inPhp>>

HandlerBack ==
    /\ DoesPop /\ Topmost.kind = "handler" /\ err = None /\ err' = Topmost.over
    /\ UNCHANGED <<threads, co, running, inLua, inPhp>>

HandlerLost ==
    /\ frames # <<>> /\ Topmost.kind = "handler" /\ err # None /\ err' = err
    /\ frames' = Forgiving(Front(frames), Topmost.over, err)
    /\ UNCHANGED <<threads, co, running, inLua, inPhp>>

Making(f) ==
    /\ DoesRetop(f) /\ Topmost.kind = "create" /\ f.kind = "create" /\ f.phase = "make"
    /\ err = None /\ err' = None
    /\ Count(TRUE) < MaxLive /\ co' = [co EXCEPT !.live = Count(FALSE)]
    /\ UNCHANGED <<threads, running, inLua, inPhp>>

LEMMA RestingIs ==
    ASSUME EnterRefused \/ Trip \/ HostThrows \/ HostCatches
    PROVE  Resting
BY DEF EnterRefused, Trip, HostThrows, HostCatches, Resting

LEMMA ThrowingIs ==
    ASSUME Interrupted \/ Raise
    PROVE  Throwing
BY DEF Interrupted, Raise, Throwing, Throw, Errors

LEMMA ProtectIs ==
    ASSUME OnStack, Protect
    PROVE  \E f : Pushing(f)
<1>1. PICK k \in {"pcall", "xpcall"}, close \in BOOLEAN :
        frames' = Append(frames, [kind |-> k, todo |-> (IF close THEN {"close"} ELSE {})
                                    \cup (IF k = "xpcall" THEN {"message"} ELSE {})])
    BY DEF Protect, Push
<1>2. PICK f : f = [kind |-> k, todo |-> (IF close THEN {"close"} ELSE {})
                                    \cup (IF k = "xpcall" THEN {"message"} ELSE {})]
    OBVIOUS
<1>3. f \in Frame /\ f.kind = k
    BY <1>2, IsFrame DEF ProtectFrame
<1>4. frames \in Seq(Frame)
    BY DEF OnStack, Stacked
<1>5. DoesPush(f)
    BY <1>1, <1>2, <1>3, <1>4, Pushed DEF DoesPush
<1>6. inPhp \in Nat
    BY DEF OnStack, CallsTypeOK
<1>7. inPhp' = inPhp + PhpOf(f)
    BY <1>3, <1>6 DEF PhpOf, Protect
<1> QED
    BY <1>3, <1>5, <1>7 DEF Pushing, MayPush, Protect, LuaOnTop

LEMMA CreateBeginsIs ==
    ASSUME OnStack, CreateBegins
    PROVE  Throwing \/ \E f : Pushing(f)
<1>1. CASE co.sweeping
    BY <1>1 DEF CreateBegins, Throwing, Throw, Errors
<1>2. CASE ~co.sweeping
    <2>1. PICK f : /\ frames' = Append(frames, f)
                   /\ f = [kind |-> "create",
                           phase |-> IF co.live >= MaxLive THEN "collect" ELSE "make"]
        BY <1>2 DEF CreateBegins, Push
    <2>2. f \in Frame /\ f.kind = "create"
        BY <2>1, IsFrame DEF CreateFrame
    <2>3. frames \in Seq(Frame) /\ inPhp \in Nat /\ co.live \in Nat
        BY DEF OnStack, Stacked, CallsTypeOK
    <2>4. f.phase = "make" => co.live < MaxLive
        BY <2>1, <2>3, CallsAssumption
    <2>5. DoesPush(f)
        BY <2>1, <2>2, <2>3, Pushed DEF DoesPush
    <2>6. inPhp' = inPhp + PhpOf(f)
        BY <2>2, <2>3 DEF PhpOf, CreateBegins
    <2> QED
        BY <1>2, <2>2, <2>4, <2>5, <2>6 DEF Pushing, MayPush, CreateBegins, LuaOnTop
<1> QED
    BY <1>1, <1>2

LEMMA FinaliseIs ==
    ASSUME OnStack, Finalise
    PROVE  \E f : Pushing(f)
<1>1. PICK f : frames' = Append(frames, f) /\ f = [kind |-> "gc"]
    BY DEF Finalise, Push
<1>2. f \in Frame /\ f.kind = "gc"
    BY <1>1, IsFrame DEF BareFrame
<1>3. frames \in Seq(Frame) /\ inPhp \in Nat
    BY DEF OnStack, Stacked, CallsTypeOK
<1>4. DoesPush(f) /\ inPhp' = inPhp + PhpOf(f)
    <2>1. DoesPush(f)
        BY <1>1, <1>2, <1>3, Pushed DEF DoesPush
    <2>2. inPhp' = inPhp /\ PhpOf(f) = 0
        BY <1>2 DEF Finalise, PhpOf
    <2> QED
        BY <1>3, <2>1, <2>2
<1> QED
    BY <1>2, <1>4 DEF Pushing, MayPush, Finalise, Allocating

LEMMA CallHostIs ==
    ASSUME OnStack, Assumed, CallHost
    PROVE  Throwing \/ \E f : Pushing(f)
<1>1. CASE pending # None
    <2>1. RaisedFor(pending) \in Errors
        BY <1>1 DEF OnStack, CallsTypeOK, RaisedFor, Errors
    <2> QED
        BY <1>1, <2>1 DEF CallHost, Throwing, Throw
<1>2. CASE pending = None /\ inPhp >= MaxPhp
    BY <1>2 DEF CallHost, Throwing, Throw, Errors
<1>3. CASE pending = None /\ ~(inPhp >= MaxPhp)
    <2>1. PICK f : frames' = Append(frames, f) /\ f = [kind |-> "callable"]
        BY <1>3 DEF CallHost, Push
    <2>2. f \in Frame /\ f.kind = "callable"
        BY <2>1, IsFrame DEF BareFrame
    <2>3. frames \in Seq(Frame)
        BY DEF OnStack, Stacked
    <2>4. DoesPush(f) /\ inPhp' = inPhp + PhpOf(f)
        BY <1>3, <2>1, <2>2, <2>3, Pushed DEF DoesPush, PhpOf, CallHost
    <2> QED
        BY <1>3, <2>2, <2>4 DEF Pushing, MayPush, CallHost, Assumed, LuaOnTop
<1> QED
    BY <1>1, <1>2, <1>3

LEMMA SweepFileIs ==
    ASSUME OnStack, SweepFile
    PROVE  \E f : Pushing(f)
<1>1. PICK f : frames' = Append(frames, f) /\ f = [kind |-> "backend"]
    BY DEF SweepFile, Push
<1>2. f \in Frame /\ f.kind = "backend"
    BY <1>1, IsFrame DEF BareFrame
<1>3. frames \in Seq(Frame) /\ inPhp \in Nat
    BY DEF OnStack, Stacked, CallsTypeOK
<1>4. DoesPush(f) /\ inPhp' = inPhp + PhpOf(f)
    <2>1. DoesPush(f)
        BY <1>1, <1>2, <1>3, Pushed DEF DoesPush
    <2>2. inPhp' = inPhp /\ PhpOf(f) = 0
        BY <1>2 DEF SweepFile, PhpOf
    <2> QED
        BY <1>3, <2>1, <2>2
<1>5. Len(frames) > 0 /\ Topmost.kind = "call" /\ Topmost.phase = "files"
    BY <1>3, TopIs DEF SweepFile, Is, Topmost
<1>6. err = None
    BY <1>5 DEF OnStack, Stacked, Hushed, Topmost
<1> QED
    BY <1>2, <1>4, <1>5, <1>6 DEF Pushing, MayPush, SweepFile

LEMMA PopIs ==
    ASSUME frames \in Seq(Frame), frames # <<>>, frames' = Under
    PROVE  DoesPop
<1>1. frames' = Front(frames)
    BY DEF Under
<1> QED
    BY <1>1, Popped DEF DoesPop

LEMMA OnTop ==
    ASSUME OnStack, TopKind # "none"
    PROVE  /\ frames \in Seq(Frame) /\ frames # <<>> /\ Len(frames) \in Nat /\ Len(frames) > 0
           /\ Top = Topmost /\ TopKind = Topmost.kind /\ Topmost \in Frame
           /\ Under = Front(frames)
           /\ err \in Errors \cup {None} /\ inPhp \in Nat
           /\ Hushed(Topmost) => err = None
BY TopIs DEF OnStack, Stacked, CallsTypeOK, Topmost, Under

LEMMA ReturnsIs ==
    ASSUME OnStack, ProtectedReturns \/ FinaliserReturns \/ BackendReturns
    PROVE  Popping
<1>1. TopKind \in {"pcall", "xpcall", "gc", "backend"} /\ frames' = Under
    BY DEF ProtectedReturns, FinaliserReturns, BackendReturns, Is
<1>2. DoesPop /\ Topmost.kind \in {"pcall", "xpcall", "gc", "backend"} /\ PhpOf(Topmost) = 0
    BY <1>1, OnTop, PopIs DEF PhpOf
<1>3. UNCHANGED <<err, threads, co, running, inLua, inPhp>>
    BY DEF ProtectedReturns, FinaliserReturns, BackendReturns
<1>4. err = None
    <2>1. ProtectedReturns \/ FinaliserReturns => err = None
        BY DEF ProtectedReturns, FinaliserReturns, LuaOnTop
    <2>2. BackendReturns => Topmost.kind = "backend"
        BY <1>1, OnTop DEF BackendReturns, Is
    <2> QED
        BY <1>1, <2>1, <2>2, OnTop DEF Hushed
<1>5. inPhp \in Nat
    BY <1>1, OnTop
<1> QED
    BY <1>2, <1>3, <1>4, <1>5 DEF Popping

LEMMA CallableReturnsIs ==
    ASSUME OnStack, CallableReturns
    PROVE  Popping \/ PopThrowing
<1>1. TopKind = "callable"
    BY DEF CallableReturns, Is
<1>2. Topmost.kind = "callable" /\ err = None /\ PhpOf(Topmost) = 1
    BY <1>1, OnTop DEF Hushed, PhpOf
<1>3. inPhp' = inPhp - PhpOf(Topmost) /\ UNCHANGED <<threads, co, running, inLua>>
    BY <1>2 DEF CallableReturns
<1>4. CASE \E e \in Errors : Throw(Under, e)
    BY <1>1, <1>2, <1>3, <1>4, OnTop DEF PopThrowing, Throw
<1>5. CASE frames' = Under /\ err' = err
    <2>1. DoesPop
        BY <1>1, <1>5, OnTop, PopIs
    <2> QED
        BY <1>2, <1>3, <1>5, <2>1 DEF Popping
<1>6. RaisedFor(pending) \in Errors \/ pending = None
    BY DEF OnStack, CallsTypeOK, RaisedFor, Errors
<1>7. "fatal" \in Errors
    BY DEF Errors
<1> QED
    BY <1>4, <1>5, <1>6, <1>7 DEF CallableReturns

LEMMA FinaliserFailsIs ==
    ASSUME OnStack, FinaliserFails
    PROVE  Popping \/ PopThrowing
<1>1. TopKind = "gc" /\ err # None
    BY DEF FinaliserFails, Is
<1>2. Topmost.kind = "gc" /\ err \in Errors /\ PhpOf(Topmost) = 0 /\ inPhp \in Nat
    BY <1>1, OnTop DEF PhpOf
<1>3. inPhp' = inPhp - PhpOf(Topmost) /\ UNCHANGED <<threads, co, running, inLua>>
    BY <1>2 DEF FinaliserFails
<1>4. CASE Throw(Under, err)
    BY <1>1, <1>2, <1>3, <1>4, OnTop DEF PopThrowing, Throw
<1>5. CASE frames' = Under /\ err' = None
    <2>1. DoesPop
        BY <1>1, <1>5, OnTop, PopIs
    <2> QED
        BY <1>2, <1>3, <1>5, <2>1 DEF Popping
<1> QED
    BY <1>4, <1>5 DEF FinaliserFails

LEMMA UnwindingIs ==
    ASSUME OnStack, CreateFails \/ Finish
    PROVE  Unwinding
<1>1. TopKind \in {"pcall", "xpcall", "create"} /\ err # None /\ frames' = Under
    BY DEF CreateFails, Finish, Is
<1>2. DoesPop /\ Topmost.kind \in {"pcall", "xpcall", "create"}
    BY <1>1, OnTop, PopIs
<1>3. err' \in {err, Kept(err)} /\ UNCHANGED <<threads, co, running, inLua, inPhp>>
    BY DEF CreateFails, Finish
<1> QED
    BY <1>1, <1>2, <1>3 DEF Unwinding

LEMMA TodoType ==
    ASSUME NEW f \in Frame, f.kind \in {"pcall", "xpcall", "call"}, NEW g, NEW x,
           x \in SUBSET f.todo, g = [f EXCEPT !.todo = x]
    PROVE  g \in Frame /\ SameBut(f, g)
<1>1. CASE f.kind = "call"
    <2>1. f \in CallFrame
        BY <1>1, FrameIs
    <2>2. g \in CallFrame /\ SameBut(f, g)
        BY <2>1 DEF CallFrame, SameBut
    <2> QED
        BY <2>2, IsFrame
<1>2. CASE f.kind # "call"
    <2>1. f \in ProtectFrame
        BY <1>2, FrameIs
    <2>2. g \in ProtectFrame /\ SameBut(f, g)
        BY <1>2, <2>1 DEF ProtectFrame, SameBut
    <2> QED
        BY <2>2, IsFrame
<1> QED
    BY <1>1, <1>2

LEMMA HandlerType ==
    ASSUME NEW e \in Errors \cup {None}, NEW h, h = [kind |-> "handler", over |-> e]
    PROVE  h \in Frame /\ h.kind = "handler" /\ h.over = e
BY IsFrame DEF HandlerFrame

\* A frame pushed on another one put in the place of the top.
LEMMA TwoOn ==
    ASSUME NEW us \in Seq(Frame), NEW f \in Frame, NEW h \in Frame
    PROVE  us \o <<f, h>> = Append(Append(us, f), h)
OBVIOUS

LEMMA HandlingIs ==
    ASSUME OnStack, NEW x, x \in SUBSET Top.todo,
           TopKind \in {"pcall", "xpcall", "call"}, TopKind = "call" => Top.phase = "run",
           frames' = Under \o <<[Top EXCEPT !.todo = x], [kind |-> "handler", over |-> err]>>,
           err' = None, UNCHANGED <<threads, co, running, inLua, inPhp>>
    PROVE  \E f, h : Handling(f, h)
<1>1. /\ frames \in Seq(Frame) /\ frames # <<>> /\ Top = Topmost /\ Topmost \in Frame
      /\ Under = Front(frames) /\ err \in Errors \cup {None} /\ TopKind = Topmost.kind
    BY OnTop
<1>2. PICK f : f = [Topmost EXCEPT !.todo = x]
    OBVIOUS
<1>3. PICK h : h = [kind |-> "handler", over |-> err]
    OBVIOUS
<1>4. f \in Frame /\ SameBut(Topmost, f)
    BY <1>1, <1>2, TodoType
<1>5. h \in Frame /\ h.kind = "handler" /\ h.over = err
    BY <1>1, <1>3, HandlerType
<1>6. PICK us \in Seq(Frame) : us = Front(frames)
    BY <1>1, Popped
<1>7. frames' = us \o <<f, h>>
    BY <1>1, <1>2, <1>3, <1>6
<1>8. frames' = Append(Append(Front(frames), f), h)
    BY <1>4, <1>5, <1>6, <1>7, TwoOn
<1> QED
    BY <1>1, <1>4, <1>5, <1>8 DEF Handling

LEMMA RunMessageHandlerIs ==
    ASSUME OnStack, RunMessageHandler
    PROVE  (\E f : Skipping(f)) \/ \E f, h : Handling(f, h)
<1>1. TopKind = "xpcall" /\ err # None
    BY DEF RunMessageHandler, Is
<1>2. /\ frames \in Seq(Frame) /\ frames # <<>> /\ Top = Topmost /\ Topmost \in Frame
      /\ Under = Front(frames) /\ err \in Errors \cup {None} /\ TopKind = Topmost.kind
    BY <1>1, OnTop
<1>3. CASE SkipsHandler(err)
    <2>0. PICK x : x = Topmost.todo \ {"message"}
        OBVIOUS
    <2>1. PICK f : frames' = Append(Front(frames), f) /\ f = [Topmost EXCEPT !.todo = x]
        BY <1>2, <1>3, <2>0 DEF RunMessageHandler, Become
    <2>2. f \in Frame /\ SameBut(Topmost, f)
        <3>1. x \in SUBSET Topmost.todo
            BY <2>0
        <3> QED
            BY <1>1, <1>2, <2>1, <3>1, TodoType
    <2>3. frames' \in Seq(Frame) /\ Retops(frames, frames', f)
        BY <1>2, <2>1, <2>2, Retopped
    <2>4. f.kind = "xpcall" /\ Topmost.kind = "xpcall"
        BY <1>1, <1>2, <2>2 DEF SameBut
    <2>5. UNCHANGED <<err, threads, co, running, inLua, inPhp>>
        BY <1>3 DEF RunMessageHandler
    <2> QED
        BY <1>1, <1>2, <2>1, <2>2, <2>3, <2>4, <2>5 DEF Skipping, DoesRetop
<1>4. CASE ~SkipsHandler(err)
    <2>1. PICK x : x = Top.todo \ {"message"}
        OBVIOUS
    <2>2. frames' = Under \o <<[Top EXCEPT !.todo = x], [kind |-> "handler", over |-> err]>>
        BY <1>4, <2>1 DEF RunMessageHandler
    <2>3. err' = None /\ UNCHANGED <<threads, co, running, inLua, inPhp>>
        BY <1>4 DEF RunMessageHandler
    <2> QED
        BY <1>1, <2>1, <2>2, <2>3, HandlingIs
<1> QED
    BY <1>3, <1>4

LEMMA RunCloseHandlerIs ==
    ASSUME OnStack, RunCloseHandler
    PROVE  \E f, h : Handling(f, h)
<1>1. TopKind \in {"pcall", "xpcall", "call"} /\ (TopKind = "call" => Top.phase = "run")
    BY DEF RunCloseHandler, Is
<1>2. PICK x : x = {}
    OBVIOUS
<1>3. x \in SUBSET Top.todo
    BY <1>2
<1>4. frames' = Under \o <<[Top EXCEPT !.todo = x], [kind |-> "handler", over |-> err]>>
    BY <1>2 DEF RunCloseHandler
<1>5. err' = None /\ UNCHANGED <<threads, co, running, inLua, inPhp>>
    BY DEF RunCloseHandler
<1> QED
    BY <1>1, <1>3, <1>4, <1>5, HandlingIs

LEMMA HandlerReturnsIs ==
    ASSUME OnStack, HandlerReturns
    PROVE  HandlerBack
<1>1. TopKind = "handler" /\ frames' = Under
    BY DEF HandlerReturns, Is
<1>2. DoesPop /\ Topmost.kind = "handler" /\ Top = Topmost
    BY <1>1, OnTop, PopIs
<1> QED
    BY <1>2 DEF HandlerReturns, HandlerBack, LuaOnTop

LEMMA HandlerFailsIs ==
    ASSUME OnStack, HandlerFails
    PROVE  HandlerLost
<1>1. TopKind = "handler"
    BY DEF HandlerFails, Is
<1>2. frames # <<>> /\ Topmost.kind = "handler" /\ Top = Topmost /\ Under = Front(frames)
    BY <1>1, OnTop
<1> QED
    BY <1>2 DEF HandlerFails, HandlerLost

LEMMA CreateCountsIs ==
    ASSUME OnStack, CreateCounts
    PROVE  PopThrowing \/ \E f : Making(f)
<1>1. TopKind = "create" /\ err = None /\ co' = [co EXCEPT !.live = Count(FALSE)]
    BY DEF CreateCounts, Is
<1>2. /\ frames \in Seq(Frame) /\ frames # <<>> /\ Top = Topmost /\ Topmost \in Frame
      /\ Under = Front(frames) /\ TopKind = Topmost.kind /\ inPhp \in Nat
    BY <1>1, OnTop
<1>3. UNCHANGED <<threads, running, inLua, inPhp>>
    BY DEF CreateCounts
<1>4. CASE Count(TRUE) >= MaxLive
    <2>1. err' \in Errors /\ frames' = Owing(Front(frames), err')
        BY <1>2, <1>4 DEF CreateCounts, Throw, Errors
    <2>2. inPhp' = inPhp - PhpOf(Topmost)
        BY <1>1, <1>2, <1>3 DEF PhpOf
    <2> QED
        BY <1>1, <1>2, <1>3, <2>1, <2>2 DEF PopThrowing
<1>5. CASE ~(Count(TRUE) >= MaxLive)
    <2>1. PICK f : frames' = Append(Front(frames), f) /\ f = [Topmost EXCEPT !.phase = "make"]
        BY <1>2, <1>5 DEF CreateCounts, Become
    <2>2. Topmost \in CreateFrame
        BY <1>1, <1>2, FrameIs
    <2>3. f \in CreateFrame /\ f.kind = "create" /\ f.phase = "make"
        BY <2>1, <2>2 DEF CreateFrame
    <2>4. f \in Frame
        BY <2>3, IsFrame
    <2>5. frames' \in Seq(Frame) /\ Retops(frames, frames', f)
        BY <1>2, <2>1, <2>4, Retopped
    <2>6. err' = None
        BY <1>1, <1>5 DEF CreateCounts
    <2>7. Count(TRUE) \in Nat
        <3>1. {t \in co.tracked : TRUE => Alive(t)} \subseteq Threads
            BY DEF OnStack, CallsTypeOK
        <3> QED
            BY <3>1, CallsAssumption, FS_Subset, FS_CardinalityType DEF Count
    <2>8. Count(TRUE) < MaxLive
        <3>1. PICK m \in Nat : m = Count(TRUE)
            BY <2>7, Zenon
        <3>2. ~(m >= MaxLive)
            BY <1>5, <3>1, Zenon
        <3>3. m < MaxLive
            BY <3>2, CallsAssumption
        <3> QED
            BY <3>1, <3>3, Zenon
    <2> QED
        BY <1>1, <1>2, <1>3, <2>1, <2>3, <2>4, <2>5, <2>6, <2>8 DEF Making, DoesRetop
<1> QED
    BY <1>4, <1>5

--------------------------------------------------------------------------------
(* The steps of the coroutines.                                                 *)

ThreadSet(t, q) ==
    /\ t \in Threads /\ q \in ThreadState
    /\ threads' \in [Threads -> ThreadState] /\ threads'[t] = q
    /\ OnlyChanges(threads, threads', t)

CoTyped(c) == c \in [live : Nat, depth : Nat, sweeping : BOOLEAN,
                     tracked : SUBSET Threads, left : SUBSET Threads]

Created(t, q) ==
    /\ DoesPop /\ Topmost.kind = "create" /\ Topmost.phase = "make"
    /\ err = None /\ err' = None
    /\ threads[t].status = "unborn" /\ ThreadSet(t, q)
    /\ q.status = "suspended" /\ ~q.open /\ q.err = None /\ q.late = Late
    /\ co' = [co EXCEPT !.tracked = co.tracked \cup {t}, !.live = co.live + 1]
    /\ UNCHANGED <<running, inLua, inPhp>>

Started(f, q) ==
    /\ LuaOnTop /\ DoesPush(f) /\ f \in ResumeFrame /\ f.from = running
    /\ threads[f.on].status = "suspended" /\ ~ClosedIn(frames, f.on)
    /\ ThreadSet(f.on, q)
    /\ q.status = "active" /\ q.err = threads[f.on].err /\ q.late = threads[f.on].late
    /\ err = None /\ err' = None
    /\ co' = [co EXCEPT !.depth = co.depth + 1]
    /\ running' = f.on
    /\ UNCHANGED <<inLua, inPhp>>

Back(q) ==
    /\ DoesPop /\ Topmost \in ResumeFrame /\ ThreadSet(Topmost.on, q)
    /\ q.open = threads[Topmost.on].open /\ q.late = threads[Topmost.on].late
    /\ \/ /\ err = None /\ err' = None /\ q.err = threads[Topmost.on].err
          /\ \/ q.status = "suspended"
             \/ q.status = "dead" /\ ~q.open
       \/ /\ Topmost.kind = "resume" /\ err # None /\ err' = Kept(err)
          /\ q.err = err /\ q.status = "failed"
    /\ co' = [co EXCEPT !.depth = co.depth - 1]
    /\ running' = Topmost.from
    /\ UNCHANGED <<inLua, inPhp>>

ScopeEnds(h, q) ==
    /\ DoesPush(h) /\ h.kind = "handler"
    /\ Len(frames) > 0 /\ Topmost.kind \in InnerKinds
    /\ h.over = IF Topmost.kind = "closing" THEN threads[Topmost.on].err ELSE None
    /\ threads[Topmost.on].open /\ ThreadSet(Topmost.on, q)
    /\ q = [threads[Topmost.on] EXCEPT !.open = FALSE]
    /\ err = None /\ err' = None
    /\ UNCHANGED <<co, running, inLua, inPhp>>

WrapBroken(f, q) ==
    /\ DoesRetop(f) /\ Topmost \in ResumeFrame /\ Topmost.kind = "wrap"
    /\ f \in ClosingFrame /\ f.who = "wrap" /\ f.on = Topmost.on /\ f.from = Topmost.from
    /\ err # None /\ err' = None /\ ThreadSet(f.on, q)
    /\ q = [threads[f.on] EXCEPT !.status = "failed", !.err = err]
    /\ co' = [co EXCEPT !.depth = co.depth - 1]
    /\ running' = f.on
    /\ UNCHANGED <<inLua, inPhp>>

\* A close, by another state, by the sweep, and by the thread itself.
ClosePush(f) ==
    /\ DoesPush(f) /\ f \in ClosingFrame /\ f.from = running
    /\ \/ /\ LuaOnTop /\ f.who = "close" /\ ~ClosedIn(frames, f.on)
          /\ threads[f.on].status \in {"suspended", "failed", "dead"}
          /\ UNCHANGED co
       \/ /\ LuaOnTop /\ f.who = "self" /\ f.on = Topmost.on
          /\ Topmost.kind \in {"resume", "wrap"}
          /\ UNCHANGED co
       \/ /\ Topmost.kind = "call" /\ Topmost.phase = "walk" /\ Len(frames) > 0
          /\ f.who = "sweep" /\ f.on \in co.left
          /\ co' = [co EXCEPT !.left = co.left \ {f.on}]
    /\ err = None /\ err' = None
    /\ running' = f.on
    /\ UNCHANGED <<threads, inLua, inPhp>>

Heard(q) ==
    /\ frames # <<>> /\ Topmost \in ClosingFrame /\ err # None /\ err' = None
    /\ ThreadSet(Topmost.on, q) /\ q = [threads[Topmost.on] EXCEPT !.err = err]
    /\ UNCHANGED <<frames, co, running, inLua, inPhp>>

Over(q) ==
    /\ frames # <<>> /\ Topmost \in ClosingFrame /\ Topmost.who # "self"
    /\ err = None /\ ~threads[Topmost.on].open /\ ThreadSet(Topmost.on, q)
    /\ q = [threads[Topmost.on] EXCEPT !.status = "dead", !.err = None]
    /\ LET e == threads[Topmost.on].err
       IN  CASE Topmost.who = "sweep" -> err' = None /\ frames' = Front(frames)
             [] Topmost.who = "wrap"  -> /\ err' = (IF e = "nomem" THEN "fatal" ELSE e)
                                         /\ frames' = Front(frames)
             [] OTHER -> /\ err' = Kept(e)
                         /\ frames' = IF Kept(e) = None THEN Front(frames)
                                      ELSE Owing(Front(frames), Kept(e))
    /\ running' = Topmost.from
    /\ UNCHANGED <<co, inLua, inPhp>>

SelfOver(us, f, q) ==
    /\ Topmost \in ClosingFrame /\ Topmost.who = "self" /\ frames # <<>>
    /\ us \in Seq(Frame) /\ Pops(frames, us) /\ us # <<>> /\ f = us[Len(us)] /\ f \in ResumeFrame
    /\ f.on = Topmost.on /\ err = None /\ ~threads[f.on].open
    /\ \/ /\ threads[f.on].err = None
          /\ frames' \in Seq(Frame) /\ Pops(us, frames') /\ err' = None
          /\ ThreadSet(f.on, q) /\ q = [threads[f.on] EXCEPT !.status = "dead"]
          /\ co' = [co EXCEPT !.depth = co.depth - 1]
          /\ running' = f.from
       \/ /\ threads[f.on].err # None
          /\ frames' = us /\ err' = threads[f.on].err
          /\ UNCHANGED <<threads, co, running>>
    /\ UNCHANGED <<inLua, inPhp>>

Collected(t) ==
    /\ err = None /\ err' = None /\ ~ClosedIn(frames, t)
    /\ threads[t].status \in {"suspended", "failed", "dead"} /\ ThreadSet(t, BlankThread)
    /\ co' = [co EXCEPT !.tracked = co.tracked \ {t}, !.left = co.left \ {t}]
    /\ UNCHANGED <<frames, running, inLua, inPhp>>

LEMMA ThreadsAre ==
    ASSUME OnStack
    PROVE  /\ threads \in [Threads -> ThreadState] /\ CoTyped(co)
           /\ frames \in Seq(Frame) /\ Len(frames) \in Nat
           /\ inPhp \in Nat /\ inLua \in Nat /\ err \in Errors \cup {None}
           /\ \A t \in Threads : /\ threads[t] \in ThreadState
                                 /\ BeingClosed(t) <=> ClosedIn(frames, t)
BY DEF OnStack, CallsTypeOK, Stacked, CoTyped, BeingClosed, ClosedIn

LEMMA SetIs ==
    ASSUME OnStack, NEW t \in Threads, NEW q \in ThreadState, threads' = [threads EXCEPT ![t] = q]
    PROVE  ThreadSet(t, q)
BY ThreadsAre DEF ThreadSet, OnlyChanges

LEMMA BlankIs == BlankThread \in ThreadState /\ BlankThread.status = "unborn"
                 /\ ~BlankThread.open /\ BlankThread.err = None
BY DEF BlankThread, ThreadState

LEMMA StateIs ==
    ASSUME NEW p \in ThreadState, NEW q, NEW s, NEW o \in BOOLEAN, NEW e \in Errors \cup {None},
           s \in {"unborn", "suspended", "active", "failed", "dead"},
           q = [p EXCEPT !.status = s, !.open = o, !.err = e]
    PROVE  q \in ThreadState /\ q.status = s /\ q.open = o /\ q.err = e /\ q.late = p.late
BY DEF ThreadState

LEMMA CreateMakesIs ==
    ASSUME OnStack, CreateMakes
    PROVE  \E t, q : Created(t, q)
<1>1. TopKind = "create" /\ Top.phase = "make" /\ err = None /\ frames' = Under
    BY DEF CreateMakes, Is
<1>2. DoesPop /\ Topmost.kind = "create" /\ Topmost.phase = "make"
    BY <1>1, OnTop, PopIs
<1>3. PICK t \in Threads :
         /\ threads[t].status = "unborn"
         /\ threads' = [threads EXCEPT ![t] = [BlankThread EXCEPT !.status = "suspended",
                                                                 !.late = Late]]
         /\ co' = [co EXCEPT !.tracked = co.tracked \cup {t}, !.live = co.live + 1]
    BY DEF CreateMakes
<1>4. PICK l \in BOOLEAN : l = Late
    BY DEF Late
<1>5. PICK q : q = [BlankThread EXCEPT !.status = "suspended", !.late = l]
    OBVIOUS
<1>6. q \in ThreadState /\ q.status = "suspended" /\ ~q.open /\ q.err = None /\ q.late = l
    BY <1>5 DEF BlankThread, ThreadState
<1>7. threads' = [threads EXCEPT ![t] = q]
    BY <1>3, <1>4, <1>5, Zenon
<1>8. ThreadSet(t, q)
    BY <1>6, <1>7, SetIs
<1>9. Created(t, q)
    BY <1>1, <1>2, <1>3, <1>4, <1>6, <1>8 DEF Created, CreateMakes
<1> QED
    BY <1>9

LEMMA ResumeIs ==
    ASSUME OnStack, Resume
    PROVE  Throwing \/ \E f, q : Started(f, q)
<1>1. PICK t \in Threads, k \in {"resume", "wrap"}, open \in BOOLEAN :
         /\ threads[t].status = "suspended" /\ ~BeingClosed(t)
         /\ IF co.depth >= MaxDepth
            THEN /\ Throw(frames, "fatal")
                 /\ UNCHANGED <<threads, co, running>>
            ELSE /\ Push([kind |-> k, on |-> t, from |-> running])
                 /\ threads' = [threads EXCEPT ![t].status = "active",
                                               ![t].open = threads[t].open \/ open]
                 /\ co' = [co EXCEPT !.depth = co.depth + 1]
                 /\ running' = t
                 /\ UNCHANGED err
    BY DEF Resume
<1>2. CASE co.depth >= MaxDepth
    BY <1>1, <1>2 DEF Resume, Throwing, Throw, Errors
<1>3. CASE ~(co.depth >= MaxDepth)
    <2>1. PICK f : f = [kind |-> k, on |-> t, from |-> running]
        OBVIOUS
    <2>2. running \in Threads \cup {Main}
        BY DEF OnStack, CallsTypeOK
    <2>3. f \in ResumeFrame /\ f.on = t /\ f.from = running
        BY <2>1, <2>2 DEF ResumeFrame
    <2>4. DoesPush(f)
        BY <1>1, <1>3, <2>1, <2>3, IsFrame, Pushed, ThreadsAre DEF DoesPush, Push
    <2>5. PICK o \in BOOLEAN : o = (threads[t].open \/ open)
        OBVIOUS
    <2>6. PICK q : q = [threads[t] EXCEPT !.status = "active", !.open = o]
        OBVIOUS
    <2>7. threads[t] \in ThreadState
        BY ThreadsAre
    <2>8. /\ q \in ThreadState /\ q.status = "active" /\ q.err = threads[t].err
          /\ q.late = threads[t].late
        BY <2>6, <2>7 DEF ThreadState
    <2>9. threads' = [threads EXCEPT ![t] = q]
        BY <1>1, <1>3, <2>5, <2>6, ThreadsAre
    <2>10. ThreadSet(t, q)
        BY <2>8, <2>9, SetIs
    <2>11. ~ClosedIn(frames, t)
        BY <1>1, ThreadsAre
    <2>12. err = None /\ LuaOnTop /\ UNCHANGED <<inLua, inPhp>>
        BY DEF Resume, LuaOnTop
    <2>13. Started(f, q)
        BY <1>1, <1>3, <2>3, <2>4, <2>8, <2>10, <2>11, <2>12 DEF Started
    <2> QED
        BY <2>13
<1> QED
    BY <1>2, <1>3

LEMMA ResumingIs ==
    ASSUME OnStack, TopKind \in {"resume", "wrap"}
    PROVE  /\ Topmost \in ResumeFrame /\ Topmost.kind = TopKind /\ Top = Topmost
           /\ Topmost.on \in Threads /\ threads[Topmost.on] \in ThreadState
           /\ threads \in [Threads -> ThreadState]
           /\ frames \in Seq(Frame) /\ frames # <<>> /\ Under = Front(frames)
           /\ err \in Errors \cup {None} /\ running = Topmost.on
<1>1. /\ frames \in Seq(Frame) /\ frames # <<>> /\ Top = Topmost /\ Topmost \in Frame
      /\ Under = Front(frames) /\ err \in Errors \cup {None} /\ TopKind = Topmost.kind
    BY OnTop
<1>2. Topmost \in ResumeFrame
    BY <1>1, FrameIs
<1>3. Topmost.on \in Threads
    BY <1>2 DEF ResumeFrame
<1>4. PICK us \in Seq(Frame) : Pops(frames, us)
    BY <1>1, Popped
<1>5. running = Topmost.on
    <2>1. Stacked(frames, err, running, inLua, inPhp, co.depth)
        BY DEF OnStack
    <2>2. Topmost.kind \in InnerKinds => running = Topmost.on
        BY <1>1, <1>4, <2>1, StackedDrop DEF Topmost
    <2> QED
        BY <1>1, <2>2 DEF InnerKinds
<1> QED
    BY <1>1, <1>2, <1>3, <1>5, ThreadsAre

LEMMA BackIs ==
    ASSUME OnStack, Yield \/ BodyReturns \/ ResumeFails
    PROVE  \E q : Back(q)
<1>1. TopKind \in {"resume", "wrap"} /\ frames' = Under
    BY DEF Yield, BodyReturns, ResumeFails, Resuming, Is
<1> DEFINE t == Topmost.on
<1>2. /\ Topmost \in ResumeFrame /\ Topmost.kind = TopKind /\ Top = Topmost /\ t \in Threads
      /\ threads[t] \in ThreadState /\ threads \in [Threads -> ThreadState]
      /\ frames \in Seq(Frame) /\ frames # <<>> /\ err \in Errors \cup {None}
    BY <1>1, ResumingIs
<1>3. DoesPop
    BY <1>1, <1>2, PopIs
<1>4. /\ co' = [co EXCEPT !.depth = co.depth - 1] /\ running' = Topmost.from
      /\ UNCHANGED <<inLua, inPhp>>
    BY <1>2 DEF Yield, BodyReturns, ResumeFails, BackFromResume
<1> HIDE DEF t
<1>5. CASE Yield
    <2>1. PICK q : q = [threads[t] EXCEPT !.status = "suspended"]
        OBVIOUS
    <2>2. /\ q \in ThreadState /\ q.status = "suspended" /\ q.err = threads[t].err
          /\ q.open = threads[t].open /\ q.late = threads[t].late
        BY <1>2, <2>1 DEF ThreadState
    <2>3. threads' = [threads EXCEPT ![t] = q]
        BY <1>2, <1>5, <2>1 DEF Yield, BackFromResume, t
    <2>4. ThreadSet(t, q)
        BY <1>2, <2>2, <2>3, SetIs
    <2>5. err = None /\ err' = None
        BY <1>5 DEF Yield, LuaOnTop
    <2>6. Back(q)
        BY <1>2, <1>3, <1>4, <2>2, <2>4, <2>5 DEF Back, t
    <2> QED
        BY <2>6
<1>6. CASE BodyReturns
    <2>1. PICK q : q = [threads[t] EXCEPT !.status = "dead"]
        OBVIOUS
    <2>2. /\ q \in ThreadState /\ q.status = "dead" /\ q.err = threads[t].err
          /\ q.open = threads[t].open /\ q.late = threads[t].late
        BY <1>2, <2>1 DEF ThreadState
    <2>3. threads' = [threads EXCEPT ![t] = q]
        BY <1>2, <1>6, <2>1 DEF BodyReturns, BackFromResume, t
    <2>4. ThreadSet(t, q)
        BY <1>2, <2>2, <2>3, SetIs
    <2>5. err = None /\ err' = None /\ ~threads[t].open
        BY <1>2, <1>6 DEF BodyReturns, LuaOnTop, t
    <2>6. Back(q)
        BY <1>2, <1>3, <1>4, <2>2, <2>4, <2>5 DEF Back, t
    <2> QED
        BY <2>6
<1>7. CASE ResumeFails
    <2>1. PICK q : q = [threads[t] EXCEPT !.status = "failed", !.err = err]
        OBVIOUS
    <2>2. /\ q \in ThreadState /\ q.status = "failed" /\ q.err = err
          /\ q.open = threads[t].open /\ q.late = threads[t].late
        BY <1>2, <2>1 DEF ThreadState
    <2>3. threads' = [threads EXCEPT ![t] = q]
        BY <1>2, <1>7, <2>1 DEF ResumeFails, BackFromResume, t
    <2>4. ThreadSet(t, q)
        BY <1>2, <2>2, <2>3, SetIs
    <2>5. err # None /\ err' = Kept(err) /\ Topmost.kind = "resume"
        BY <1>2, <1>7 DEF ResumeFails, Is
    <2>6. Back(q)
        BY <1>2, <1>3, <1>4, <2>2, <2>4, <2>5 DEF Back, t
    <2> QED
        BY <2>6
<1> QED
    BY <1>5, <1>6, <1>7

LEMMA ClosingIs ==
    ASSUME OnStack, TopKind = "closing"
    PROVE  /\ Topmost \in ClosingFrame /\ Topmost.kind = "closing" /\ Top = Topmost
           /\ Topmost.on \in Threads /\ threads[Topmost.on] \in ThreadState
           /\ threads \in [Threads -> ThreadState]
           /\ frames \in Seq(Frame) /\ frames # <<>> /\ Under = Front(frames)
           /\ err \in Errors \cup {None}
<1>1. /\ frames \in Seq(Frame) /\ frames # <<>> /\ Top = Topmost /\ Topmost \in Frame
      /\ Under = Front(frames) /\ err \in Errors \cup {None} /\ TopKind = Topmost.kind
    BY OnTop
<1>2. Topmost \in ClosingFrame
    BY <1>1, FrameIs
<1>3. Topmost.on \in Threads
    BY <1>2 DEF ClosingFrame
<1> QED
    BY <1>1, <1>2, <1>3, ThreadsAre

LEMMA ScopeEndsIs ==
    ASSUME OnStack, BodyClosesScope \/ ClosingRunsHandler
    PROVE  \E h, q : ScopeEnds(h, q)
<1>1. TopKind \in {"resume", "wrap", "closing"} /\ (ClosingRunsHandler => TopKind = "closing")
      /\ (BodyClosesScope => TopKind # "closing")
    BY DEF BodyClosesScope, ClosingRunsHandler, Resuming, Is
<1> DEFINE t == Topmost.on
<1>2. /\ Topmost.kind = TopKind /\ Top = Topmost /\ t \in Threads
      /\ threads[t] \in ThreadState /\ threads \in [Threads -> ThreadState]
      /\ frames \in Seq(Frame)
    BY <1>1, ResumingIs, ClosingIs
<1> HIDE DEF t
<1>3. PICK e \in Errors \cup {None} :
        e = IF Topmost.kind = "closing" THEN threads[t].err ELSE None
    BY <1>2 DEF ThreadState
<1>4. PICK h : h = [kind |-> "handler", over |-> e]
    OBVIOUS
<1>5. h \in Frame /\ h.kind = "handler" /\ h.over = e
    BY <1>4, HandlerType
<1>6. frames' = Append(frames, h)
    BY <1>1, <1>2, <1>3, <1>4 DEF BodyClosesScope, ClosingRunsHandler, Push, t
<1>7. DoesPush(h)
    BY <1>2, <1>5, <1>6, Pushed DEF DoesPush
<1>8. PICK q : q = [threads[t] EXCEPT !.open = FALSE]
    OBVIOUS
<1>9. q \in ThreadState
    BY <1>2, <1>8 DEF ThreadState
<1>10. threads' = [threads EXCEPT ![t] = q]
    BY <1>2, <1>8 DEF BodyClosesScope, ClosingRunsHandler, t
<1>11. ThreadSet(t, q)
    BY <1>2, <1>9, <1>10, SetIs
<1>12. /\ err = None /\ err' = None /\ threads[t].open
       /\ UNCHANGED <<co, running, inLua, inPhp>>
    BY <1>2 DEF BodyClosesScope, ClosingRunsHandler, LuaOnTop, t
<1>13. Topmost.kind \in InnerKinds /\ Len(frames) > 0
    BY <1>1, <1>2, OnTop DEF InnerKinds
<1>14. ScopeEnds(h, q)
    BY <1>3, <1>5, <1>7, <1>8, <1>11, <1>12, <1>13 DEF ScopeEnds, t
<1> QED
    BY <1>14

LEMMA WrapFailsIs ==
    ASSUME OnStack, WrapFails
    PROVE  \E f, q : WrapBroken(f, q)
<1>1. TopKind = "wrap"
    BY DEF WrapFails, Is
<1> DEFINE t == Topmost.on
<1>2. /\ Topmost \in ResumeFrame /\ Topmost.kind = TopKind /\ Top = Topmost /\ t \in Threads
      /\ threads[t] \in ThreadState /\ threads \in [Threads -> ThreadState]
      /\ frames \in Seq(Frame) /\ frames # <<>> /\ err \in Errors \cup {None}
      /\ Under = Front(frames)
    BY <1>1, ResumingIs
<1>3. PICK f : f = [kind |-> "closing", on |-> Topmost.on, from |-> Topmost.from, who |-> "wrap"]
    OBVIOUS
<1>4. f \in ClosingFrame /\ f.who = "wrap" /\ f.on = Topmost.on /\ f.from = Topmost.from
    BY <1>2, <1>3 DEF ClosingFrame, ResumeFrame
<1>5. frames' = Append(Front(frames), f)
    BY <1>2, <1>3 DEF WrapFails, Become
<1>6. f \in Frame
    BY <1>4, IsFrame
<1>7. DoesRetop(f)
    BY <1>2, <1>5, <1>6, Retopped DEF DoesRetop
<1> HIDE DEF t
<1>8. PICK q : q = [threads[t] EXCEPT !.status = "failed", !.err = err]
    OBVIOUS
<1>9. q \in ThreadState
    BY <1>2, <1>8 DEF ThreadState
<1>10. threads' = [threads EXCEPT ![t] = q]
    BY <1>2, <1>8 DEF WrapFails, BackFromResume, t
<1>11. ThreadSet(t, q)
    BY <1>2, <1>9, <1>10, SetIs
<1>12. /\ err # None /\ err' = None /\ co' = [co EXCEPT !.depth = co.depth - 1]
       /\ running' = t /\ UNCHANGED <<inLua, inPhp>>
    BY <1>2 DEF WrapFails, BackFromResume, t
<1>13. WrapBroken(f, q)
    BY <1>1, <1>2, <1>4, <1>7, <1>8, <1>11, <1>12 DEF WrapBroken, t
<1> QED
    BY <1>13

LEMMA ClosingType ==
    ASSUME OnStack, NEW t \in Threads, NEW w \in {"sweep", "wrap", "close", "self"},
           NEW f, f = [kind |-> "closing", on |-> t, from |-> running, who |-> w],
           frames' = Append(frames, f)
    PROVE  f \in ClosingFrame /\ f.on = t /\ f.who = w /\ f.from = running /\ DoesPush(f)
<1>1. running \in Threads \cup {Main} /\ frames \in Seq(Frame)
    BY DEF OnStack, CallsTypeOK
<1>2. f \in ClosingFrame /\ f.on = t /\ f.who = w /\ f.from = running
    BY <1>1 DEF ClosingFrame
<1>3. f \in Frame
    BY <1>2, IsFrame
<1> QED
    BY <1>1, <1>2, <1>3, Pushed DEF DoesPush

LEMMA CloseIs ==
    ASSUME OnStack, Close
    PROVE  \E f : ClosePush(f)
<1>1. PICK t \in Threads :
        /\ threads[t].status \in {"suspended", "failed", "dead"} /\ ~BeingClosed(t)
        /\ frames' = Append(frames, [kind |-> "closing", on |-> t, from |-> running,
                                     who |-> "close"])
        /\ running' = t
    BY DEF Close, Push
<1>2. PICK f : f = [kind |-> "closing", on |-> t, from |-> running, who |-> "close"]
    OBVIOUS
<1>3. f \in ClosingFrame /\ f.on = t /\ f.who = "close" /\ f.from = running /\ DoesPush(f)
    BY <1>1, <1>2, ClosingType
<1>4. ~ClosedIn(frames, t)
    BY <1>1, ThreadsAre
<1>5. ClosePush(f)
    BY <1>1, <1>3, <1>4 DEF ClosePush, Close, LuaOnTop
<1> QED
    BY <1>5

LEMMA SelfCloseIs ==
    ASSUME OnStack, SelfClose
    PROVE  \E f : ClosePush(f)
<1>1. TopKind \in {"resume", "wrap"}
    BY DEF SelfClose, Resuming
<1>2. /\ Topmost.kind = TopKind /\ Top = Topmost /\ Topmost.on \in Threads
      /\ running = Topmost.on
    BY <1>1, ResumingIs
<1>3. PICK f : f = [kind |-> "closing", on |-> Topmost.on, from |-> running, who |-> "self"]
    OBVIOUS
<1>4. frames' = Append(frames, f)
    BY <1>2, <1>3 DEF SelfClose, Push
<1>5. /\ f \in ClosingFrame /\ f.on = Topmost.on /\ f.who = "self" /\ f.from = running
      /\ DoesPush(f)
    BY <1>2, <1>3, <1>4, ClosingType
<1>6. ClosePush(f)
    BY <1>1, <1>2, <1>5 DEF ClosePush, SelfClose, LuaOnTop
<1> QED
    BY <1>6

LEMMA SweepNextIs ==
    ASSUME OnStack, SweepNext
    PROVE  \E f : ClosePush(f)
<1>1. PICK t \in co.left :
        /\ frames' = Append(frames, [kind |-> "closing", on |-> t, from |-> running,
                                     who |-> "sweep"])
        /\ co' = [co EXCEPT !.left = co.left \ {t}]
        /\ running' = t
    BY DEF SweepNext, Push
<1>2. t \in Threads
    BY <1>1, ThreadsAre DEF CoTyped
<1>3. PICK f : f = [kind |-> "closing", on |-> t, from |-> running, who |-> "sweep"]
    OBVIOUS
<1>4. f \in ClosingFrame /\ f.on = t /\ f.who = "sweep" /\ f.from = running /\ DoesPush(f)
    BY <1>1, <1>2, <1>3, ClosingType
<1>5. TopKind = "call" /\ Top.phase = "walk"
    BY DEF SweepNext, Is
<1>6. Topmost.kind = "call" /\ Topmost.phase = "walk" /\ Len(frames) > 0
    BY <1>5, OnTop
<1>7. ClosePush(f)
    BY <1>1, <1>4, <1>6 DEF ClosePush, SweepNext
<1> QED
    BY <1>7

LEMMA ClosingHearsIs ==
    ASSUME OnStack, ClosingHears
    PROVE  \E q : Heard(q)
<1>1. TopKind = "closing" /\ err # None
    BY DEF ClosingHears, Is
<1> DEFINE t == Topmost.on
<1>2. /\ Topmost \in ClosingFrame /\ Top = Topmost /\ t \in Threads
      /\ threads[t] \in ThreadState /\ threads \in [Threads -> ThreadState]
      /\ frames # <<>> /\ err \in Errors \cup {None}
    BY <1>1, ClosingIs
<1> HIDE DEF t
<1>3. PICK q : q = [threads[t] EXCEPT !.err = err]
    OBVIOUS
<1>4. q \in ThreadState
    BY <1>2, <1>3 DEF ThreadState
<1>5. threads' = [threads EXCEPT ![t] = q]
    BY <1>2, <1>3 DEF ClosingHears, t
<1>6. ThreadSet(t, q)
    BY <1>2, <1>4, <1>5, SetIs
<1>7. Heard(q)
    BY <1>1, <1>2, <1>3, <1>6 DEF Heard, ClosingHears, t
<1> QED
    BY <1>7

LEMMA OverIs ==
    ASSUME OnStack, CloseEnds \/ WrapEnds \/ SweptOne
    PROVE  \E q : Over(q)
<1>1. PICK w \in {"close", "wrap", "sweep"} : /\ Closed(w) /\ (w = "close" => CloseEnds)
                                              /\ (w = "wrap" => WrapEnds)
                                              /\ (w = "sweep" => SweptOne)
    BY DEF CloseEnds, WrapEnds, SweptOne
<1>2. TopKind = "closing" /\ err = None /\ Top.who = w
    BY <1>1 DEF Closed, Is
<1> DEFINE t == Topmost.on
<1>3. /\ Topmost \in ClosingFrame /\ Top = Topmost /\ t \in Threads
      /\ threads[t] \in ThreadState /\ threads \in [Threads -> ThreadState]
      /\ frames # <<>> /\ Under = Front(frames)
    BY <1>2, ClosingIs
<1> HIDE DEF t
<1>4. PICK q : q = [threads[t] EXCEPT !.status = "dead", !.err = None]
    OBVIOUS
<1>5. q \in ThreadState
    BY <1>3, <1>4 DEF ThreadState
<1>6. threads' = [threads EXCEPT ![t] = q]
    BY <1>1, <1>3, <1>4 DEF Closed, t
<1>7. ThreadSet(t, q)
    BY <1>3, <1>5, <1>6, SetIs
<1>8. ~threads[t].open /\ running' = Topmost.from /\ Topmost.who = w
    BY <1>1, <1>2, <1>3 DEF Closed, t
<1>9. UNCHANGED <<co, inLua, inPhp>>
    BY <1>1 DEF CloseEnds, WrapEnds, SweptOne
<1>10. PICK e : e = threads[t].err
    OBVIOUS
<1>11. CASE w = "sweep"
    <2>1. err' = None /\ frames' = Front(frames)
        BY <1>1, <1>2, <1>3, <1>11 DEF SweptOne
    <2>2. Over(q)
        BY <1>2, <1>3, <1>4, <1>7, <1>8, <1>9, <1>11, <2>1 DEF Over, t
    <2> QED
        BY <2>2
<1>12. CASE w = "wrap"
    <2>1. err' = (IF e = "nomem" THEN "fatal" ELSE e) /\ frames' = Front(frames)
        BY <1>1, <1>3, <1>10, <1>12 DEF WrapEnds, t
    <2>2. Over(q)
        BY <1>2, <1>3, <1>4, <1>7, <1>8, <1>9, <1>10, <1>12, <2>1 DEF Over, t
    <2> QED
        BY <2>2
<1>13. CASE w = "close"
    <2>1. PICK k : k = Kept(e)
        OBVIOUS
    <2>2. IF k = None THEN frames' = Front(frames) /\ UNCHANGED err
          ELSE frames' = Owing(Front(frames), k) /\ err' = k
        BY <1>1, <1>3, <1>10, <1>13, <2>1 DEF CloseEnds, Throw, t
    <2>3. /\ err' = k
          /\ frames' = IF k = None THEN Front(frames) ELSE Owing(Front(frames), k)
        BY <1>2, <2>2
    <2>4. Over(q)
        BY <1>2, <1>3, <1>4, <1>7, <1>8, <1>9, <1>10, <1>13, <2>1, <2>3 DEF Over, t
    <2> QED
        BY <2>4
<1> QED
    BY <1>11, <1>12, <1>13

LEMMA SelfCloseEndsIs ==
    ASSUME OnStack, SelfCloseEnds
    PROVE  \E us, f, q : SelfOver(us, f, q)
<1>1. TopKind = "closing" /\ err = None /\ Top.who = "self"
    BY DEF SelfCloseEnds, Is
<1> DEFINE t == Topmost.on
<1>2. /\ Topmost \in ClosingFrame /\ Top = Topmost /\ t \in Threads
      /\ threads[t] \in ThreadState /\ threads \in [Threads -> ThreadState]
      /\ frames \in Seq(Frame) /\ frames # <<>> /\ Under = Front(frames)
    BY <1>1, ClosingIs
<1>3. PICK us \in Seq(Frame) : us = Front(frames) /\ Pops(frames, us)
    BY <1>2, Popped
<1>4. PICK n \in Nat : Len(us) = n /\ Len(frames) = n + 1
    BY <1>3 DEF Pops
<1>5. Seat(frames, n + 1)
    BY <1>4 DEF OnStack, Stacked, Built
<1>6. Topmost.kind = "closing" /\ Topmost.who = "self"
    BY <1>1, <1>2 DEF ClosingFrame
<1>7. n > 0 /\ frames[n].kind \in {"resume", "wrap"} /\ frames[n].on = t
    BY <1>4, <1>5, <1>6 DEF Seat, Topmost
<1>8. us[n] = frames[n] /\ us[n] \in Frame
    BY <1>3, <1>4, <1>7, ElementOfSeq DEF Pops
<1>9. PICK f : f = us[n]
    OBVIOUS
<1>10. f \in ResumeFrame /\ f.on = t
    BY <1>7, <1>8, <1>9, FrameIs
<1>11. us # <<>> /\ Last(Under) = f
    BY <1>2, <1>3, <1>4, <1>7, <1>9 DEF Last
<1>12. PICK q : q = [threads[t] EXCEPT !.status = "dead"]
    OBVIOUS
<1>13. q \in ThreadState
    BY <1>2, <1>12 DEF ThreadState
<1>14. UNCHANGED <<inLua, inPhp>> /\ ~threads[t].open
    BY <1>2 DEF SelfCloseEnds
<1>15. CASE threads[t].err = None
    <2>1. /\ frames' = Front(us) /\ threads' = [threads EXCEPT ![t] = q]
          /\ co' = [co EXCEPT !.depth = co.depth - 1] /\ running' = f.from /\ err' = None
        BY <1>1, <1>2, <1>3, <1>11, <1>12, <1>15 DEF SelfCloseEnds
    <2>2. ThreadSet(t, q)
        BY <1>2, <1>13, <2>1, SetIs
    <2>3. frames' \in Seq(Frame) /\ Pops(us, frames')
        BY <1>3, <1>11, <2>1, Popped
    <2>4. SelfOver(us, f, q)
        BY <1>1, <1>2, <1>3, <1>4, <1>6, <1>9, <1>10, <1>11, <1>12, <1>14, <1>15, <2>1, <2>2, <2>3
           DEF SelfOver
    <2> QED
        BY <2>4
<1>16. CASE threads[t].err # None
    <2>1. frames' = us /\ err' = threads[t].err /\ UNCHANGED <<threads, co, running>>
        BY <1>2, <1>3, <1>16 DEF SelfCloseEnds
    <2>2. SelfOver(us, f, q)
        BY <1>1, <1>2, <1>3, <1>4, <1>6, <1>9, <1>10, <1>11, <1>14, <1>16, <2>1 DEF SelfOver
    <2> QED
        BY <2>2
<1> QED
    BY <1>15, <1>16

LEMMA CollectIs ==
    ASSUME OnStack, Collect
    PROVE  \E t : Collected(t)
<1>1. PICK t \in Threads :
         /\ threads[t].status \in {"suspended", "failed", "dead"} /\ ~BeingClosed(t)
         /\ threads' = [threads EXCEPT ![t] = BlankThread]
         /\ co' = [co EXCEPT !.tracked = co.tracked \ {t}, !.left = co.left \ {t}]
    BY DEF Collect
<1>2. ~ClosedIn(frames, t)
    BY <1>1, ThreadsAre
<1>3. ThreadSet(t, BlankThread)
    BY <1>1, BlankIs, SetIs
<1>4. err = None /\ UNCHANGED <<frames, err, running, inLua, inPhp>>
    BY DEF Collect, Allocating
<1>5. Collected(t)
    BY <1>1, <1>2, <1>3, <1>4 DEF Collected
<1> QED
    BY <1>5

--------------------------------------------------------------------------------
(* The steps of the entries.                                                    *)

Entering(f) ==
    /\ DoesPush(f) /\ f \in CallFrame
    /\ f.phase = "run" /\ f.owed = None /\ f.result = None /\ (f.outer <=> inLua = 0)
    /\ Len(frames) = 0 \/ Topmost.kind \in {"callable", "backend"}
    /\ err = None /\ err' = None
    /\ threads' \in [Threads -> ThreadState] /\ KeepsErrors(threads, threads')
    /\ \A t \in Threads : /\ threads'[t].open = threads[t].open
                          /\ inLua # 0 => threads'[t].late = threads[t].late
    /\ inLua' = inLua + 1
    /\ UNCHANGED <<co, running, inPhp>>

\* A call's next phase.
Advancing(f) ==
    /\ DoesRetop(f) /\ Topmost \in CallFrame /\ f \in CallFrame
    /\ f.outer = Topmost.outer /\ f.owed = Topmost.owed /\ err' = None
    /\ UNCHANGED <<threads, running, inPhp>>

BodyOver(f) ==
    /\ Advancing(f) /\ Topmost.phase = "run" /\ f.result = err
    /\ f.phase = IF inLua # 1 THEN "sample" ELSE IF co.live = 0 THEN "files" ELSE "walk"
    /\ co' = IF f.phase = "walk"
             THEN [co EXCEPT !.sweeping = TRUE, !.left = co.tracked, !.tracked = {}]
             ELSE co
    /\ UNCHANGED inLua

WalkOver(f) ==
    /\ Advancing(f) /\ Topmost.phase = "walk" /\ f.phase = "files" /\ f.result = Topmost.result
    /\ co.left = {} /\ co' = [co EXCEPT !.sweeping = FALSE, !.live = 0, !.depth = 0]
    /\ UNCHANGED inLua

FilesOver(f) ==
    /\ Advancing(f) /\ Topmost.phase = "files" /\ f.phase = "sample"
    /\ f.result = Topmost.result
    /\ UNCHANGED <<co, inLua>>

Leaving(f) ==
    /\ Advancing(f) /\ Topmost.phase = "sample" /\ f.phase = "settle"
    /\ Topmost.result # None => f.result = Topmost.result
    /\ inLua' = inLua - 1
    /\ UNCHANGED co

Settled ==
    /\ DoesPop /\ Topmost \in CallFrame /\ Topmost.phase = "settle" /\ err' = None
    /\ UNCHANGED <<threads, co, running, inLua, inPhp>>

LEMMA EnterIs ==
    ASSUME OnStack, Enter
    PROVE  \E f : Entering(f)
<1>1. PICK close \in BOOLEAN : frames' = Append(frames, Entry(close))
    BY DEF Enter, Push
<1>2. PICK f : f = Entry(close)
    OBVIOUS
<1>3. /\ f \in CallFrame /\ f.phase = "run" /\ f.owed = None /\ f.result = None
      /\ f.outer <=> inLua = 0
    BY <1>2 DEF Entry, CallFrame
<1>4. DoesPush(f)
    BY <1>1, <1>2, <1>3, IsFrame, Pushed, ThreadsAre DEF DoesPush
<1>5. Len(frames) = 0 \/ (Topmost.kind \in {"callable", "backend"} /\ Len(frames) > 0)
    <2>1. frames \in Seq(Frame)
        BY ThreadsAre
    <2>2. TopKind \in {"none", "callable", "backend"}
        BY DEF Enter, HostOnTop
    <2> QED
        BY <2>1, <2>2, TopIs, FrameIs DEF Topmost
<1>6. err = None /\ err' = None
    BY <1>5 DEF OnStack, Stacked, Hushed, Topmost, Enter
<1>7. /\ threads' \in [Threads -> ThreadState]
      /\ \A t \in Threads : /\ threads'[t].open = threads[t].open
                            /\ threads'[t].status = threads[t].status
                            /\ threads'[t].err = threads[t].err
                            /\ inLua # 0 => threads'[t].late = threads[t].late
    <2>1. CASE inLua = 0
        <3>1. threads' = [t \in Threads |-> [threads[t] EXCEPT !.late = FALSE]]
            BY <2>1 DEF Enter
        <3>2. \A t \in Threads : threads[t] \in ThreadState
            BY ThreadsAre
        <3> QED
            BY <2>1, <3>1, <3>2 DEF ThreadState
    <2>2. CASE inLua # 0
        BY <2>2, ThreadsAre DEF Enter
    <2> QED
        BY <2>1, <2>2
<1>8. KeepsErrors(threads, threads')
    BY <1>7 DEF KeepsErrors
<1>9. inLua' = inLua + 1 /\ UNCHANGED <<co, running, inPhp>>
    BY DEF Enter
<1>10. Entering(f)
    BY <1>3, <1>4, <1>5, <1>6, <1>7, <1>8, <1>9 DEF Entering
<1> QED
    BY <1>10

LEMMA CallIs ==
    ASSUME OnStack, TopKind = "call"
    PROVE  /\ Topmost \in CallFrame /\ Top = Topmost /\ Under = Front(frames)
           /\ frames \in Seq(Frame) /\ frames # <<>>
           /\ err \in Errors \cup {None} /\ (Hushed(Topmost) => err = None)
<1>1. /\ frames \in Seq(Frame) /\ frames # <<>> /\ Top = Topmost /\ Topmost \in Frame
      /\ Under = Front(frames) /\ err \in Errors \cup {None} /\ TopKind = Topmost.kind
      /\ Hushed(Topmost) => err = None
    BY OnTop
<1> QED
    BY <1>1, FrameIs

LEMMA AdvancingIs ==
    ASSUME OnStack, TopKind = "call", NEW f, f \in CallFrame,
           f.outer = Topmost.outer, f.owed = Topmost.owed,
           frames' = Append(Front(frames), f), err' = None, UNCHANGED <<threads, running, inPhp>>
    PROVE  Advancing(f)
<1>1. Topmost \in CallFrame /\ frames \in Seq(Frame) /\ frames # <<>>
    BY CallIs
<1>2. f \in Frame
    BY IsFrame
<1>3. DoesRetop(f)
    BY <1>1, <1>2, Retopped DEF DoesRetop
<1> QED
    BY <1>1, <1>3 DEF Advancing

LEMMA BodyDoneIs ==
    ASSUME OnStack, BodyDone
    PROVE  \E f : BodyOver(f)
<1>1. TopKind = "call" /\ Top.phase = "run"
    BY DEF BodyDone, Is
<1>2. /\ Topmost \in CallFrame /\ Top = Topmost /\ Under = Front(frames)
      /\ err \in Errors \cup {None}
    BY <1>1, CallIs
<1>3. PICK p : /\ p \in {"sample", "files", "walk"}
               /\ p = IF inLua # 1 THEN "sample" ELSE IF co.live = 0 THEN "files" ELSE "walk"
    OBVIOUS
<1>4. PICK f : f = [Topmost EXCEPT !.phase = p, !.result = err]
    OBVIOUS
<1>5. /\ f \in CallFrame /\ f.outer = Topmost.outer /\ f.owed = Topmost.owed
      /\ f.phase = p /\ f.result = err
    BY <1>2, <1>3, <1>4 DEF CallFrame
<1>6. /\ frames' = Append(Front(frames), f) /\ err' = None
      /\ co' = IF p = "walk"
               THEN [co EXCEPT !.sweeping = TRUE, !.left = co.tracked, !.tracked = {}]
               ELSE co
      /\ UNCHANGED <<threads, running, inLua, inPhp>>
    BY <1>2, <1>3, <1>4 DEF BodyDone, Become
<1>7. Advancing(f)
    BY <1>1, <1>5, <1>6, AdvancingIs
<1>8. BodyOver(f)
    BY <1>1, <1>2, <1>3, <1>5, <1>6, <1>7 DEF BodyOver
<1> QED
    BY <1>8

\* A phase that leaves the result alone.
LEMMA PhaseIs ==
    ASSUME OnStack, TopKind = "call", NEW p, p \in {"run", "walk", "files", "sample", "settle"},
           frames' = Append(Under, [Top EXCEPT !.phase = p]), err' = None,
           UNCHANGED <<threads, running, inPhp>>
    PROVE  \E f : Advancing(f) /\ f.phase = p /\ f.result = Topmost.result
<1>1. Topmost \in CallFrame /\ Top = Topmost /\ Under = Front(frames)
    BY CallIs
<1>2. PICK f : f = [Topmost EXCEPT !.phase = p]
    OBVIOUS
<1>3. /\ f \in CallFrame /\ f.outer = Topmost.outer /\ f.owed = Topmost.owed
      /\ f.phase = p /\ f.result = Topmost.result
    BY <1>1, <1>2 DEF CallFrame
<1>4. frames' = Append(Front(frames), f)
    BY <1>1, <1>2
<1>5. Advancing(f)
    BY <1>3, <1>4, AdvancingIs
<1> QED
    BY <1>3, <1>5

LEMMA SweepEndsIs ==
    ASSUME OnStack, SweepEnds
    PROVE  \E f : WalkOver(f)
<1>1. TopKind = "call" /\ Top.phase = "walk"
    BY DEF SweepEnds, Is
<1>2. Top = Topmost
    BY <1>1, CallIs
<1>3. PICK f : Advancing(f) /\ f.phase = "files" /\ f.result = Topmost.result
    BY <1>1, PhaseIs DEF SweepEnds, Become
<1>4. WalkOver(f)
    BY <1>1, <1>2, <1>3 DEF WalkOver, SweepEnds
<1> QED
    BY <1>4

LEMMA FilesSweptIs ==
    ASSUME OnStack, FilesSwept
    PROVE  \E f : FilesOver(f)
<1>1. TopKind = "call" /\ Top.phase = "files"
    BY DEF FilesSwept, Is
<1>2. Top = Topmost /\ Topmost \in CallFrame /\ (Hushed(Topmost) => err = None)
    BY <1>1, CallIs
<1>3. err' = None
    BY <1>1, <1>2 DEF Hushed, FilesSwept, CallFrame
<1>4. PICK f : Advancing(f) /\ f.phase = "sample" /\ f.result = Topmost.result
    BY <1>1, <1>3, PhaseIs DEF FilesSwept, Become
<1>5. FilesOver(f)
    BY <1>1, <1>2, <1>4 DEF FilesOver, FilesSwept
<1> QED
    BY <1>5

LEMMA LeaveIs ==
    ASSUME OnStack, Leave
    PROVE  \E f : Leaving(f)
<1>1. TopKind = "call" /\ Top.phase = "sample"
    BY DEF Leave, Is
<1>2. /\ Top = Topmost /\ Topmost \in CallFrame /\ (Hushed(Topmost) => err = None)
      /\ Under = Front(frames)
    BY <1>1, CallIs
<1>3. err' = None
    BY <1>1, <1>2 DEF Hushed, Leave, CallFrame
<1>4. PICK r \in Errors \cup {None} :
        r = IF Topmost.result = None /\ flag THEN "fatal" ELSE Topmost.result
    BY <1>2 DEF CallFrame, Errors
<1>5. PICK f : f = [Topmost EXCEPT !.phase = "settle", !.result = r]
    OBVIOUS
<1>6. /\ f \in CallFrame /\ f.outer = Topmost.outer /\ f.owed = Topmost.owed
      /\ f.phase = "settle" /\ f.result = r
    BY <1>2, <1>5 DEF CallFrame
<1>9. frames' = Append(Front(frames), f) /\ UNCHANGED <<threads, running, inPhp>>
    BY <1>2, <1>4, <1>5 DEF Leave, Become, CallFrame
<1>7. Advancing(f)
    BY <1>1, <1>3, <1>6, <1>9, AdvancingIs
<1>8. Leaving(f)
    BY <1>1, <1>2, <1>4, <1>6, <1>7 DEF Leaving, Leave
<1> QED
    BY <1>8

LEMMA SettleIs ==
    ASSUME OnStack, Settle
    PROVE  Settled
<1>1. TopKind = "call" /\ Top.phase = "settle" /\ frames' = Under
    BY DEF Settle, Is
<1>2. Top = Topmost /\ Topmost \in CallFrame /\ frames \in Seq(Frame) /\ frames # <<>>
    BY <1>1, CallIs
<1>3. DoesPop
    BY <1>1, <1>2, PopIs
<1> QED
    BY <1>1, <1>2, <1>3 DEF Settled, Settle

--------------------------------------------------------------------------------
(* Every step is one of these.                                                  *)

StepKinds ==
    \/ Resting \/ Throwing \/ Popping \/ PopThrowing \/ Unwinding
    \/ HandlerBack \/ HandlerLost \/ Settled
    \/ \E f : \/ Pushing(f) \/ Skipping(f) \/ Making(f) \/ ClosePush(f) \/ Entering(f)
              \/ BodyOver(f) \/ WalkOver(f) \/ FilesOver(f) \/ Leaving(f)
    \/ \E f, h : Handling(f, h)
    \/ \E t : Collected(t)
    \/ \E q : Back(q) \/ Heard(q) \/ Over(q)
    \/ \E t, q : Created(t, q) \/ Started(t, q) \/ ScopeEnds(t, q) \/ WrapBroken(t, q)
    \/ \E us, f, q : SelfOver(us, f, q)

LEMMA StepIs ==
    ASSUME OnStack, Assumed, [CallsNext]_callsVars
    PROVE  StepKinds
<1>1. CASE UNCHANGED callsVars
    BY <1>1 DEF callsVars, StepKinds, Resting
<1>2. CASE \/ Enter \/ EnterRefused \/ Trip \/ Interrupted \/ Raise \/ Protect
           \/ ProtectedReturns \/ RunMessageHandler \/ RunCloseHandler
    BY <1>2, EnterIs, RestingIs, ThrowingIs, ProtectIs, ReturnsIs, RunMessageHandlerIs,
       RunCloseHandlerIs DEF StepKinds
<1>3. CASE \/ HandlerReturns \/ HandlerFails \/ Finish \/ CreateBegins \/ CreateCounts
           \/ CreateMakes \/ CreateFails \/ Resume
    BY <1>3, HandlerReturnsIs, HandlerFailsIs, UnwindingIs, CreateBeginsIs, CreateCountsIs,
       CreateMakesIs, ResumeIs DEF StepKinds
<1>4. CASE \/ Yield \/ BodyClosesScope \/ BodyReturns \/ ResumeFails \/ WrapFails
           \/ Close \/ SelfClose \/ ClosingRunsHandler \/ ClosingHears
    BY <1>4, BackIs, ScopeEndsIs, WrapFailsIs, CloseIs, SelfCloseIs, ClosingHearsIs DEF StepKinds
<1>5. CASE \/ CloseEnds \/ WrapEnds \/ SelfCloseEnds \/ Finalise \/ FinaliserReturns
           \/ FinaliserFails \/ Collect
    BY <1>5, OverIs, SelfCloseEndsIs, FinaliseIs, ReturnsIs, FinaliserFailsIs, CollectIs
       DEF StepKinds
<1>6. CASE \/ CallHost \/ HostThrows \/ HostCatches \/ CallableReturns \/ BodyDone
           \/ SweepNext \/ SweptOne \/ SweepEnds
    BY <1>6, CallHostIs, RestingIs, CallableReturnsIs, BodyDoneIs, SweepNextIs, OverIs,
       SweepEndsIs DEF StepKinds
<1>7. CASE SweepFile \/ BackendReturns \/ FilesSwept \/ Leave \/ Settle
    BY <1>7, SweepFileIs, ReturnsIs, FilesSweptIs, LeaveIs, SettleIs DEF StepKinds
<1> QED
    BY <1>1, <1>2, <1>3, <1>4, <1>5, <1>6, <1>7 DEF CallsNext

(* What the lemmas do not look at keeps its type.                               *)
LEMMA ScalarsTyped ==
    ASSUME OnStack, [CallsNext]_callsVars
    PROVE  /\ pending' \in {"runtime", "fatal", "foreign", "exit", None}
           /\ flag' \in BOOLEAN /\ moves' \in Nat
<1>1. /\ pending \in {"runtime", "fatal", "foreign", "exit", None}
      /\ flag \in BOOLEAN /\ moves \in Nat
    BY DEF OnStack, CallsTypeOK
<1>2. CASE UNCHANGED callsVars
    BY <1>1, <1>2 DEF callsVars
<1>3. CASE \/ Interrupted \/ ProtectedReturns \/ RunMessageHandler
           \/ RunCloseHandler \/ HandlerReturns \/ HandlerFails \/ Finish
           \/ CreateCounts \/ CreateMakes \/ CreateFails \/ BodyClosesScope
           \/ BodyReturns \/ ResumeFails \/ WrapFails \/ ClosingRunsHandler
           \/ ClosingHears \/ CloseEnds \/ WrapEnds \/ SelfCloseEnds
           \/ FinaliserReturns \/ FinaliserFails \/ BodyDone \/ SweepNext
           \/ SweptOne \/ SweepEnds \/ FilesSwept
    <2>1. Interrupted => UNCHANGED <<pending, flag, moves>>
        BY DEF Interrupted
    <2>2. ProtectedReturns => UNCHANGED <<pending, flag, moves>>
        BY DEF ProtectedReturns
    <2>3. RunMessageHandler => UNCHANGED <<pending, flag, moves>>
        BY DEF RunMessageHandler
    <2>4. RunCloseHandler => UNCHANGED <<pending, flag, moves>>
        BY DEF RunCloseHandler
    <2>5. HandlerReturns => UNCHANGED <<pending, flag, moves>>
        BY DEF HandlerReturns
    <2>6. HandlerFails => UNCHANGED <<pending, flag, moves>>
        BY DEF HandlerFails
    <2>7. Finish => UNCHANGED <<pending, flag, moves>>
        BY DEF Finish
    <2>8. CreateCounts => UNCHANGED <<pending, flag, moves>>
        BY DEF CreateCounts
    <2>9. CreateMakes => UNCHANGED <<pending, flag, moves>>
        BY DEF CreateMakes
    <2>10. CreateFails => UNCHANGED <<pending, flag, moves>>
        BY DEF CreateFails
    <2>11. BodyClosesScope => UNCHANGED <<pending, flag, moves>>
        BY DEF BodyClosesScope
    <2>12. BodyReturns => UNCHANGED <<pending, flag, moves>>
        BY DEF BodyReturns, BackFromResume
    <2>13. ResumeFails => UNCHANGED <<pending, flag, moves>>
        BY DEF ResumeFails, BackFromResume
    <2>14. WrapFails => UNCHANGED <<pending, flag, moves>>
        BY DEF WrapFails, BackFromResume
    <2>15. ClosingRunsHandler => UNCHANGED <<pending, flag, moves>>
        BY DEF ClosingRunsHandler
    <2>16. ClosingHears => UNCHANGED <<pending, flag, moves>>
        BY DEF ClosingHears
    <2>17. CloseEnds => UNCHANGED <<pending, flag, moves>>
        BY DEF CloseEnds
    <2>18. WrapEnds => UNCHANGED <<pending, flag, moves>>
        BY DEF WrapEnds
    <2>19. SelfCloseEnds => UNCHANGED <<pending, flag, moves>>
        BY DEF SelfCloseEnds
    <2>20. FinaliserReturns => UNCHANGED <<pending, flag, moves>>
        BY DEF FinaliserReturns
    <2>21. FinaliserFails => UNCHANGED <<pending, flag, moves>>
        BY DEF FinaliserFails
    <2>22. BodyDone => UNCHANGED <<pending, flag, moves>>
        BY DEF BodyDone
    <2>23. SweepNext => UNCHANGED <<pending, flag, moves>>
        BY DEF SweepNext
    <2>24. SweptOne => UNCHANGED <<pending, flag, moves>>
        BY DEF SweptOne
    <2>25. SweepEnds => UNCHANGED <<pending, flag, moves>>
        BY DEF SweepEnds
    <2>26. FilesSwept => UNCHANGED <<pending, flag, moves>>
        BY DEF FilesSwept
    <2> QED
        BY <1>1, <1>3, <2>1, <2>2, <2>3, <2>4, <2>5, <2>6, <2>7, <2>8, <2>9, <2>10, <2>11, <2>12, <2>13, <2>14, <2>15, <2>16, <2>17, <2>18, <2>19, <2>20, <2>21, <2>22, <2>23, <2>24, <2>25, <2>26
<1>4. CASE \/ Enter \/ EnterRefused \/ Trip \/ Raise \/ Protect \/ CreateBegins
           \/ Resume \/ Yield \/ Close \/ SelfClose \/ Finalise \/ Collect
           \/ CallHost \/ HostThrows \/ HostCatches \/ CallableReturns
           \/ SweepFile \/ BackendReturns
    <2>1. CASE Enter
        BY <1>1, <2>1 DEF Enter, Move, Room
    <2>2. CASE EnterRefused
        BY <1>1, <2>2 DEF EnterRefused, Move
    <2>3. CASE Trip
        BY <1>1, <2>3 DEF Trip, Move
    <2>4. CASE Raise
        BY <1>1, <2>4 DEF Raise, Move
    <2>5. CASE Protect
        BY <1>1, <2>5 DEF Protect, Move, Room
    <2>6. CASE CreateBegins
        BY <1>1, <2>6 DEF CreateBegins, Move, Room
    <2>7. CASE Resume
        BY <1>1, <2>7 DEF Resume, Move, Room
    <2>8. CASE Yield
        BY <1>1, <2>8 DEF Yield, Move, BackFromResume
    <2>9. CASE Close
        BY <1>1, <2>9 DEF Close, Move, Room
    <2>10. CASE SelfClose
        BY <1>1, <2>10 DEF SelfClose, Move, Room
    <2>11. CASE Finalise
        BY <1>1, <2>11 DEF Finalise, Move, Room
    <2>12. CASE Collect
        BY <1>1, <2>12 DEF Collect, Move
    <2>13. CASE CallHost
        BY <1>1, <2>13 DEF CallHost, Move, Room
    <2>14. CASE HostThrows
        BY <1>1, <2>14 DEF HostThrows, Move
    <2>15. CASE HostCatches
        BY <1>1, <2>15 DEF HostCatches, Move
    <2>16. CASE CallableReturns
        BY <1>1, <2>16 DEF CallableReturns, Move
    <2>17. CASE SweepFile
        BY <1>1, <2>17 DEF SweepFile, Move, Room
    <2>18. CASE BackendReturns
        BY <1>1, <2>18 DEF BackendReturns, Move
    <2> QED
        BY <1>4, <2>1, <2>2, <2>3, <2>4, <2>5, <2>6, <2>7, <2>8, <2>9, <2>10, <2>11, <2>12, <2>13, <2>14, <2>15, <2>16, <2>17, <2>18
<1>5. CASE Leave
    BY <1>1, <1>5 DEF Leave
<1>9. CASE Settle
    <2>1. TopKind = "call"
        BY <1>9 DEF Settle, Is
    <2>2. Top \in CallFrame
        BY <2>1, CallIs
    <2>3. Top.result = None \/ Top.result \in Errors
        BY <2>2 DEF CallFrame
    <2>4. Top.result # None => ThrownFor(Top.result) \in {"runtime", "fatal", "foreign", "exit"}
        BY <2>3, ThrownType
    <2>5. pending' \in {pending, "fatal"} \/ (Top.result # None /\ pending' = ThrownFor(Top.result))
        BY <1>9 DEF Settle
    <2> QED
        BY <1>1, <1>9, <2>4, <2>5 DEF Settle
<1> QED
    BY <1>2, <1>3, <1>4, <1>5, <1>9 DEF CallsNext

--------------------------------------------------------------------------------
(* The stack stays as it should be, step by step.                               *)

NextTables == threads' \in [Threads -> ThreadState] /\ CoTyped(co')
NextStack  == Stacked(frames', err', running', inLua', inPhp', co'.depth)

LEMMA HostSeat ==
    ASSUME NEW fs \in Seq(Frame), NEW gs \in Seq(Frame), NEW f, Pushes(fs, gs, f),
           f.kind \in {"callable", "backend"}, OpenCalls(fs) # {},
           MayHush(f) \/ ~Hushed(fs[Len(fs)])
    PROVE  Seat(gs, Len(gs))
<1>1. PICK j \in 1 .. Len(fs) : fs[j].kind = "call" /\ fs[j].phase # "settle"
    BY DEF OpenCalls
<1>2. PICK n \in Nat : Len(fs) = n /\ Len(gs) = n + 1
    BY DEF Pushes
<1>3. n > 0 /\ j \in 1 .. n
    BY <1>1, <1>2
<1>4. gs[n + 1] = f /\ gs[n] = fs[n] /\ gs[j] = fs[j] /\ j \in 1 .. n + 1 - 1
    BY <1>2, <1>3 DEF Pushes
<1>5. n + 1 > 1 /\ ~MayHush(gs[n + 1]) => ~Hushed(gs[n + 1 - 1])
    BY <1>2, <1>3, <1>4
<1>6. Seat(gs, n + 1)
    BY <1>1, <1>3, <1>4, <1>5 DEF Seat
<1> QED
    BY <1>2, <1>6

LEMMA CallSeat ==
    ASSUME NEW fs \in Seq(Frame), NEW gs \in Seq(Frame), NEW f, Pushes(fs, gs, f),
           f.kind = "call", f.phase = "run", f.outer <=> Len(fs) = 0,
           Len(fs) > 0 => fs[Len(fs)].kind \in {"callable", "backend"}
    PROVE  Seat(gs, Len(gs))
<1>1. PICK n \in Nat : Len(fs) = n /\ Len(gs) = n + 1
    BY DEF Pushes
<1>2. gs[n + 1] = f /\ (n > 0 => gs[n + 1 - 1] = fs[n])
    BY <1>1 DEF Pushes
<1>3. MayHush(f)
    BY DEF MayHush
<1>4. Seat(gs, n + 1)
    BY <1>1, <1>2, <1>3 DEF Seat
<1> QED
    BY <1>1, <1>4

LEMMA ClosingSeat ==
    ASSUME NEW fs \in Seq(Frame), NEW gs \in Seq(Frame), NEW f, Pushes(fs, gs, f),
           f.kind = "closing", Len(fs) > 0,
           \/ f.who = "close" /\ ~Hushed(fs[Len(fs)])
           \/ f.who = "self" /\ ~Hushed(fs[Len(fs)]) /\ fs[Len(fs)].kind \in {"resume", "wrap"}
              /\ fs[Len(fs)].on = f.on
           \/ f.who = "sweep" /\ Len(fs) = 1 /\ fs[1].kind = "call" /\ fs[1].phase = "walk"
    PROVE  Seat(gs, Len(gs))
<1>1. PICK n \in Nat : Len(fs) = n /\ Len(gs) = n + 1 /\ n > 0
    BY DEF Pushes
<1>2. gs[n + 1] = f /\ gs[n + 1 - 1] = fs[n] /\ gs[1] = fs[1]
    BY <1>1 DEF Pushes
<1>3. f.who = "sweep" => MayHush(f)
    BY DEF MayHush
<1>4. n + 1 > 1 /\ ~MayHush(gs[n + 1]) => ~Hushed(gs[n + 1 - 1])
    BY <1>1, <1>2, <1>3
<1>5. Seat(gs, n + 1)
    BY <1>1, <1>2, <1>4 DEF Seat
<1> QED
    BY <1>1, <1>5

LEMMA RetopSeat ==
    ASSUME NEW fs \in Seq(Frame), NEW gs \in Seq(Frame), NEW f, Retops(fs, gs, f), Built(fs),
           NEW g, g = fs[Len(fs)], g.kind \notin {"callable", "backend", "closing"},
           f.kind \notin {"callable", "backend"}, f.kind = "closing" => f.who = "wrap",
           f.kind = "call" <=> g.kind = "call",
           f.kind = "call" => /\ f.outer = g.outer
                              /\ f.phase \in {"walk", "files"} => Len(fs) = 1
    PROVE  Seat(gs, Len(fs))
<1>1. PICK n \in Nat : Len(fs) = n /\ Len(gs) = n /\ n > 0
    BY DEF Retops
<1>2. gs[n] = f /\ (n > 1 => gs[n - 1] = fs[n - 1])
    BY <1>1 DEF Retops
<1>3. Seat(fs, n)
    BY <1>1 DEF Built
<1>4. MayHush(f) <=> MayHush(g)
    BY DEF MayHush
<1>5. n > 1 /\ ~MayHush(gs[n]) => ~Hushed(gs[n - 1])
    BY <1>1, <1>2, <1>3, <1>4 DEF Seat
<1>6. Seat(gs, n)
    BY <1>1, <1>2, <1>3, <1>5 DEF Seat
<1> QED
    BY <1>1, <1>6

LEMMA StackIs ==
    ASSUME OnStack
    PROVE  /\ Stacked(frames, err, running, inLua, inPhp, co.depth)
           /\ Built(frames) /\ Chained(frames, running) /\ Counted(frames, inLua, inPhp, co.depth)
           /\ frames \in Seq(Frame) /\ Len(frames) \in Nat /\ err \in Errors \cup {None}
           /\ threads \in [Threads -> ThreadState] /\ CoTyped(co)
           /\ inLua \in Nat /\ inPhp \in Nat /\ co.depth \in Nat
BY ThreadsAre DEF OnStack, Stacked, CallsTypeOK

LEMMA ThrowingStacked ==
    ASSUME OnStack, Throwing
    PROVE  NextStack /\ NextTables
<1>1. Stacked(frames, err, running, inLua, inPhp, co.depth) /\ frames \in Seq(Frame)
    BY StackIs
<1>2. Len(frames) > 0 /\ ~Hushed(frames[Len(frames)])
    BY <1>1, LuaTop DEF Throwing
<1>3. err' \in Errors /\ frames' \in Seq(Frame) /\ Likes(frames, frames')
    BY <1>1, OwingIs DEF Throwing
<1>4. Stacked(frames', err', running, inLua, inPhp, co.depth)
    BY <1>1, <1>2, <1>3, StackedLike
<1> QED
    BY <1>4, StackIs DEF Throwing, NextStack, NextTables

LEMMA PushingStacked ==
    ASSUME OnStack, NEW f, Pushing(f)
    PROVE  NextStack /\ NextTables
<1>1. /\ Stacked(frames, err, running, inLua, inPhp, co.depth) /\ frames \in Seq(Frame)
      /\ Built(frames) /\ Len(frames) \in Nat /\ inLua \in Nat /\ inPhp \in Nat /\ co.depth \in Nat
      /\ Counted(frames, inLua, inPhp, co.depth)
    BY StackIs
<1>2. f \in Frame /\ frames' \in Seq(Frame) /\ Pushes(frames, frames', f)
    BY DEF Pushing, DoesPush
<1>3. MayPush(f) /\ err' = None
    BY DEF Pushing
<1>4. f.kind \in {"pcall", "xpcall", "create", "callable", "gc", "backend"}
    BY <1>3 DEF MayPush
<1>5. LuaOnTop => /\ Len(frames) > 0 /\ ~Hushed(frames[Len(frames)])
                  /\ frames[Len(frames)].kind \notin {"closing", "create"}
    BY <1>1, LuaTop
<1>6. f.kind = "gc" => /\ Len(frames) > 0 /\ ~Hushed(frames[Len(frames)])
                       /\ frames[Len(frames)].kind # "closing"
    <2>1. CASE LuaOnTop
        BY <1>5, <2>1
    <2>2. CASE Allocating /\ ~LuaOnTop
        <3>1. TopKind \in {"create", "call"} /\ (TopKind = "call" => Top.phase = "settle")
            BY <2>2 DEF Allocating, Is
        <3> QED
            BY <1>1, <3>1, TopIs DEF Hushed
    <2> QED
        BY <1>3, <2>1, <2>2 DEF MayPush
<1>7. f.kind = "backend" => /\ Len(frames) > 0 /\ frames[Len(frames)].kind = "call"
                            /\ frames[Len(frames)].phase = "files"
    BY <1>3 DEF MayPush, Topmost
<1>8. f.kind = "callable" => OpenCalls(frames) # {}
    <2>1. inLua = Cardinality(OpenCalls(frames))
        BY <1>1 DEF Counted
    <2> QED
        BY <1>3, <2>1, FS_EmptySet DEF MayPush
<1>9. f.kind = "backend" => OpenCalls(frames) # {}
    BY <1>1, <1>7 DEF OpenCalls
<1>10. Seat(frames', Len(frames'))
    <2>1. CASE f.kind \in {"callable", "backend"}
        <3>1. MayHush(f) \/ ~Hushed(frames[Len(frames)])
            BY <1>3, <1>5, <2>1 DEF MayHush, MayPush
        <3> QED
            BY <1>1, <1>2, <1>8, <1>9, <2>1, <3>1, HostSeat
    <2>2. CASE f.kind \notin {"callable", "backend"}
        <3>1. Len(frames) > 0 /\ ~Hushed(frames[Len(frames)])
            BY <1>3, <1>4, <1>5, <1>6, <2>2 DEF MayPush
        <3>2. Seat(frames', Len(frames) + 1)
            BY <1>1, <1>2, <1>4, <2>2, <3>1, PlainSeat
        <3> QED
            BY <1>2, <3>2 DEF Pushes
    <2> QED
        BY <2>1, <2>2
<1>11. Len(frames) > 0 /\ frames[Len(frames)].kind = "closing" => f.kind = "handler"
    BY <1>3, <1>4, <1>5, <1>6, <1>7 DEF MayPush
<1>12. Len(frames) > 0 /\ frames[Len(frames)].kind = "create" => f.kind = "gc"
    BY <1>3, <1>4, <1>5, <1>7 DEF MayPush
<1>13. f.kind \notin InnerKinds /\ f.kind # "call"
    BY <1>4 DEF InnerKinds
<1>14. err' \in Errors \cup {None}
    BY <1>3
<1>15. Stacked(frames', err', Entered(frames', running), inLua + LuaOf(f), inPhp + PhpOf(f),
               co.depth + DepthOf(f))
    BY <1>1, <1>2, <1>3, <1>10, <1>11, <1>12, <1>13, <1>14, StackedPush
<1>16. Entered(frames', running) = running
    BY <1>2, <1>13 DEF Entered, Pushes
<1>17. LuaOf(f) = 0 /\ DepthOf(f) = 0
    BY <1>4 DEF LuaOf, DepthOf
<1>18. inLua + 0 = inLua /\ co.depth + 0 = co.depth
    BY <1>1
<1>19. Stacked(frames', err', running, inLua, inPhp + PhpOf(f), co.depth)
    BY <1>15, <1>16, <1>17, <1>18
<1> QED
    BY <1>19, StackIs DEF Pushing, NextStack, NextTables

\* What is below a frame that stands on no hushed one.
LEMMA BelowTop ==
    ASSUME NEW fs \in Seq(Frame), Built(fs), NEW gs \in Seq(Frame), Pops(fs, gs),
           ~MayHush(fs[Len(fs)])
    PROVE  Len(gs) > 0 /\ ~Hushed(gs[Len(gs)])
<1>1. PICK n \in Nat : Len(gs) = n /\ Len(fs) = n + 1
    BY DEF Pops
<1>2. Seat(fs, n + 1)
    BY <1>1 DEF Built
<1>3. n > 0
    BY <1>1, <1>2 DEF Seat, MayHush
<1>4. gs[n] = fs[n]
    BY <1>1, <1>3 DEF Pops
<1>5. n + 1 > 1 /\ ~MayHush(fs[n + 1]) => ~Hushed(fs[n + 1 - 1])
    BY <1>2 DEF Seat
<1> QED
    BY <1>1, <1>3, <1>4, <1>5

LEMMA PlainPop ==
    ASSUME OnStack, NEW gs \in Seq(Frame), Pops(frames, gs),
           Topmost.kind \notin InnerKinds \cup {"call"},
           NEW d \in Errors \cup {None}, d = None \/ Topmost.kind # "backend"
    PROVE  /\ Stacked(gs, d, running, inLua, inPhp - PhpOf(Topmost), co.depth)
           /\ Topmost.kind # "backend" => Len(gs) > 0 /\ ~Hushed(gs[Len(gs)])
<1>1. /\ Stacked(frames, err, running, inLua, inPhp, co.depth) /\ frames \in Seq(Frame)
      /\ Built(frames) /\ inLua \in Nat /\ co.depth \in Nat
    BY StackIs
<1>2. PICK f : f = Topmost
    OBVIOUS
<1>3. f = frames[Len(frames)] /\ Left(frames, running) = running /\ LuaOf(f) = 0 /\ DepthOf(f) = 0
    BY <1>2 DEF Topmost, Left, LuaOf, DepthOf, InnerKinds
<1>4. inLua - 0 = inLua /\ co.depth - 0 = co.depth
    BY <1>1
<1>5. Stacked(gs, None, Left(frames, running), inLua - LuaOf(f), inPhp - PhpOf(f),
              co.depth - DepthOf(f))
    BY <1>1, <1>3, StackedDrop
<1>6. Stacked(gs, None, running, inLua, inPhp - PhpOf(f), co.depth)
    BY <1>3, <1>4, <1>5
<1>7. f.kind # "backend" => Len(gs) > 0 /\ ~Hushed(gs[Len(gs)])
    <2>1. f.kind # "backend" => ~MayHush(f)
        BY <1>2 DEF MayHush, InnerKinds
    <2> QED
        BY <1>1, <1>3, <2>1, BelowTop
<1>8. f.kind # "backend" => Stacked(gs, d, running, inLua, inPhp - PhpOf(f), co.depth)
    BY <1>6, <1>7 DEF Stacked
<1> QED
    BY <1>2, <1>6, <1>7, <1>8

LEMMA InnerPop ==
    ASSUME OnStack, NEW gs \in Seq(Frame), Pops(frames, gs), Topmost.kind \in InnerKinds,
           NEW d \in Errors \cup {None},
           d = None \/ ~(Topmost.kind = "closing" /\ Topmost.who = "sweep")
    PROVE  /\ Stacked(gs, d, Topmost.from, inLua, inPhp, co.depth - DepthOf(Topmost))
           /\ running = Topmost.on
           /\ ~(Topmost.kind = "closing" /\ Topmost.who = "sweep") =>
                Len(gs) > 0 /\ ~Hushed(gs[Len(gs)])
<1>1. /\ Stacked(frames, err, running, inLua, inPhp, co.depth) /\ frames \in Seq(Frame)
      /\ Built(frames) /\ inLua \in Nat /\ inPhp \in Nat
    BY StackIs
<1>2. PICK f : f = Topmost
    OBVIOUS
<1>3. f = frames[Len(frames)] /\ Left(frames, running) = f.from /\ LuaOf(f) = 0 /\ PhpOf(f) = 0
    BY <1>2 DEF Topmost, Left, LuaOf, PhpOf, InnerKinds
<1>4. inLua - 0 = inLua /\ inPhp - 0 = inPhp
    BY <1>1
<1>5. /\ Stacked(gs, None, Left(frames, running), inLua - LuaOf(f), inPhp - PhpOf(f),
                 co.depth - DepthOf(f))
      /\ f.kind \in InnerKinds => running = f.on
    BY <1>1, <1>3, StackedDrop
<1>6. Stacked(gs, None, f.from, inLua, inPhp, co.depth - DepthOf(f)) /\ running = f.on
    BY <1>2, <1>3, <1>4, <1>5
<1>7. ~(f.kind = "closing" /\ f.who = "sweep") => Len(gs) > 0 /\ ~Hushed(gs[Len(gs)])
    <2>1. ~(f.kind = "closing" /\ f.who = "sweep") => ~MayHush(f)
        BY <1>2 DEF MayHush, InnerKinds
    <2> QED
        BY <1>1, <1>3, <2>1, BelowTop
<1>8. ~(f.kind = "closing" /\ f.who = "sweep") =>
        Stacked(gs, d, f.from, inLua, inPhp, co.depth - DepthOf(f))
    BY <1>6, <1>7 DEF Stacked
<1> QED
    BY <1>2, <1>6, <1>7, <1>8

LEMMA PoppingStacked ==
    ASSUME OnStack, Popping
    PROVE  NextStack /\ NextTables
<1>1. frames' \in Seq(Frame) /\ Pops(frames, frames') /\ err' = None
      /\ Topmost.kind \notin InnerKinds \cup {"call"}
    BY DEF Popping, DoesPop, InnerKinds
<1>2. None \in Errors \cup {None}
    OBVIOUS
<1>3. Stacked(frames', None, running, inLua, inPhp - PhpOf(Topmost), co.depth)
    BY <1>1, <1>2, PlainPop
<1> QED
    BY <1>1, <1>3, StackIs DEF Popping, NextStack, NextTables

LEMMA PopThrowingStacked ==
    ASSUME OnStack, PopThrowing
    PROVE  NextStack /\ NextTables
<1>1. PICK us \in Seq(Frame) : us = Front(frames) /\ Pops(frames, us)
    BY StackIs, Popped DEF PopThrowing
<1>2. /\ Topmost.kind \notin InnerKinds \cup {"call"} /\ Topmost.kind # "backend"
      /\ err' \in Errors \cup {None} /\ err' \in Errors
    BY DEF PopThrowing, InnerKinds
<1>3. PICK d \in Errors : d = err'
    BY <1>2
<1>4. /\ Stacked(us, d, running, inLua, inPhp - PhpOf(Topmost), co.depth)
      /\ Len(us) > 0 /\ ~Hushed(us[Len(us)])
    BY <1>1, <1>2, <1>3, PlainPop
<1>5. frames' \in Seq(Frame) /\ Likes(us, frames')
    BY <1>1, <1>2, OwingIs DEF PopThrowing
<1>6. Stacked(frames', d, running, inLua, inPhp - PhpOf(Topmost), co.depth)
    BY <1>3, <1>4, <1>5, StackedLike
<1>7. co'.depth = co.depth /\ CoTyped(co')
    <2>1. Count(FALSE) \in Nat
        <3>1. {t \in co.tracked : FALSE => Alive(t)} \subseteq Threads
            BY StackIs DEF CoTyped
        <3> QED
            BY <3>1, CallsAssumption, FS_Subset, FS_CardinalityType DEF Count
    <2> QED
        BY <2>1, StackIs DEF PopThrowing, CoTyped
<1> QED
    BY <1>3, <1>6, <1>7, StackIs DEF PopThrowing, NextStack, NextTables

LEMMA UnwindingStacked ==
    ASSUME OnStack, Unwinding
    PROVE  NextStack /\ NextTables
<1>1. frames' \in Seq(Frame) /\ Pops(frames, frames') /\ PhpOf(Topmost) = 0
      /\ Topmost.kind \notin InnerKinds \cup {"call"} /\ Topmost.kind # "backend"
    BY DEF Unwinding, DoesPop, InnerKinds, PhpOf
<1>2. err' \in Errors \cup {None}
    BY StackIs, ThrownType DEF Unwinding
<1>3. Stacked(frames', err', running, inLua, inPhp - PhpOf(Topmost), co.depth)
    BY <1>1, <1>2, PlainPop
<1>4. inPhp - PhpOf(Topmost) = inPhp
    BY <1>1, StackIs
<1> QED
    BY <1>3, <1>4, StackIs DEF Unwinding, NextStack, NextTables

LEMMA HandlerBackStacked ==
    ASSUME OnStack, HandlerBack
    PROVE  NextStack /\ NextTables
<1>1. frames' \in Seq(Frame) /\ Pops(frames, frames') /\ PhpOf(Topmost) = 0
      /\ Topmost.kind \notin InnerKinds \cup {"call"} /\ Topmost.kind # "backend"
    BY DEF HandlerBack, DoesPop, InnerKinds, PhpOf
<1>2. err' \in Errors \cup {None}
    <2>1. Len(frames) > 0 /\ Topmost \in Frame
        BY <1>1, StackIs, ElementOfSeq DEF Pops, Topmost
    <2>2. Topmost \in HandlerFrame
        BY <2>1, FrameIs DEF HandlerBack
    <2> QED
        BY <2>2 DEF HandlerFrame, HandlerBack
<1>3. Stacked(frames', err', running, inLua, inPhp - PhpOf(Topmost), co.depth)
    BY <1>1, <1>2, PlainPop
<1>4. inPhp - PhpOf(Topmost) = inPhp
    BY <1>1, StackIs
<1> QED
    BY <1>3, <1>4, StackIs DEF HandlerBack, NextStack, NextTables

LEMMA HandlerLostStacked ==
    ASSUME OnStack, HandlerLost
    PROVE  NextStack /\ NextTables
<1>1. PICK us \in Seq(Frame) : us = Front(frames) /\ Pops(frames, us)
    BY StackIs, Popped DEF HandlerLost
<1>2. /\ Topmost.kind \notin InnerKinds \cup {"call"} /\ Topmost.kind # "backend"
      /\ PhpOf(Topmost) = 0 /\ err \in Errors \cup {None}
    BY StackIs DEF HandlerLost, InnerKinds, PhpOf
<1>3. /\ Stacked(us, err, running, inLua, inPhp - PhpOf(Topmost), co.depth)
      /\ Len(us) > 0 /\ ~Hushed(us[Len(us)])
    BY <1>1, <1>2, PlainPop
<1>4. PICK over : over = Topmost.over
    OBVIOUS
<1>5. frames' = Forgiving(us, over, err)
    BY <1>1, <1>4 DEF HandlerLost
<1>6. frames' \in Seq(Frame) /\ Likes(us, frames')
    BY <1>5, ForgivingIs
<1>7. Stacked(frames', err, running, inLua, inPhp - PhpOf(Topmost), co.depth)
    BY <1>2, <1>3, <1>6, StackedLike
<1>8. inPhp - PhpOf(Topmost) = inPhp
    BY <1>2, StackIs
<1> QED
    BY <1>7, <1>8, StackIs DEF HandlerLost, NextStack, NextTables

(* The top of the stack in a new state.                                         *)
LEMMA PlainRetop ==
    ASSUME OnStack, frames # <<>>, NEW f, f \in Frame, NEW gs, gs = Append(Front(frames), f),
           NEW d, d \in Errors \cup {None}, Hushed(f) => d = None,
           Topmost.kind \notin {"handler", "gc", "closing", "callable", "backend"},
           \/ f.kind = Topmost.kind /\ Topmost.kind \in {"pcall", "xpcall", "create"}
           \/ /\ f.kind = "call" /\ Topmost.kind = "call" /\ f.outer = Topmost.outer
              /\ f.phase \in {"walk", "files"} => Len(frames) = 1
    PROVE  /\ gs \in Seq(Frame) /\ Retops(frames, gs, f)
           /\ Stacked(gs, d, running, inLua - LuaOf(Topmost) + LuaOf(f), inPhp, co.depth)
<1>1. /\ Stacked(frames, err, running, inLua, inPhp, co.depth) /\ frames \in Seq(Frame)
      /\ Built(frames) /\ inPhp \in Nat /\ co.depth \in Nat
    BY StackIs
<1>2. gs \in Seq(Frame) /\ Retops(frames, gs, f)
    BY <1>1, Retopped
<1>3. PICK g : g = frames[Len(frames)]
    OBVIOUS
<1>4. g = Topmost
    BY <1>3 DEF Topmost
<1>5. Seat(gs, Len(frames))
    BY <1>1, <1>2, <1>3, <1>4, RetopSeat
<1>6. /\ f.kind \in InnerKinds <=> g.kind \in InnerKinds
      /\ f.kind \in InnerKinds => f.from = g.from /\ f.on = g.on
      /\ PhpOf(g) = 0 /\ PhpOf(f) = 0 /\ DepthOf(g) = 0 /\ DepthOf(f) = 0
    BY <1>4 DEF InnerKinds, PhpOf, DepthOf
<1>7. Stacked(gs, d, running, inLua - LuaOf(g) + LuaOf(f), inPhp - PhpOf(g) + PhpOf(f),
              co.depth - DepthOf(g) + DepthOf(f))
    BY <1>1, <1>3, <1>4, <1>5, <1>6, StackedRetop
<1>8. inPhp - 0 + 0 = inPhp /\ co.depth - 0 + 0 = co.depth
    BY <1>1
<1> QED
    BY <1>2, <1>4, <1>6, <1>7, <1>8

LEMMA SkippingStacked ==
    ASSUME OnStack, NEW f, Skipping(f)
    PROVE  NextStack /\ NextTables
<1>1. frames # <<>> /\ f \in Frame /\ frames' = Append(Front(frames), f)
    BY DEF Skipping, DoesRetop
<1>2. Topmost.kind = "xpcall" /\ f.kind = "xpcall" /\ ~Hushed(f) /\ LuaOf(Topmost) = 0 /\ LuaOf(f) = 0
    BY DEF Skipping, Hushed, LuaOf
<1>3. Stacked(frames', err, running, inLua - LuaOf(Topmost) + LuaOf(f), inPhp, co.depth)
    BY <1>1, <1>2, StackIs, PlainRetop
<1>4. inLua - 0 + 0 = inLua
    BY StackIs
<1> QED
    BY <1>2, <1>3, <1>4, StackIs DEF Skipping, NextStack, NextTables

LEMMA MakingStacked ==
    ASSUME OnStack, NEW f, Making(f)
    PROVE  NextStack /\ NextTables
<1>1. frames # <<>> /\ f \in Frame /\ frames' = Append(Front(frames), f)
    BY DEF Making, DoesRetop
<1>2. /\ Topmost.kind = "create" /\ f.kind = "create" /\ LuaOf(Topmost) = 0 /\ LuaOf(f) = 0
      /\ ~Hushed(f)
    BY DEF Making, LuaOf, Hushed
<1>3. None \in Errors \cup {None}
    OBVIOUS
<1>4. Stacked(frames', None, running, inLua - LuaOf(Topmost) + LuaOf(f), inPhp, co.depth)
    BY <1>1, <1>2, <1>3, PlainRetop
<1>5. inLua - 0 + 0 = inLua
    BY StackIs
<1>6. Stacked(frames', None, running, inLua, inPhp, co.depth)
    BY <1>2, <1>4, <1>5
<1>7. co'.depth = co.depth /\ CoTyped(co')
    <2>1. Count(FALSE) \in Nat
        <3>1. {t \in co.tracked : FALSE => Alive(t)} \subseteq Threads
            BY StackIs DEF CoTyped
        <3> QED
            BY <3>1, CallsAssumption, FS_Subset, FS_CardinalityType DEF Count
    <2> QED
        BY <2>1, StackIs DEF Making, CoTyped
<1> QED
    BY <1>6, <1>7, StackIs DEF Making, NextStack, NextTables

\* A handler on top of a frame that runs Lua or closes.
LEMMA HandlerOn ==
    ASSUME NEW fs \in Seq(Frame), NEW e, NEW run, NEW lua, NEW php, NEW depth,
           Stacked(fs, e, run, lua, php, depth), lua \in Nat, php \in Nat, depth \in Nat,
           Len(fs) > 0, ~Hushed(fs[Len(fs)]), fs[Len(fs)].kind # "create",
           NEW h \in Frame, h.kind = "handler", NEW gs \in Seq(Frame), Pushes(fs, gs, h)
    PROVE  Stacked(gs, None, run, lua, php, depth)
<1>1. h.kind \notin InnerKinds /\ LuaOf(h) = 0 /\ PhpOf(h) = 0 /\ DepthOf(h) = 0
    BY DEF InnerKinds, LuaOf, PhpOf, DepthOf
<1>2. Seat(gs, Len(fs) + 1)
    BY PlainSeat
<1>3. Len(gs) = Len(fs) + 1 /\ gs[Len(gs)] = h
    BY DEF Pushes
<1>4. None \in Errors \cup {None} /\ Seat(gs, Len(gs))
    BY <1>2, <1>3
<1>5. Stacked(gs, None, Entered(gs, run), lua + LuaOf(h), php + PhpOf(h), depth + DepthOf(h))
    BY <1>1, <1>4, StackedPush
<1>6. Entered(gs, run) = run /\ lua + 0 = lua /\ php + 0 = php /\ depth + 0 = depth
    BY <1>1, <1>3 DEF Entered
<1> QED
    BY <1>1, <1>5, <1>6

LEMMA HandlingStacked ==
    ASSUME OnStack, NEW f, NEW h, Handling(f, h)
    PROVE  NextStack /\ NextTables
<1>1. /\ frames # <<>> /\ f \in Frame /\ h \in Frame /\ h.kind = "handler"
      /\ SameBut(Topmost, f) /\ Topmost.kind \in {"pcall", "xpcall", "call"}
      /\ Topmost.kind = "call" => Topmost.phase = "run"
      /\ frames' = Append(Append(Front(frames), f), h) /\ err' = None
    BY DEF Handling
<1>2. PICK gs : gs = Append(Front(frames), f)
    OBVIOUS
<1>3. /\ f.kind = Topmost.kind
      /\ f.kind = "call" => f.outer = Topmost.outer /\ f.phase = "run"
      /\ LuaOf(Topmost) = LuaOf(f) /\ LuaOf(f) \in Nat /\ ~Hushed(f)
    BY <1>1 DEF SameBut, LuaOf, Hushed
<1>4. None \in Errors \cup {None}
    OBVIOUS
<1>5. /\ gs \in Seq(Frame) /\ Retops(frames, gs, f)
      /\ Stacked(gs, None, running, inLua - LuaOf(Topmost) + LuaOf(f), inPhp, co.depth)
    BY <1>1, <1>2, <1>3, <1>4, PlainRetop
<1>6. inLua - LuaOf(Topmost) + LuaOf(f) = inLua
    BY <1>3, StackIs
<1>7. Stacked(gs, None, running, inLua, inPhp, co.depth)
    BY <1>5, <1>6
<1>8. frames' \in Seq(Frame) /\ Pushes(gs, frames', h)
    BY <1>1, <1>2, <1>5, Pushed
<1>9. Len(gs) > 0 /\ gs[Len(gs)] = f /\ f.kind # "create"
    BY <1>1, <1>3, <1>5 DEF Retops
<1>10. Stacked(frames', None, running, inLua, inPhp, co.depth)
    BY <1>1, <1>3, <1>5, <1>7, <1>8, <1>9, StackIs, HandlerOn
<1> QED
    BY <1>1, <1>10, StackIs DEF Handling, NextStack, NextTables

LEMMA WrapBrokenStacked ==
    ASSUME OnStack, NEW f, NEW q, WrapBroken(f, q)
    PROVE  NextStack /\ NextTables
<1>1. /\ Stacked(frames, err, running, inLua, inPhp, co.depth) /\ frames \in Seq(Frame)
      /\ Built(frames) /\ inLua \in Nat /\ inPhp \in Nat /\ co.depth \in Nat
    BY StackIs
<1>2. PICK g : g = frames[Len(frames)]
    OBVIOUS
<1>3. /\ g = Topmost /\ g.kind = "wrap" /\ f.kind = "closing" /\ f.who = "wrap"
      /\ f.on = g.on /\ f.from = g.from
    BY <1>2 DEF WrapBroken, Topmost, ClosingFrame
<1>4. /\ frames # <<>> /\ f \in Frame /\ frames' = Append(Front(frames), f)
      /\ frames' \in Seq(Frame) /\ Retops(frames, frames', f) /\ err' = None
    BY DEF WrapBroken, DoesRetop
<1>5. Seat(frames', Len(frames))
    BY <1>1, <1>2, <1>3, <1>4, RetopSeat
<1>6. /\ f.kind \in InnerKinds <=> g.kind \in InnerKinds
      /\ PhpOf(g) = 0 /\ PhpOf(f) = 0 /\ LuaOf(g) = 0 /\ LuaOf(f) = 0
      /\ DepthOf(g) = 1 /\ DepthOf(f) = 0
    BY <1>3 DEF InnerKinds, PhpOf, DepthOf, LuaOf
<1>7. None \in Errors \cup {None}
    OBVIOUS
<1>8. Stacked(frames', None, running, inLua - LuaOf(g) + LuaOf(f), inPhp - PhpOf(g) + PhpOf(f),
              co.depth - DepthOf(g) + DepthOf(f))
    BY <1>1, <1>2, <1>3, <1>4, <1>5, <1>6, <1>7, StackedRetop
<1>9. inLua - 0 + 0 = inLua /\ inPhp - 0 + 0 = inPhp /\ co.depth - 1 + 0 = co.depth - 1
    BY <1>1
<1>10. Stacked(frames', None, running, inLua, inPhp, co.depth - 1)
    BY <1>6, <1>8, <1>9
<1>11. running = Topmost.on /\ co.depth - 1 \in Nat
    <2>1. PICK us \in Seq(Frame) : Pops(frames, us)
        BY <1>1, <1>4, Popped
    <2>2. g.kind \in InnerKinds => running = g.on
        BY <1>1, <1>2, <2>1, StackedDrop
    <2>3. Counted(frames, inLua, inPhp, co.depth)
        BY StackIs
    <2>4. co.depth - DepthOf(g) \in Nat
        BY <1>1, <1>2, <2>1, <2>3, CountedDown
    <2> QED
        BY <1>3, <1>6, <2>2, <2>4 DEF InnerKinds
<1>12. running' = running /\ co'.depth = co.depth - 1 /\ CoTyped(co') /\ UNCHANGED <<inLua, inPhp>>
    BY <1>3, <1>11, StackIs DEF WrapBroken, CoTyped
<1>13. threads' \in [Threads -> ThreadState]
    BY DEF WrapBroken, ThreadSet
<1> QED
    BY <1>4, <1>10, <1>12, <1>13 DEF NextStack, NextTables

LEMMA CreatedStacked ==
    ASSUME OnStack, NEW t, NEW q, Created(t, q)
    PROVE  NextStack /\ NextTables
<1>1. frames' \in Seq(Frame) /\ Pops(frames, frames') /\ PhpOf(Topmost) = 0
      /\ Topmost.kind \notin InnerKinds \cup {"call"} /\ err' = None
    BY DEF Created, DoesPop, InnerKinds, PhpOf
<1>2. None \in Errors \cup {None}
    OBVIOUS
<1>3. Stacked(frames', None, running, inLua, inPhp - PhpOf(Topmost), co.depth)
    BY <1>1, <1>2, PlainPop
<1>4. inPhp - PhpOf(Topmost) = inPhp
    BY <1>1, StackIs
<1>5. co'.depth = co.depth /\ CoTyped(co') /\ UNCHANGED <<running, inLua, inPhp>>
    <2>1. t \in Threads /\ UNCHANGED <<running, inLua, inPhp>>
        BY DEF Created, ThreadSet
    <2>2. CoTyped(co)
        BY StackIs
    <2>3. co' = [co EXCEPT !.tracked = co.tracked \cup {t}, !.live = co.live + 1]
        BY DEF Created
    <2>4. PICK s \in SUBSET Threads : s = co.tracked \cup {t}
        BY <2>1, <2>2 DEF CoTyped
    <2>5. PICK n \in Nat : n = co.live + 1
        BY <2>2 DEF CoTyped
    <2>6. co' = [co EXCEPT !.tracked = s, !.live = n]
        BY <2>3, <2>4, <2>5
    <2>7. co'.depth = co.depth /\ CoTyped(co')
        BY <2>2, <2>4, <2>5, <2>6 DEF CoTyped
    <2> QED
        BY <2>1, <2>7
<1>6. threads' \in [Threads -> ThreadState]
    BY DEF Created, ThreadSet
<1> QED
    BY <1>1, <1>3, <1>4, <1>5, <1>6 DEF NextStack, NextTables

LEMMA StartedStacked ==
    ASSUME OnStack, NEW f, NEW q, Started(f, q)
    PROVE  NextStack /\ NextTables
<1>1. /\ Stacked(frames, err, running, inLua, inPhp, co.depth) /\ frames \in Seq(Frame)
      /\ inLua \in Nat /\ inPhp \in Nat /\ co.depth \in Nat
    BY StackIs
<1>2. /\ Len(frames) > 0 /\ ~Hushed(frames[Len(frames)])
      /\ frames[Len(frames)].kind \notin {"closing", "create"}
    BY <1>1, LuaTop DEF Started
<1>3. /\ f \in Frame /\ frames' \in Seq(Frame) /\ Pushes(frames, frames', f)
      /\ f.kind \in {"resume", "wrap"} /\ f.from = running /\ err' = None
    BY DEF Started, DoesPush, ResumeFrame
<1>4. Len(frames') = Len(frames) + 1 /\ frames'[Len(frames')] = f
    BY <1>3 DEF Pushes
<1>5. Seat(frames', Len(frames) + 1)
    BY <1>1, <1>2, <1>3, PlainSeat
<1>6. None \in Errors \cup {None} /\ Seat(frames', Len(frames')) /\ ~Hushed(f)
    BY <1>3, <1>4, <1>5 DEF Hushed
<1>7. Stacked(frames', None, Entered(frames', running), inLua + LuaOf(f), inPhp + PhpOf(f),
              co.depth + DepthOf(f))
    BY <1>1, <1>2, <1>3, <1>6, StackedPush
<1>8. /\ Entered(frames', running) = f.on /\ LuaOf(f) = 0 /\ PhpOf(f) = 0 /\ DepthOf(f) = 1
      /\ inLua + 0 = inLua /\ inPhp + 0 = inPhp
    BY <1>1, <1>3, <1>4 DEF Entered, InnerKinds, LuaOf, PhpOf, DepthOf
<1>9. Stacked(frames', None, f.on, inLua, inPhp, co.depth + 1)
    BY <1>7, <1>8
<1>10. co'.depth = co.depth + 1 /\ CoTyped(co') /\ running' = f.on /\ UNCHANGED <<inLua, inPhp>>
    BY StackIs DEF Started, CoTyped
<1>11. threads' \in [Threads -> ThreadState]
    BY DEF Started, ThreadSet
<1> QED
    BY <1>3, <1>9, <1>10, <1>11 DEF NextStack, NextTables

LEMMA BackStacked ==
    ASSUME OnStack, NEW q, Back(q)
    PROVE  NextStack /\ NextTables
<1>1. frames' \in Seq(Frame) /\ Pops(frames, frames') /\ Topmost.kind \in {"resume", "wrap"}
    BY DEF Back, DoesPop, ResumeFrame
<1>2. Topmost.kind \in InnerKinds /\ Topmost.kind # "closing" /\ DepthOf(Topmost) = 1
    BY <1>1 DEF InnerKinds, DepthOf
<1>3. err' \in Errors \cup {None}
    BY StackIs, ThrownType DEF Back
<1>4. Stacked(frames', err', Topmost.from, inLua, inPhp, co.depth - DepthOf(Topmost))
    BY <1>1, <1>2, <1>3, InnerPop
<1>5. co.depth - 1 \in Nat
    <2>1. Counted(frames, inLua, inPhp, co.depth) /\ frames \in Seq(Frame)
        BY StackIs
    <2>2. PICK g : g = frames[Len(frames)]
        OBVIOUS
    <2>3. co.depth - DepthOf(g) \in Nat
        BY <1>1, <2>1, <2>2, CountedDown
    <2> QED
        BY <1>2, <2>2, <2>3 DEF Topmost
<1>6. co'.depth = co.depth - 1 /\ CoTyped(co') /\ running' = Topmost.from
      /\ UNCHANGED <<inLua, inPhp>>
    BY <1>5, StackIs DEF Back, CoTyped
<1>7. threads' \in [Threads -> ThreadState]
    BY DEF Back, ThreadSet
<1> QED
    BY <1>2, <1>4, <1>6, <1>7 DEF NextStack, NextTables

LEMMA ScopeEndsStacked ==
    ASSUME OnStack, NEW h, NEW q, ScopeEnds(h, q)
    PROVE  NextStack /\ NextTables
<1>1. /\ Stacked(frames, err, running, inLua, inPhp, co.depth) /\ frames \in Seq(Frame)
      /\ inLua \in Nat /\ inPhp \in Nat /\ co.depth \in Nat /\ Len(frames) \in Nat
    BY StackIs
<1>2. /\ h \in Frame /\ h.kind = "handler" /\ frames' \in Seq(Frame)
      /\ Pushes(frames, frames', h) /\ Topmost.kind \in InnerKinds
      /\ err' = None /\ UNCHANGED <<co, running, inLua, inPhp>>
    BY DEF ScopeEnds, DoesPush
<1>3. Len(frames) > 0
    BY <1>1 DEF ScopeEnds
<1>4. ~Hushed(frames[Len(frames)]) /\ frames[Len(frames)].kind # "create"
    BY <1>2 DEF Hushed, Topmost, InnerKinds
<1>5. Stacked(frames', None, running, inLua, inPhp, co.depth)
    BY <1>1, <1>2, <1>3, <1>4, HandlerOn
<1>6. threads' \in [Threads -> ThreadState]
    BY DEF ScopeEnds, ThreadSet
<1> QED
    BY <1>2, <1>5, <1>6, StackIs DEF NextStack, NextTables

LEMMA ClosePushStacked ==
    ASSUME OnStack, NEW f, ClosePush(f)
    PROVE  NextStack /\ NextTables
<1>1. /\ Stacked(frames, err, running, inLua, inPhp, co.depth) /\ frames \in Seq(Frame)
      /\ Built(frames) /\ inLua \in Nat /\ inPhp \in Nat /\ co.depth \in Nat /\ Len(frames) \in Nat
    BY StackIs
<1>2. /\ f \in Frame /\ frames' \in Seq(Frame) /\ Pushes(frames, frames', f)
      /\ f.kind = "closing" /\ f.from = running /\ err' = None
    BY DEF ClosePush, DoesPush, ClosingFrame
<1>3. LuaOnTop => /\ Len(frames) > 0 /\ ~Hushed(frames[Len(frames)])
                  /\ frames[Len(frames)].kind \notin {"closing", "create"}
    BY <1>1, LuaTop
<1>4. Len(frames) > 0 /\ frames[Len(frames)].kind \notin {"closing", "create"}
    BY <1>1, <1>3 DEF ClosePush, Topmost
<1>5. ~LuaOnTop => f.who = "sweep" /\ Len(frames) = 1 /\ frames[1].kind = "call"
                   /\ frames[1].phase = "walk"
    <2>1. ~LuaOnTop => f.who = "sweep" /\ Topmost.kind = "call" /\ Topmost.phase = "walk"
        BY DEF ClosePush
    <2>2. Seat(frames, Len(frames))
        BY <1>1, <1>4 DEF Built
    <2> QED
        BY <2>1, <2>2 DEF Seat, Topmost
<1>6. Seat(frames', Len(frames'))
    <2>1. CASE f.who = "close" /\ LuaOnTop
        BY <1>1, <1>2, <1>3, <2>1, ClosingSeat
    <2>2. CASE f.who = "self" /\ LuaOnTop
        <3>1. frames[Len(frames)].kind \in {"resume", "wrap"} /\ frames[Len(frames)].on = f.on
            BY <2>2 DEF ClosePush, Topmost
        <3> QED
            BY <1>1, <1>2, <1>3, <2>2, <3>1, ClosingSeat
    <2>3. CASE f.who = "sweep"
        <3>1. Topmost.kind = "call" /\ Topmost.phase = "walk"
            BY <2>3 DEF ClosePush
        <3>2. Seat(frames, Len(frames))
            BY <1>1, <1>4 DEF Built
        <3>3. Len(frames) = 1 /\ frames[1].kind = "call" /\ frames[1].phase = "walk"
            BY <3>1, <3>2 DEF Seat, Topmost
        <3> QED
            BY <1>1, <1>2, <2>3, <3>3, ClosingSeat
    <2> QED
        BY <2>1, <2>2, <2>3 DEF ClosePush
<1>7. None \in Errors \cup {None} /\ ~Hushed(f)
    BY <1>2 DEF Hushed
<1>8. Stacked(frames', None, Entered(frames', running), inLua + LuaOf(f), inPhp + PhpOf(f),
              co.depth + DepthOf(f))
    BY <1>1, <1>2, <1>4, <1>6, <1>7, StackedPush
<1>9. /\ Entered(frames', running) = f.on /\ LuaOf(f) = 0 /\ PhpOf(f) = 0 /\ DepthOf(f) = 0
      /\ inLua + 0 = inLua /\ inPhp + 0 = inPhp /\ co.depth + 0 = co.depth
    BY <1>1, <1>2 DEF Entered, InnerKinds, LuaOf, PhpOf, DepthOf, Pushes
<1>10. Stacked(frames', None, f.on, inLua, inPhp, co.depth)
    BY <1>8, <1>9
<1>11. co'.depth = co.depth /\ CoTyped(co') /\ running' = f.on /\ UNCHANGED <<threads, inLua, inPhp>>
    BY StackIs DEF ClosePush, CoTyped
<1> QED
    BY <1>2, <1>10, <1>11, StackIs DEF NextStack, NextTables

LEMMA HeardStacked ==
    ASSUME OnStack, NEW q, Heard(q)
    PROVE  NextStack /\ NextTables
BY StackIs DEF Heard, NextStack, NextTables, Stacked, ThreadSet

LEMMA CollectedStacked ==
    ASSUME OnStack, NEW t, Collected(t)
    PROVE  NextStack /\ NextTables
<1>1. CoTyped(co') /\ co'.depth = co.depth
    BY StackIs DEF Collected, CoTyped
<1> QED
    BY <1>1, StackIs DEF Collected, NextStack, NextTables, Stacked, ThreadSet

LEMMA RestingStacked ==
    ASSUME OnStack, Resting
    PROVE  NextStack /\ NextTables
BY StackIs DEF Resting, NextStack, NextTables

LEMMA OverStacked ==
    ASSUME OnStack, NEW q, Over(q)
    PROVE  NextStack /\ NextTables
<1>1. PICK us \in Seq(Frame) : us = Front(frames) /\ Pops(frames, us)
    BY StackIs, Popped DEF Over
<1>2. Topmost.kind = "closing" /\ Topmost.kind \in InnerKinds /\ DepthOf(Topmost) = 0
    BY DEF Over, ClosingFrame, InnerKinds, DepthOf
<1>3. PICK e \in Errors \cup {None} : e = threads[Topmost.on].err
    <2>1. threads[Topmost.on] \in ThreadState
        BY StackIs DEF Over, ClosingFrame
    <2> QED
        BY <2>1 DEF ThreadState
<1>4. e = None => Kept(e) = None
    BY CallsAssumption DEF Kept, IsFatal, Errors
<1>5. Kept(e) \in Errors \cup {None} /\ "fatal" \in Errors
    BY <1>3, <1>4, ThrownType DEF Errors
<1>6. err' \in Errors \cup {None} /\ (Topmost.who = "sweep" => err' = None)
    BY <1>3, <1>5 DEF Over
<1>7. co.depth - 0 = co.depth
    BY StackIs
<1>8. PICK d \in Errors \cup {None} : d = err'
    BY <1>6
<1>9. d = None \/ ~(Topmost.kind = "closing" /\ Topmost.who = "sweep")
    BY <1>6, <1>8
<1>10. /\ Stacked(us, d, Topmost.from, inLua, inPhp, co.depth)
       /\ ~(Topmost.kind = "closing" /\ Topmost.who = "sweep") =>
            Len(us) > 0 /\ ~Hushed(us[Len(us)])
    BY <1>1, <1>2, <1>7, <1>9, InnerPop
<1>11. Stacked(frames', d, Topmost.from, inLua, inPhp, co.depth)
    <2>1. CASE frames' = us
        BY <1>10, <2>1
    <2>2. CASE frames' # us
        <3>1. Topmost.who \notin {"sweep", "wrap"} /\ Kept(e) # None
              /\ frames' = Owing(us, Kept(e))
            BY <1>1, <1>3, <2>2 DEF Over
        <3>2. PICK k \in Errors : k = Kept(e)
            BY <1>5, <3>1
        <3>3. frames' \in Seq(Frame) /\ Likes(us, frames')
            BY <1>1, <3>1, <3>2, OwingIs
        <3>4. Len(us) > 0 /\ ~Hushed(us[Len(us)])
            BY <1>10, <3>1
        <3> QED
            BY <1>8, <1>10, <3>3, <3>4, StackedLike
    <2> QED
        BY <2>1, <2>2
<1>12. running' = Topmost.from /\ UNCHANGED <<co, inLua, inPhp>>
    BY DEF Over
<1>13. threads' \in [Threads -> ThreadState]
    BY DEF Over, ThreadSet
<1> QED
    BY <1>8, <1>11, <1>12, <1>13, StackIs DEF NextStack, NextTables

LEMMA SelfOverStacked ==
    ASSUME OnStack, NEW us, NEW f, NEW q, SelfOver(us, f, q)
    PROVE  NextStack /\ NextTables
<1>1. us \in Seq(Frame) /\ Pops(frames, us) /\ f = us[Len(us)] /\ f \in ResumeFrame /\ f.on = Topmost.on
    BY DEF SelfOver
<1>2. /\ Topmost.kind = "closing" /\ Topmost.kind \in InnerKinds /\ DepthOf(Topmost) = 0
      /\ Topmost.who = "self"
    BY DEF SelfOver, ClosingFrame, InnerKinds, DepthOf
<1>3. threads[f.on].err \in Errors \cup {None}
    <2>1. threads[f.on] \in ThreadState
        BY StackIs DEF SelfOver, ResumeFrame
    <2> QED
        BY <2>1 DEF ThreadState
<1>4. co.depth - 0 = co.depth /\ inLua \in Nat /\ inPhp \in Nat /\ inLua - 0 = inLua /\ inPhp - 0 = inPhp
    BY StackIs
<1>5. PICK d \in Errors \cup {None} : d = threads[f.on].err
    BY <1>3
<1>6. Stacked(us, d, Topmost.from, inLua, inPhp, co.depth)
    BY <1>1, <1>2, <1>4, InnerPop
<1>7. f.kind \in InnerKinds /\ LuaOf(f) = 0 /\ PhpOf(f) = 0 /\ DepthOf(f) = 1
    BY <1>1 DEF ResumeFrame, InnerKinds, LuaOf, PhpOf, DepthOf
<1>8. running = Topmost.on /\ Topmost.from = f.on
    <2>1. running = Topmost.on
        BY <1>1, <1>2, <1>5, InnerPop
    <2>2. us # <<>>
        BY DEF SelfOver
    <2>3. PICK gs \in Seq(Frame) : Pops(us, gs)
        BY <1>1, <2>2, Popped
    <2>4. f.kind \in InnerKinds => Topmost.from = f.on
        BY <1>1, <1>6, <2>3, StackedDrop
    <2> QED
        BY <1>7, <2>1, <2>4
<1>9. CASE threads[f.on].err = None
    <2>1. /\ frames' \in Seq(Frame) /\ Pops(us, frames') /\ err' = None
          /\ co' = [co EXCEPT !.depth = co.depth - 1] /\ running' = f.from
          /\ UNCHANGED <<inLua, inPhp>> /\ threads' \in [Threads -> ThreadState]
        BY <1>9 DEF SelfOver, ThreadSet
    <2>2. Stacked(frames', None, Left(us, Topmost.from), inLua - LuaOf(f), inPhp - PhpOf(f),
                  co.depth - DepthOf(f))
        BY <1>1, <1>6, <2>1, StackedDrop
    <2>3. Left(us, Topmost.from) = f.from
        BY <1>1, <1>7 DEF Left
    <2>4. Counted(us, inLua, inPhp, co.depth)
        BY <1>6 DEF Stacked
    <2>5. co.depth - DepthOf(f) \in Nat
        BY <1>1, <2>1, <2>4, CountedDown
    <2>6. co'.depth = co.depth - 1 /\ CoTyped(co')
        BY <1>7, <2>1, <2>5, StackIs DEF CoTyped
    <2> QED
        BY <1>4, <1>7, <2>1, <2>2, <2>3, <2>6 DEF NextStack, NextTables
<1>10. CASE threads[f.on].err # None
    <2>1. frames' = us /\ err' = d /\ UNCHANGED <<threads, co, running, inLua, inPhp>>
        BY <1>5, <1>10 DEF SelfOver
    <2> QED
        BY <1>1, <1>6, <1>8, <2>1, StackIs DEF NextStack, NextTables
<1> QED
    BY <1>9, <1>10

LEMMA EnteringStacked ==
    ASSUME OnStack, NEW f, Entering(f)
    PROVE  NextStack /\ NextTables
<1>1. /\ Stacked(frames, err, running, inLua, inPhp, co.depth) /\ frames \in Seq(Frame)
      /\ Built(frames) /\ inLua \in Nat /\ inPhp \in Nat /\ co.depth \in Nat /\ Len(frames) \in Nat
      /\ Counted(frames, inLua, inPhp, co.depth)
    BY StackIs
<1>2. /\ f \in Frame /\ frames' \in Seq(Frame) /\ Pushes(frames, frames', f) /\ f.kind = "call"
      /\ f.phase = "run" /\ err' = None /\ (f.outer <=> inLua = 0)
    BY DEF Entering, DoesPush, CallFrame
<1>3. Len(frames) > 0 => frames[Len(frames)].kind \in {"callable", "backend"}
    BY <1>1 DEF Entering, Topmost
<1>4. inLua = 0 <=> Len(frames) = 0
    <2>1. inLua = Cardinality(OpenCalls(frames))
        BY <1>1 DEF Counted
    <2>2. Len(frames) = 0 => OpenCalls(frames) = {}
        BY <1>1 DEF OpenCalls
    <2>3. Len(frames) = 0 => inLua = 0
        BY <2>1, <2>2, FS_EmptySet
    <2>4. Len(frames) > 0 => inLua # 0
        BY <1>1, <1>3, <2>1, HostIsUnderLua
    <2> QED
        BY <1>1, <2>3, <2>4
<1>5. Seat(frames', Len(frames'))
    BY <1>1, <1>2, <1>3, <1>4, CallSeat
<1>6. None \in Errors \cup {None} /\ f.kind \notin InnerKinds
    BY <1>2 DEF InnerKinds
<1>7. Stacked(frames', None, Entered(frames', running), inLua + LuaOf(f), inPhp + PhpOf(f),
              co.depth + DepthOf(f))
    BY <1>1, <1>2, <1>3, <1>5, <1>6, StackedPush
<1>8. /\ Entered(frames', running) = running /\ LuaOf(f) = 1 /\ PhpOf(f) = 0 /\ DepthOf(f) = 0
      /\ inPhp + 0 = inPhp /\ co.depth + 0 = co.depth
    BY <1>1, <1>2, <1>6 DEF Entered, LuaOf, PhpOf, DepthOf, Pushes
<1>9. Stacked(frames', None, running, inLua + 1, inPhp, co.depth)
    BY <1>7, <1>8
<1> QED
    BY <1>2, <1>9, StackIs DEF Entering, NextStack, NextTables

LEMMA AdvancingStacked ==
    ASSUME OnStack, NEW f, Advancing(f), f.phase \in {"walk", "files"} => Len(frames) = 1
    PROVE  Stacked(frames', None, running, inLua - LuaOf(Topmost) + LuaOf(f), inPhp, co.depth)
<1>1. /\ frames # <<>> /\ f \in Frame /\ frames' = Append(Front(frames), f)
      /\ f.kind = "call" /\ Topmost.kind = "call" /\ f.outer = Topmost.outer
    BY DEF Advancing, DoesRetop, CallFrame
<1>2. None \in Errors \cup {None}
    OBVIOUS
<1> QED
    BY <1>1, <1>2, PlainRetop

LEMMA CallSits ==
    ASSUME OnStack, frames # <<>>, Topmost \in CallFrame
    PROVE  /\ Topmost.phase \in {"walk", "files"} => Len(frames) = 1
           /\ Topmost.phase # "settle" /\ inLua = 1 => Len(frames) = 1
<1>1. /\ frames \in Seq(Frame) /\ Built(frames) /\ Len(frames) \in Nat
      /\ Counted(frames, inLua, inPhp, co.depth)
    BY StackIs
<1>2. Len(frames) > 0 /\ frames[Len(frames)].kind = "call"
    BY <1>1, EmptySeq DEF CallFrame, Topmost
<1>3. Seat(frames, Len(frames))
    BY <1>1, <1>2 DEF Built
<1>4. Topmost.phase \in {"walk", "files"} => Len(frames) = 1
    BY <1>2, <1>3 DEF Seat, Topmost
<1>5. inLua = Cardinality(OpenCalls(frames))
    BY <1>1 DEF Counted
<1>6. Topmost.phase # "settle" /\ inLua = 1 => Len(frames) = 1
    BY <1>1, <1>2, <1>5, OnlyEntry DEF Topmost
<1> QED
    BY <1>4, <1>6

LEMMA BodyOverStacked ==
    ASSUME OnStack, NEW f, BodyOver(f)
    PROVE  NextStack /\ NextTables
<1>1. /\ Advancing(f) /\ Topmost \in CallFrame /\ frames # <<>> /\ Topmost.phase = "run"
      /\ f.kind = "call" /\ Topmost.kind = "call" /\ f.phase \in {"sample", "files", "walk"}
    BY DEF BodyOver, Advancing, DoesRetop, CallFrame
<1>2. f.phase \in {"walk", "files"} => inLua = 1
    BY DEF BodyOver
<1>3. Stacked(frames', None, running, inLua - LuaOf(Topmost) + LuaOf(f), inPhp, co.depth)
    BY <1>1, <1>2, CallSits, AdvancingStacked
<1>4. LuaOf(Topmost) = 1 /\ LuaOf(f) = 1 /\ inLua - 1 + 1 = inLua
    BY <1>1, StackIs DEF LuaOf
<1>5. co'.depth = co.depth /\ CoTyped(co')
    BY StackIs DEF BodyOver, CoTyped
<1> QED
    BY <1>3, <1>4, <1>5, StackIs DEF BodyOver, Advancing, NextStack, NextTables

LEMMA WalkOverStacked ==
    ASSUME OnStack, NEW f, WalkOver(f)
    PROVE  NextStack /\ NextTables
<1>1. /\ Advancing(f) /\ Topmost \in CallFrame /\ frames # <<>> /\ Topmost.phase = "walk"
      /\ f.kind = "call" /\ Topmost.kind = "call" /\ f.phase = "files"
    BY DEF WalkOver, Advancing, DoesRetop, CallFrame
<1>2. Len(frames) = 1
    BY <1>1, CallSits
<1>3. Stacked(frames', None, running, inLua - LuaOf(Topmost) + LuaOf(f), inPhp, co.depth)
    BY <1>1, <1>2, AdvancingStacked
<1>4. LuaOf(Topmost) = 1 /\ LuaOf(f) = 1 /\ inLua - 1 + 1 = inLua
    BY <1>1, StackIs DEF LuaOf
<1>5. co.depth = 0
    <2>1. co.depth = Cardinality(Resumed(frames))
        BY StackIs DEF Counted
    <2>2. Resumed(frames) = {}
        BY <1>1, <1>2 DEF Resumed, Topmost
    <2> QED
        BY <2>1, <2>2, FS_EmptySet
<1>6. co'.depth = co.depth /\ CoTyped(co')
    BY <1>5, StackIs DEF WalkOver, CoTyped
<1> QED
    BY <1>3, <1>4, <1>6, StackIs DEF WalkOver, Advancing, NextStack, NextTables

LEMMA FilesOverStacked ==
    ASSUME OnStack, NEW f, FilesOver(f)
    PROVE  NextStack /\ NextTables
<1>1. /\ Advancing(f) /\ Topmost \in CallFrame /\ frames # <<>> /\ Topmost.phase = "files"
      /\ f.kind = "call" /\ Topmost.kind = "call" /\ f.phase = "sample"
    BY DEF FilesOver, Advancing, DoesRetop, CallFrame
<1>2. Stacked(frames', None, running, inLua - LuaOf(Topmost) + LuaOf(f), inPhp, co.depth)
    BY <1>1, AdvancingStacked
<1>3. LuaOf(Topmost) = 1 /\ LuaOf(f) = 1 /\ inLua - 1 + 1 = inLua
    BY <1>1, StackIs DEF LuaOf
<1> QED
    BY <1>2, <1>3, StackIs DEF FilesOver, Advancing, NextStack, NextTables

LEMMA LeavingStacked ==
    ASSUME OnStack, NEW f, Leaving(f)
    PROVE  NextStack /\ NextTables
<1>1. /\ Advancing(f) /\ Topmost \in CallFrame /\ frames # <<>> /\ Topmost.phase = "sample"
      /\ f.kind = "call" /\ Topmost.kind = "call" /\ f.phase = "settle"
    BY DEF Leaving, Advancing, DoesRetop, CallFrame
<1>2. Stacked(frames', None, running, inLua - LuaOf(Topmost) + LuaOf(f), inPhp, co.depth)
    BY <1>1, AdvancingStacked
<1>3. LuaOf(Topmost) = 1 /\ LuaOf(f) = 0 /\ inLua - 1 + 0 = inLua - 1
    BY <1>1, StackIs DEF LuaOf
<1> QED
    BY <1>2, <1>3, StackIs DEF Leaving, Advancing, NextStack, NextTables

LEMMA SettledStacked ==
    ASSUME OnStack, Settled
    PROVE  NextStack /\ NextTables
<1>1. /\ Stacked(frames, err, running, inLua, inPhp, co.depth) /\ frames \in Seq(Frame)
      /\ inLua \in Nat /\ inPhp \in Nat /\ co.depth \in Nat
    BY StackIs
<1>2. PICK f : f = frames[Len(frames)]
    OBVIOUS
<1>3. f = Topmost /\ f.kind = "call" /\ f.phase = "settle"
    BY <1>2 DEF Topmost, Settled, CallFrame
<1>4. frames' \in Seq(Frame) /\ Pops(frames, frames') /\ err' = None
    BY DEF Settled, DoesPop
<1>5. Stacked(frames', None, Left(frames, running), inLua - LuaOf(f), inPhp - PhpOf(f),
              co.depth - DepthOf(f))
    BY <1>1, <1>2, <1>4, StackedDrop
<1>6. /\ LuaOf(f) = 0 /\ PhpOf(f) = 0 /\ DepthOf(f) = 0 /\ Left(frames, running) = running
      /\ inLua - 0 = inLua /\ inPhp - 0 = inPhp /\ co.depth - 0 = co.depth
    BY <1>1, <1>2, <1>3 DEF LuaOf, PhpOf, DepthOf, Left, InnerKinds
<1> QED
    BY <1>4, <1>5, <1>6, StackIs DEF Settled, NextStack, NextTables

--------------------------------------------------------------------------------
(* The stack keeps its shape, and so do the tables beside it.                   *)

LEMMA StepStacked ==
    ASSUME OnStack, Assumed, [CallsNext]_callsVars
    PROVE  NextStack /\ NextTables
<1>1. StepKinds
    BY StepIs
<1>2. CASE Resting \/ Throwing \/ Popping \/ PopThrowing \/ Unwinding
    BY <1>2, RestingStacked, ThrowingStacked, PoppingStacked, PopThrowingStacked,
       UnwindingStacked
<1>3. CASE HandlerBack \/ HandlerLost \/ Settled
    BY <1>3, HandlerBackStacked, HandlerLostStacked, SettledStacked
<1>4. ASSUME NEW f, \/ Pushing(f) \/ Skipping(f) \/ Making(f) \/ ClosePush(f) \/ Entering(f)
                    \/ BodyOver(f) \/ WalkOver(f) \/ FilesOver(f) \/ Leaving(f)
      PROVE  NextStack /\ NextTables
    BY <1>4, PushingStacked, SkippingStacked, MakingStacked, ClosePushStacked, EnteringStacked,
       BodyOverStacked, WalkOverStacked, FilesOverStacked, LeavingStacked
<1>5. ASSUME NEW f, NEW h, Handling(f, h)
      PROVE  NextStack /\ NextTables
    BY <1>5, HandlingStacked
<1>6. ASSUME NEW t, Collected(t)
      PROVE  NextStack /\ NextTables
    BY <1>6, CollectedStacked
<1>7. ASSUME NEW q, Back(q) \/ Heard(q) \/ Over(q)
      PROVE  NextStack /\ NextTables
    BY <1>7, BackStacked, HeardStacked, OverStacked
<1>8. ASSUME NEW t, NEW q, Created(t, q) \/ Started(t, q) \/ ScopeEnds(t, q) \/ WrapBroken(t, q)
      PROVE  NextStack /\ NextTables
    BY <1>8, CreatedStacked, StartedStacked, ScopeEndsStacked, WrapBrokenStacked
<1>9. ASSUME NEW us, NEW f, NEW q, SelfOver(us, f, q)
      PROVE  NextStack /\ NextTables
    BY <1>9, SelfOverStacked
<1> QED
    BY <1>1, <1>2, <1>3, <1>4, <1>5, <1>6, <1>7, <1>8, <1>9 DEF StepKinds

\* Whatever runs is the main state or a coroutine's.
LEMMA RunningTyped ==
    ASSUME NEW fs \in Seq(Frame), NEW s, Chained(fs, s)
    PROVE  s \in Threads \cup {Main}
<1>1. Innermost(fs, Len(fs), s)
    BY DEF Chained
<1>2. CASE s = Main
    BY <1>2
<1>3. CASE s # Main
    <2>1. PICK j \in 1 .. Len(fs) : fs[j].kind \in InnerKinds /\ fs[j].on = s
        BY <1>1, <1>3 DEF Innermost
    <2>2. fs[j] \in Frame
        BY <2>1, ElementOfSeq
    <2>3. fs[j] \in ResumeFrame \/ fs[j] \in ClosingFrame
        BY <2>1, <2>2, FrameIs DEF InnerKinds
    <2>4. CASE fs[j] \in ResumeFrame
        BY <2>1, <2>4 DEF ResumeFrame
    <2>5. CASE fs[j] \in ClosingFrame
        BY <2>1, <2>5 DEF ClosingFrame
    <2> QED
        BY <2>3, <2>4, <2>5
<1> QED
    BY <1>2, <1>3

LEMMA CountsAreNat ==
    ASSUME NEW fs \in Seq(Frame), NEW lua, NEW php, NEW depth, Counted(fs, lua, php, depth)
    PROVE  lua \in Nat /\ php \in Nat /\ depth \in Nat
<1>1. PICK n \in Nat : Len(fs) = n
    OBVIOUS
<1>2. \A S \in SUBSET (1 .. n) : Cardinality(S) \in Nat
    BY <1>1, OneMore
<1>3. /\ OpenCalls(fs) \in SUBSET (1 .. n) /\ HostFrames(fs) \in SUBSET (1 .. n)
      /\ Resumed(fs) \in SUBSET (1 .. n)
    BY <1>1 DEF OpenCalls, HostFrames, Resumed
<1> QED
    BY <1>2, <1>3 DEF Counted

LEMMA OnStackStep ==
    ASSUME OnStack, Assumed, [CallsNext]_callsVars
    PROVE  OnStack'
<1>1. NextStack /\ NextTables
    BY StepStacked
<1>2. /\ pending' \in {"runtime", "fatal", "foreign", "exit", None}
      /\ flag' \in BOOLEAN /\ moves' \in Nat
    BY ScalarsTyped
<1>3. /\ frames' \in Seq(Frame) /\ err' \in Errors \cup {None}
      /\ Chained(frames', running') /\ Counted(frames', inLua', inPhp', co'.depth)
    BY <1>1 DEF NextStack, Stacked
<1>4. running' \in Threads \cup {Main}
    BY <1>3, RunningTyped
<1>5. inLua' \in Nat /\ inPhp' \in Nat
    BY <1>3, CountsAreNat
<1>6. CallsTypeOK'
    BY <1>1, <1>2, <1>3, <1>4, <1>5 DEF CallsTypeOK, NextTables, CoTyped
<1> QED
    BY <1>1, <1>6 DEF OnStack, NextStack

LEMMA OnStackInit ==
    ASSUME CallsInit
    PROVE  OnStack
<1>1. /\ frames = <<>> /\ err = None /\ running = Main /\ inLua = 0 /\ inPhp = 0
      /\ co = [live |-> 0, depth |-> 0, sweeping |-> FALSE, tracked |-> {}, left |-> {}]
    BY DEF CallsInit
<1>2. /\ frames \in Seq(Frame) /\ Len(frames) = 0
    BY <1>1
<1>3. BlankThread \in ThreadState
    BY DEF BlankThread, ThreadState
<1>4. threads \in [Threads -> ThreadState]
    BY <1>3 DEF CallsInit
<1>5. CallsTypeOK
    <2>1. co \in [live : Nat, depth : Nat, sweeping : BOOLEAN,
                  tracked : SUBSET Threads, left : SUBSET Threads]
        BY <1>1
    <2>2. pending = None /\ flag = FALSE /\ moves \in Nat
        BY CallsAssumption DEF CallsInit
    <2>3. /\ err \in Errors \cup {None} /\ running \in Threads \cup {Main}
          /\ inLua \in Nat /\ inPhp \in Nat
        BY <1>1
    <2>4. pending \in {"runtime", "fatal", "foreign", "exit", None} /\ flag \in BOOLEAN
        BY <2>2
    <2> QED
        BY <1>2, <1>4, <2>1, <2>2, <2>3, <2>4 DEF CallsTypeOK
<1>6. 1 .. 0 = {}
    OBVIOUS
<1>7. Chained(frames, running)
    BY <1>1, <1>2, <1>6 DEF Chained, Innermost
<1>8. OpenCalls(frames) = {} /\ HostFrames(frames) = {} /\ Resumed(frames) = {}
    BY <1>2, <1>6 DEF OpenCalls, HostFrames, Resumed
<1>9. Cardinality({}) = 0
    BY FS_EmptySet
<1>10. Counted(frames, inLua, inPhp, co.depth)
    BY <1>1, <1>8, <1>9 DEF Counted
<1>11. Built(frames)
    BY <1>2, <1>6 DEF Built
<1> QED
    BY <1>1, <1>2, <1>5, <1>7, <1>10, <1>11 DEF OnStack, Stacked

LEMMA StackHolds ==
    ASSUME SettleCallsHost = FALSE
    PROVE  CallsSpec => []OnStack
<1>1. Assumed
    BY DEF Assumed
<1>2. CallsInit => OnStack
    BY OnStackInit
<1>3. OnStack /\ [CallsNext]_callsVars => OnStack'
    BY <1>1, OnStackStep
<1> QED
    BY <1>2, <1>3, PTL DEF CallsSpec

(* The C stack holds the frames it may hold, in_lua and in_php are counts, the  *)
(* table of threads and the exception are what they may be.                     *)
THEOREM CallsTyped ==
    ASSUME SettleCallsHost = FALSE
    PROVE  CallsSpec => []CallsTypeOK
<1>1. CallsSpec => []OnStack
    BY StackHolds
<1>2. OnStack => CallsTypeOK
    BY DEF OnStack
<1> QED
    BY <1>1, <1>2, PTL

(* running_L names the state whose code runs, through every resume, close and   *)
(* unwinding.                                                                   *)
THEOREM RunningNamesTheInnermost ==
    ASSUME SettleCallsHost = FALSE
    PROVE  CallsSpec => []RunningIsInnermost
<1>1. CallsSpec => []OnStack
    BY StackHolds
<1>2. OnStack => RunningIsInnermost
    <2> SUFFICES ASSUME OnStack PROVE RunningIsInnermost
        OBVIOUS
    <2> DEFINE inside == {i \in DOMAIN frames : frames[i].kind \in {"resume", "wrap", "closing"}}
    <2>1. frames \in Seq(Frame) /\ DOMAIN frames = 1 .. Len(frames) /\ Len(frames) \in Nat
        BY StackIs
    <2>2. Innermost(frames, Len(frames), running)
        BY StackIs DEF Chained
    <2>3. \A i : i \in inside <=> i \in 1 .. Len(frames) /\ frames[i].kind \in InnerKinds
        BY <2>1 DEF InnerKinds
    <2>4. inside \in SUBSET Nat
        BY <2>1, <2>3
    <2> HIDE DEF inside
    <2>5. CASE running = Main /\ \A j \in 1 .. Len(frames) : frames[j].kind \notin InnerKinds
        <3>1. inside = {}
            BY <2>3, <2>5
        <3> QED
            BY <2>5, <3>1 DEF RunningIsInnermost, inside
    <2>6. CASE \E j \in 1 .. Len(frames) :
                  /\ frames[j].kind \in InnerKinds /\ frames[j].on = running
                  /\ \A k \in 1 .. Len(frames) : frames[k].kind \in InnerKinds => k <= j
        <3>1. PICK j \in 1 .. Len(frames) :
                  /\ frames[j].kind \in InnerKinds /\ frames[j].on = running
                  /\ \A k \in 1 .. Len(frames) : frames[k].kind \in InnerKinds => k <= j
            BY <2>6
        <3>2. j \in inside /\ \A y \in inside : j >= y
            BY <2>1, <2>3, <3>1
        <3>3. Max(inside) = j
            BY <2>4, <3>2, LargestIs
        <3> QED
            BY <3>1, <3>2, <3>3 DEF RunningIsInnermost, inside
    <2> QED
        BY <2>2, <2>5, <2>6 DEF Innermost
<1> QED
    BY <1>1, <1>2, PTL

--------------------------------------------------------------------------------
(* Whose body is on the stack, whose close, and whose error waits: every step   *)
(* keeps the three in agreement.                                                *)

Quiet(fs, ts, e) == fs \in Seq(Frame) /\ Built(fs) /\ Bodies(fs, ts) /\ Clear(fs, ts, e)

NextQuiet == Bodies(frames', threads') /\ Clear(frames', threads', err')

LEMMA QuietPush ==
    ASSUME NEW fs \in Seq(Frame), NEW gs \in Seq(Frame), NEW f, Pushes(fs, gs, f), NEW ts, NEW e,
           Bodies(fs, ts), Clear(fs, ts, e), f.kind \notin InnerKinds, e = None,
           Len(fs) > 0 /\ fs[Len(fs)].kind = "closing" => f.over = ts[fs[Len(fs)].on].err, NEW d
    PROVE  Bodies(gs, ts) /\ Clear(gs, ts, d)
<1>1. Bodies(gs, ts)
    BY BodiesPush
<1>2. KeepsErrors(ts, ts)
    BY DEF KeepsErrors
<1> QED
    BY <1>1, <1>2, ClearPlain

LEMMA QuietPop ==
    ASSUME NEW fs \in Seq(Frame), NEW gs \in Seq(Frame), Pops(fs, gs), NEW ts, NEW e,
           Bodies(fs, ts), Clear(fs, ts, e), fs[Len(fs)].kind \notin InnerKinds, NEW d
    PROVE  Bodies(gs, ts) /\ Clear(gs, ts, d)
<1>1. fs[Len(fs)].kind \notin {"resume", "wrap"} /\ fs[Len(fs)].kind # "closing"
    BY DEF InnerKinds
<1>2. Bodies(gs, ts)
    BY <1>1, BodiesPop
<1>3. KeepsErrors(ts, ts)
    BY DEF KeepsErrors
<1> QED
    BY <1>1, <1>2, <1>3, ClearPlain

LEMMA QuietLike ==
    ASSUME NEW fs \in Seq(Frame), NEW gs \in Seq(Frame), Likes(fs, gs), Built(fs), NEW ts, NEW e,
           Bodies(fs, ts), Clear(fs, ts, e), e = None, NEW d
    PROVE  Bodies(gs, ts) /\ Clear(gs, ts, d)
<1>1. Bodies(gs, ts)
    BY BodiesLike
<1>2. KeepsErrors(ts, ts)
    BY DEF KeepsErrors
<1> QED
    BY <1>1, <1>2, ClearPlain

LEMMA QuietRetop ==
    ASSUME NEW fs \in Seq(Frame), fs # <<>>, NEW f \in Frame, NEW gs, gs = Append(Front(fs), f),
           Built(fs), NEW ts, NEW e, Bodies(fs, ts), Clear(fs, ts, e),
           fs[Len(fs)].kind \notin InnerKinds \cup {"handler"}, f.kind \notin InnerKinds, NEW d
    PROVE  gs \in Seq(Frame) /\ Bodies(gs, ts) /\ Clear(gs, ts, d)
<1>1. PICK us \in Seq(Frame) : us = Front(fs) /\ Pops(fs, us)
    BY Popped
<1>2. Bodies(us, ts) /\ Clear(us, ts, None)
    BY <1>1, QuietPop
<1>3. PICK n \in Nat : Len(us) = n /\ Len(fs) = n + 1 /\ \A i \in 1 .. n : us[i] = fs[i]
    BY <1>1 DEF Pops
<1>4. Len(us) > 0 => us[Len(us)].kind # "closing"
    <2> SUFFICES ASSUME n > 0 PROVE us[n].kind # "closing"
        BY <1>3
    <2>1. us[n] = fs[n] /\ Seat(fs, n) /\ n < Len(fs)
        BY <1>3 DEF Built
    <2> QED
        BY <1>3, <2>1 DEF Seat
<1>5. gs \in Seq(Frame) /\ Pushes(us, gs, f)
    BY <1>1, Pushed
<1> QED
    BY <1>2, <1>4, <1>5, QuietPush

LEMMA QuietPopLike ==
    ASSUME NEW fs \in Seq(Frame), NEW us \in Seq(Frame), Pops(fs, us), Built(fs), NEW gs \in Seq(Frame),
           Likes(us, gs), NEW ts, NEW e, Bodies(fs, ts), Clear(fs, ts, e),
           fs[Len(fs)].kind \notin InnerKinds, NEW d
    PROVE  Bodies(gs, ts) /\ Clear(gs, ts, d)
<1>1. Bodies(us, ts) /\ Clear(us, ts, None)
    BY QuietPop
<1>2. Built(us)
    BY BuiltPop
<1> QED
    BY <1>1, <1>2, QuietLike

LEMMA RestingQuiet ==
    ASSUME OnStack, Quiet(frames, threads, err), Resting
    PROVE  NextQuiet
BY DEF Quiet, Resting, NextQuiet

LEMMA ThrowingQuiet ==
    ASSUME OnStack, Quiet(frames, threads, err), Throwing
    PROVE  NextQuiet
<1>1. frames \in Seq(Frame) /\ Built(frames) /\ err = None
    BY StackIs, LuaTop DEF Throwing
<1>2. frames' \in Seq(Frame) /\ Likes(frames, frames') /\ threads' = threads
    BY <1>1, OwingIs DEF Throwing
<1> QED
    BY <1>1, <1>2, QuietLike DEF Quiet, NextQuiet

LEMMA PushingQuiet ==
    ASSUME OnStack, Quiet(frames, threads, err), NEW f, Pushing(f)
    PROVE  NextQuiet
<1>1. frames \in Seq(Frame) /\ Len(frames) \in Nat
    BY StackIs
<1>2. Len(frames) > 0 => frames[Len(frames)].kind # "closing"
    <2>1. LuaOnTop => frames[Len(frames)].kind # "closing"
        BY <1>1, LuaTop
    <2>2. Allocating /\ Len(frames) > 0 => frames[Len(frames)].kind # "closing"
        BY <1>1, <2>1, TopIs DEF Allocating, Is
    <2> QED
        BY <2>1, <2>2 DEF Pushing, MayPush, Topmost
<1>3. f.kind \notin InnerKinds
    BY DEF Pushing, MayPush, InnerKinds
<1>4. frames' \in Seq(Frame) /\ Pushes(frames, frames', f) /\ threads' = threads /\ err = None
    BY DEF Pushing, DoesPush
<1> QED
    BY <1>1, <1>2, <1>3, <1>4, QuietPush DEF Quiet, NextQuiet

LEMMA PoppedQuiet ==
    ASSUME OnStack, Quiet(frames, threads, err), Popping \/ Unwinding \/ HandlerBack \/ Settled
    PROVE  NextQuiet
<1>1. frames \in Seq(Frame)
    BY StackIs
<1>2. frames' \in Seq(Frame) /\ Pops(frames, frames') /\ threads' = threads
    BY DEF Popping, Unwinding, HandlerBack, Settled, DoesPop
<1>3. frames[Len(frames)].kind \notin InnerKinds
    BY DEF Popping, Unwinding, HandlerBack, Settled, Topmost, InnerKinds, CallFrame
<1> QED
    BY <1>1, <1>2, <1>3, QuietPop DEF Quiet, NextQuiet

LEMMA PopThrowingQuiet ==
    ASSUME OnStack, Quiet(frames, threads, err), PopThrowing
    PROVE  NextQuiet
<1>1. frames \in Seq(Frame) /\ Built(frames) /\ frames # <<>>
    BY StackIs DEF PopThrowing
<1>2. PICK us \in Seq(Frame) : us = Front(frames) /\ Pops(frames, us)
    BY <1>1, Popped
<1>3. frames' \in Seq(Frame) /\ Likes(us, frames') /\ threads' = threads
    BY <1>2, OwingIs DEF PopThrowing
<1>4. frames[Len(frames)].kind \notin InnerKinds
    BY DEF PopThrowing, Topmost, InnerKinds
<1> QED
    BY <1>1, <1>2, <1>3, <1>4, QuietPopLike DEF Quiet, NextQuiet

LEMMA HandlerLostQuiet ==
    ASSUME OnStack, Quiet(frames, threads, err), HandlerLost
    PROVE  NextQuiet
<1>1. frames \in Seq(Frame) /\ Built(frames) /\ frames # <<>>
    BY StackIs DEF HandlerLost
<1>2. PICK us \in Seq(Frame) : us = Front(frames) /\ Pops(frames, us)
    BY <1>1, Popped
<1>3. frames' \in Seq(Frame) /\ Likes(us, frames') /\ threads' = threads
    BY <1>2, ForgivingIs DEF HandlerLost
<1>4. frames[Len(frames)].kind \notin InnerKinds
    BY DEF HandlerLost, Topmost, InnerKinds
<1> QED
    BY <1>1, <1>2, <1>3, <1>4, QuietPopLike DEF Quiet, NextQuiet

LEMMA RetoppedQuiet ==
    ASSUME OnStack, Quiet(frames, threads, err), NEW f,
           \/ Skipping(f) \/ Making(f) \/ BodyOver(f) \/ WalkOver(f) \/ FilesOver(f) \/ Leaving(f)
    PROVE  NextQuiet
<1>1. frames \in Seq(Frame) /\ Built(frames)
    BY StackIs
<1>2. frames # <<>> /\ f \in Frame /\ frames' = Append(Front(frames), f) /\ threads' = threads
    BY DEF Skipping, Making, BodyOver, WalkOver, FilesOver, Leaving, Advancing, DoesRetop
<1>3. frames[Len(frames)].kind \notin InnerKinds \cup {"handler"} /\ f.kind \notin InnerKinds
    BY DEF Skipping, Making, BodyOver, WalkOver, FilesOver, Leaving, Advancing, Topmost,
           InnerKinds, CallFrame
<1> QED
    BY <1>1, <1>2, <1>3, QuietRetop DEF Quiet, NextQuiet

LEMMA HandlingQuiet ==
    ASSUME OnStack, Quiet(frames, threads, err), NEW f, NEW h, Handling(f, h)
    PROVE  NextQuiet
<1>1. frames \in Seq(Frame) /\ Built(frames) /\ frames # <<>> /\ f \in Frame /\ h \in Frame
    BY StackIs DEF Handling
<1>2. PICK us : us = Append(Front(frames), f)
    OBVIOUS
<1>3. /\ frames[Len(frames)].kind \notin InnerKinds \cup {"handler"}
      /\ f.kind \notin InnerKinds \cup {"closing"} /\ h.kind \notin InnerKinds
    BY DEF Handling, SameBut, Topmost, InnerKinds
<1>4. us \in Seq(Frame) /\ Bodies(us, threads) /\ Clear(us, threads, None)
    BY <1>1, <1>2, <1>3, QuietRetop DEF Quiet
<1>5. frames' \in Seq(Frame) /\ Pushes(us, frames', h) /\ threads' = threads
    BY <1>1, <1>2, <1>4, Pushed DEF Handling
<1>6. us[Len(us)] = f
    BY <1>1, <1>2, Retopped DEF Retops
<1> QED
    BY <1>3, <1>4, <1>5, <1>6, QuietPush DEF NextQuiet

LEMMA EnteringQuiet ==
    ASSUME OnStack, Quiet(frames, threads, err), NEW f, Entering(f)
    PROVE  NextQuiet
<1>1. frames \in Seq(Frame)
    BY StackIs
<1>2. /\ frames' \in Seq(Frame) /\ Pushes(frames, frames', f) /\ err = None
      /\ f.kind \notin InnerKinds
    BY DEF Entering, DoesPush, CallFrame, InnerKinds
<1>3. Len(frames) > 0 => frames[Len(frames)].kind # "closing"
    BY DEF Entering, Topmost
<1>4. Bodies(frames', threads)
    BY <1>1, <1>2, <1>3, BodiesPush DEF Quiet
<1>5. KeepsErrors(threads, threads') /\ \A t \in Threads : threads'[t].open = threads[t].open
    BY DEF Entering
<1>6. Bodies(frames', threads')
    BY <1>2, <1>4, <1>5, BodiesKept
<1>7. Clear(frames', threads', err')
    BY <1>1, <1>2, <1>5, ClearPlain DEF Quiet
<1> QED
    BY <1>6, <1>7 DEF NextQuiet

LEMMA CreatedQuiet ==
    ASSUME OnStack, Quiet(frames, threads, err), NEW t, NEW q, Created(t, q)
    PROVE  NextQuiet
<1>1. frames \in Seq(Frame) /\ t \in Threads
    BY StackIs DEF Created, ThreadSet
<1>2. frames' \in Seq(Frame) /\ Pops(frames, frames') /\ frames[Len(frames)].kind = "create"
    BY DEF Created, DoesPop, Topmost
<1>3. Bodies(frames', threads) /\ Clear(frames', threads, None)
    BY <1>1, <1>2, QuietPop DEF Quiet, InnerKinds
<1>4. ~ClosedIn(frames', t)
    <2> SUFFICES ASSUME NEW i \in 1 .. Len(frames'), frames'[i].kind = "closing", frames'[i].on = t
                 PROVE  FALSE
        BY DEF ClosedIn
    <2>1. threads[frames'[i].on].status # "unborn"
        BY <1>3 DEF Bodies
    <2> QED
        BY <2>1 DEF Created
<1>5. /\ OnlyChanges(threads, threads', t) /\ threads[t].status = "unborn" /\ err' = None
      /\ threads'[t].status = "suspended" /\ ~threads'[t].open /\ threads'[t].err = None
    BY DEF Created, ThreadSet
<1>6. Bodies(frames', threads')
    BY <1>1, <1>2, <1>3, <1>4, <1>5, BodiesFree
<1>7. Clear(frames', threads', err')
    BY <1>3, <1>5 DEF Clear, OnlyChanges
<1> QED
    BY <1>6, <1>7 DEF NextQuiet

LEMMA StartedQuiet ==
    ASSUME OnStack, Quiet(frames, threads, err), NEW f, NEW q, Started(f, q)
    PROVE  NextQuiet
<1>1. frames \in Seq(Frame) /\ f.on \in Threads /\ f \in ResumeFrame
    BY StackIs DEF Started, ThreadSet
<1>2. frames' \in Seq(Frame) /\ Pushes(frames, frames', f) /\ err = None
    BY DEF Started, DoesPush
<1>3. Len(frames) > 0 => frames[Len(frames)].kind # "closing"
    BY <1>1, LuaTop DEF Started
<1>4. /\ OnlyChanges(threads, threads', f.on) /\ threads[f.on].status = "suspended"
      /\ ~ClosedIn(frames, f.on)
      /\ threads'[f.on].status = "active" /\ threads'[f.on].err = threads[f.on].err
    BY DEF Started, ThreadSet
<1>5. Bodies(frames, threads) /\ Clear(frames, threads, err)
    BY DEF Quiet
<1>6. Bodies(frames', threads')
    BY <1>1, <1>2, <1>3, <1>4, <1>5, BodiesResume
<1>7. threads[f.on].err = None
    BY <1>1, <1>2, <1>4, <1>5 DEF Clear, Resumable
<1>8. KeepsErrors(threads, threads)
    BY DEF KeepsErrors
<1>9. Clear(frames', threads, err')
    BY <1>1, <1>2, <1>5, <1>8, ClearPlain
<1>10. Clear(frames', threads', err')
    BY <1>4, <1>7, <1>9 DEF Clear, OnlyChanges
<1> QED
    BY <1>6, <1>10 DEF NextQuiet

LEMMA BackQuiet ==
    ASSUME OnStack, Quiet(frames, threads, err), NEW q, Back(q)
    PROVE  NextQuiet
<1>1. frames \in Seq(Frame) /\ Built(frames)
    BY StackIs
<1>2. PICK t : t = frames[Len(frames)].on
    OBVIOUS
<1>3. /\ frames' \in Seq(Frame) /\ Pops(frames, frames') /\ Len(frames) > 0
      /\ frames[Len(frames)].kind \in {"resume", "wrap"}
    BY DEF Back, DoesPop, Topmost, ResumeFrame, Pops
<1>4. Bodies(frames, threads) /\ Clear(frames, threads, err)
    BY DEF Quiet
<1>5. t \in Threads /\ threads[t].status = "active" /\ ~ClosedIn(frames, t)
    BY <1>1, <1>2, <1>3, <1>4, ResumedOpen
<1>6. OnlyChanges(threads, threads', t) /\ threads'[t] = q
    BY <1>2 DEF Back, ThreadSet, Topmost
<1>7. q.status \in {"suspended", "dead", "failed"} /\ (q.status = "dead" => ~q.open)
    BY DEF Back
<1>8. Bodies(frames', threads')
    BY <1>1, <1>2, <1>3, <1>4, <1>6, <1>7, BodiesBack
<1>9. q.status = "suspended" => q.err = None
    <2>1. q.status = "suspended" => err = None /\ q.err = threads[t].err
        BY <1>2 DEF Back, Topmost
    <2> QED
        BY <1>4, <1>5, <2>1 DEF Clear, Resumable
<1>10. ASSUME NEW o \in Threads, o # t
       PROVE  ~TopResumes(frames, o) /\ (ClosedIn(frames, o) => ClosedIn(frames', o))
    <2>1. ClosedIn(frames, o) => ClosedIn(frames', o)
        BY <1>1, <1>3, ClosedInPop
    <2> QED
        BY <1>2, <1>10, <2>1 DEF TopResumes
<1>11. Clear(frames', threads', err')
    <2> SUFFICES ASSUME NEW o \in Threads, threads'[o].status \in Resumable
                 PROVE  threads'[o].err = None \/ ClosedIn(frames', o)
        BY DEF Clear
    <2>1. CASE o = t
        BY <1>6, <1>7, <1>9, <2>1 DEF Resumable
    <2>2. CASE o # t
        BY <1>4, <1>6, <1>10, <2>2 DEF Clear, OnlyChanges
    <2> QED
        BY <2>1, <2>2
<1> QED
    BY <1>8, <1>11 DEF NextQuiet

LEMMA ScopeEndsQuiet ==
    ASSUME OnStack, Quiet(frames, threads, err), NEW h, NEW q, ScopeEnds(h, q)
    PROVE  NextQuiet
<1>1. frames \in Seq(Frame) /\ threads \in [Threads -> ThreadState]
    BY StackIs
<1>2. PICK t \in Threads : t = Topmost.on
    BY DEF ScopeEnds, ThreadSet
<1>3. /\ frames' \in Seq(Frame) /\ Pushes(frames, frames', h) /\ err = None
      /\ h.kind \notin InnerKinds
    BY DEF ScopeEnds, DoesPush, InnerKinds
<1>4. Len(frames) > 0 /\ frames[Len(frames)].kind = "closing" =>
        h.over = threads[frames[Len(frames)].on].err
    BY DEF ScopeEnds, Topmost
<1>5. Bodies(frames', threads) /\ Clear(frames', threads, None)
    BY <1>1, <1>3, <1>4, QuietPush DEF Quiet
<1>6. OnlyChanges(threads, threads', t) /\ threads'[t] = [threads[t] EXCEPT !.open = FALSE]
    BY <1>2 DEF ScopeEnds, ThreadSet
<1>7. /\ threads'[t].status = threads[t].status /\ threads'[t].err = threads[t].err
      /\ ~threads'[t].open
    BY <1>1, <1>6 DEF ThreadState
<1>8. KeepsErrors(threads, threads') /\ \A o \in Threads : threads'[o].open => threads[o].open
    BY <1>6, <1>7 DEF KeepsErrors, OnlyChanges
<1>9. Bodies(frames', threads')
    BY <1>3, <1>5, <1>8, BodiesKept
<1>10. Clear(frames', threads', err')
    BY <1>5, <1>8 DEF Clear, KeepsErrors
<1> QED
    BY <1>9, <1>10 DEF NextQuiet

LEMMA WrapBrokenQuiet ==
    ASSUME OnStack, Quiet(frames, threads, err), NEW f, NEW q, WrapBroken(f, q)
    PROVE  NextQuiet
<1>1. frames \in Seq(Frame) /\ Built(frames) /\ frames # <<>> /\ threads \in [Threads -> ThreadState]
    BY StackIs DEF WrapBroken, DoesRetop
<1>2. PICK t : t = f.on
    OBVIOUS
<1>3. PICK us \in Seq(Frame) : us = Front(frames) /\ Pops(frames, us)
    BY <1>1, Popped
<1>4. /\ f \in Frame /\ f \in ClosingFrame /\ f.who = "wrap" /\ t = frames[Len(frames)].on
      /\ frames' = Append(us, f) /\ Len(frames) > 0
      /\ frames[Len(frames)].kind \in {"resume", "wrap"}
    BY <1>2, <1>3 DEF WrapBroken, DoesRetop, Topmost, Pops
<1>5. Bodies(frames, threads) /\ Clear(frames, threads, err)
    BY DEF Quiet
<1>6. t \in Threads /\ ~ClosedIn(frames, t)
    BY <1>1, <1>4, <1>5, ResumedOpen
<1>7. OnlyChanges(threads, threads', t) /\ threads'[t] = q /\ q.status = "failed"
    BY <1>1, <1>2, <1>6 DEF WrapBroken, ThreadSet, ThreadState
<1>8. Bodies(us, threads')
    BY <1>1, <1>3, <1>4, <1>5, <1>7, BodiesBack
<1>9. \A o : ClosedIn(frames, o) <=> ClosedIn(us, o)
    BY <1>1, <1>3, <1>4, ClosedInPop
<1>10. frames' \in Seq(Frame) /\ Pushes(us, frames', f)
    BY <1>4, Pushed
<1>11. Len(us) > 0 => us[Len(us)].kind # "closing"
    <2> SUFFICES ASSUME Len(us) > 0 PROVE us[Len(us)].kind # "closing"
        OBVIOUS
    <2>1. PICK n \in Nat : Len(us) = n /\ Len(frames) = n + 1 /\ \A i \in 1 .. n : us[i] = frames[i]
        BY <1>3 DEF Pops
    <2>2. us[n] = frames[n] /\ Seat(frames, n) /\ n < Len(frames)
        BY <1>1, <2>1 DEF Built
    <2> QED
        BY <1>4, <2>1, <2>2 DEF Seat
<1>12. Bodies(frames', threads')
    BY <1>2, <1>4, <1>6, <1>7, <1>8, <1>9, <1>10, <1>11, BodiesClosing
<1>13. Clear(frames', threads', err')
    <2> SUFFICES ASSUME NEW o \in Threads, threads'[o].status \in Resumable
                 PROVE  threads'[o].err = None \/ ClosedIn(frames', o)
        BY DEF Clear
    <2>1. o # t
        BY <1>7 DEF Resumable
    <2>2. threads'[o] = threads[o] /\ ~TopResumes(frames, o)
        BY <1>4, <1>7, <2>1 DEF OnlyChanges, TopResumes
    <2>3. threads[o].err = None \/ ClosedIn(frames, o)
        BY <1>5, <2>2 DEF Clear
    <2>4. ClosedIn(us, o) => ClosedIn(frames', o)
        BY <1>10, ClosedInPush
    <2> QED
        BY <1>9, <2>2, <2>3, <2>4
<1> QED
    BY <1>12, <1>13 DEF NextQuiet

LEMMA HeardQuiet ==
    ASSUME OnStack, Quiet(frames, threads, err), NEW q, Heard(q)
    PROVE  NextQuiet
<1>1. /\ frames \in Seq(Frame) /\ frames # <<>> /\ threads \in [Threads -> ThreadState]
      /\ Len(frames) > 0
    BY StackIs, TopIs DEF Heard
<1>2. PICK t : t = frames[Len(frames)].on
    OBVIOUS
<1>3. t \in Threads /\ OnlyChanges(threads, threads', t) /\ threads'[t] = [threads[t] EXCEPT !.err = err]
    BY <1>2 DEF Heard, ThreadSet, Topmost
<1>4. threads'[t].status = threads[t].status /\ threads'[t].open = threads[t].open
    BY <1>1, <1>3 DEF ThreadState
<1>5. frames[Len(frames)].kind = "closing" /\ frames' = frames /\ err # None
    BY DEF Heard, Topmost, ClosingFrame
<1>6. Bodies(frames', threads')
    BY <1>1, <1>2, <1>3, <1>4, <1>5, BodiesHear DEF Quiet
<1>7. Clear(frames', threads', err')
    <2> SUFFICES ASSUME NEW o \in Threads, threads'[o].status \in Resumable
                 PROVE  threads'[o].err = None \/ ClosedIn(frames, o)
        BY <1>5 DEF Clear
    <2>1. CASE o = t
        BY <1>1, <1>2, <1>5, <2>1 DEF ClosedIn
    <2>2. CASE o # t
        <3>1. threads'[o] = threads[o] /\ ~TopResumes(frames, o)
            BY <1>3, <1>5, <2>2 DEF OnlyChanges, TopResumes
        <3> QED
            BY <3>1 DEF Clear, Quiet
    <2> QED
        BY <2>1, <2>2
<1> QED
    BY <1>6, <1>7 DEF NextQuiet

LEMMA CollectedQuiet ==
    ASSUME OnStack, Quiet(frames, threads, err), NEW t, Collected(t)
    PROVE  NextQuiet
<1>1. /\ frames \in Seq(Frame) /\ t \in Threads /\ OnlyChanges(threads, threads', t)
      /\ threads'[t] = BlankThread /\ frames' = frames /\ err = None /\ err' = None
    BY StackIs DEF Collected, ThreadSet
<1>2. threads[t].status # "active" /\ ~ClosedIn(frames, t)
    BY DEF Collected
<1>3. threads'[t].status = "unborn" /\ ~threads'[t].open
    BY <1>1 DEF BlankThread
<1>4. Bodies(frames', threads')
    BY <1>1, <1>2, <1>3, BodiesFree DEF Quiet
<1>5. Clear(frames', threads', err')
    BY <1>1, <1>3 DEF Clear, Quiet, OnlyChanges, Resumable
<1> QED
    BY <1>4, <1>5 DEF NextQuiet

\* No table names a thread that is not there.
Known(ts, c) == \A t \in c.tracked \cup c.left : ts[t].status # "unborn"

\* The sweep is its entry's alone on the stack.
LEMMA WalkAlone ==
    ASSUME NEW fs \in Seq(Frame), Built(fs), Len(fs) > 0, fs[Len(fs)].kind = "call",
           fs[Len(fs)].phase \in {"walk", "files"}
    PROVE  Len(fs) = 1
<1>1. Len(fs) \in Nat /\ Len(fs) \in 1 .. Len(fs)
    OBVIOUS
<1>2. Seat(fs, Len(fs))
    BY <1>1 DEF Built
<1> QED
    BY <1>2 DEF Seat

LEMMA ClosePushQuiet ==
    ASSUME OnStack, Quiet(frames, threads, err), Known(threads, co), NEW f, ClosePush(f)
    PROVE  NextQuiet
<1>1. frames \in Seq(Frame) /\ Built(frames) /\ Len(frames) \in Nat
    BY StackIs
<1>2. /\ frames' \in Seq(Frame) /\ Pushes(frames, frames', f) /\ f \in ClosingFrame
      /\ err = None /\ err' = None /\ threads' = threads /\ f.on \in Threads
    BY DEF ClosePush, DoesPush, ClosingFrame
<1>3. Bodies(frames, threads) /\ Clear(frames, threads, err)
    BY DEF Quiet
<1>4. CASE LuaOnTop /\ f.who = "close" /\ ~ClosedIn(frames, f.on)
           /\ threads[f.on].status \in {"suspended", "failed", "dead"}
    <2>1. Len(frames) > 0 => frames[Len(frames)].kind # "closing"
        BY <1>1, <1>4, LuaTop
    <2> QED
        BY <1>1, <1>2, <1>3, <1>4, <2>1, BodiesClosing
           , ClosedInPush DEF NextQuiet, Clear, TopResumes
<1>5. CASE LuaOnTop /\ f.who = "self" /\ f.on = Topmost.on /\ Topmost.kind \in {"resume", "wrap"}
    <2>1. Len(frames) > 0 /\ frames[Len(frames)].kind \in {"resume", "wrap"}
        BY <1>1, <1>5, LuaTop DEF Topmost
    <2>2. threads[f.on].status = "active" /\ ~ClosedIn(frames, f.on)
        BY <1>1, <1>3, <1>5, <2>1, ResumedOpen DEF Topmost
    <2>3. Bodies(frames', threads)
        BY <1>1, <1>2, <1>3, <1>5, <2>1, <2>2, BodiesClosing
    <2> QED
        BY <1>1, <1>2, <1>3, <2>3, ClosedInPush DEF NextQuiet, Clear
<1>6. CASE Topmost.kind = "call" /\ Topmost.phase = "walk" /\ Len(frames) > 0
           /\ f.who = "sweep" /\ f.on \in co.left
    <2>1. Len(frames) = 1 /\ frames[1].kind = "call"
        BY <1>1, <1>6, WalkAlone DEF Topmost
    <2>2. \A i \in 1 .. 1 : i = 1
        OBVIOUS
    <2>3. ~ClosedIn(frames, f.on)
        BY <2>1, <2>2 DEF ClosedIn
    <2>4. threads[f.on].status # "active"
        BY <1>2, <1>3, <2>1, <2>2 DEF Bodies
    <2>5. threads[f.on].status # "unborn"
        BY <1>6 DEF Known
    <2>6. Bodies(frames', threads)
        BY <1>1, <1>2, <1>3, <1>6, <2>1, <2>3, <2>4, <2>5, BodiesClosing
    <2> QED
        BY <1>1, <1>2, <1>3, <2>6, ClosedInPush DEF NextQuiet, Clear
<1> QED
    BY <1>4, <1>5, <1>6 DEF ClosePush

LEMMA OverQuiet ==
    ASSUME OnStack, Quiet(frames, threads, err), NEW q, Over(q)
    PROVE  NextQuiet
<1>1. /\ frames \in Seq(Frame) /\ Built(frames) /\ frames # <<>> /\ Len(frames) > 0
      /\ threads \in [Threads -> ThreadState]
    BY StackIs, TopIs DEF Over
<1>2. PICK t : t = frames[Len(frames)].on
    OBVIOUS
<1>3. PICK us \in Seq(Frame) : us = Front(frames) /\ Pops(frames, us)
    BY <1>1, Popped
<1>4. /\ frames[Len(frames)].kind = "closing" /\ frames[Len(frames)].who # "self" /\ err = None
      /\ t \in Threads /\ OnlyChanges(threads, threads', t) /\ ~threads[t].open
      /\ threads'[t] = [threads[t] EXCEPT !.status = "dead", !.err = None]
    BY <1>2 DEF Over, Topmost, ClosingFrame, ThreadSet
<1>5. threads'[t].status = "dead" /\ ~threads'[t].open
    BY <1>1, <1>4 DEF ThreadState
<1>6. Bodies(frames, threads) /\ Clear(frames, threads, err)
    BY DEF Quiet
<1>7. Bodies(us, threads)
    BY <1>1, <1>3, <1>4, <1>6, BodiesPop
<1>8. threads[t].status # "active" /\ ~ClosedIn(us, t)
    <2>1. PICK n \in Nat : Len(frames) = n + 1 /\ Len(us) = n /\ \A i \in 1 .. n : us[i] = frames[i]
        BY <1>3 DEF Pops
    <2>2. n + 1 \in 1 .. n + 1 /\ \A i \in 1 .. n : i \in 1 .. n + 1 /\ i # n + 1
        OBVIOUS
    <2>3. threads[t].status # "active"
        BY <1>2, <1>4, <1>6, <2>1, <2>2 DEF Bodies
    <2>4. ~ClosedIn(us, t)
        BY <1>2, <1>4, <1>6, <2>1, <2>2 DEF Bodies, ClosedIn
    <2> QED
        BY <2>3, <2>4
<1>9. Bodies(us, threads')
    BY <1>4, <1>5, <1>7, <1>8, BodiesFree
<1>10. Clear(us, threads', None)
    <2> SUFFICES ASSUME NEW o \in Threads, threads'[o].status \in Resumable
                 PROVE  threads'[o].err = None \/ ClosedIn(us, o)
        BY DEF Clear
    <2>1. o # t
        BY <1>5 DEF Resumable
    <2>2. threads'[o] = threads[o]
        BY <1>4, <2>1 DEF OnlyChanges
    <2>3. threads[o].err = None \/ ClosedIn(frames, o)
        BY <1>4, <1>6, <2>2 DEF Clear
    <2>4. ClosedIn(frames, o) => ClosedIn(us, o)
        BY <1>1, <1>2, <1>3, <2>1, ClosedInPop
    <2> QED
        BY <2>2, <2>3, <2>4
<1>11. threads[t].err \in Errors \cup {None}
    BY <1>1, <1>4 DEF ThreadState
<1>12. frames' = us \/ (Kept(threads[t].err) \in Errors /\ frames' = Owing(us, Kept(threads[t].err)))
    <2>1. threads[t].err = None => Kept(threads[t].err) = None
        BY CallsAssumption DEF Kept, IsFatal, Errors
    <2>2. Kept(threads[t].err) \in Errors \cup {None}
        BY <1>11, <2>1, ThrownType
    <2> QED
        BY <1>2, <1>3, <2>2 DEF Over, Topmost
<1>13. CASE frames' = us
    BY <1>9, <1>10, <1>13 DEF NextQuiet, Clear
<1>14. CASE Kept(threads[t].err) \in Errors /\ frames' = Owing(us, Kept(threads[t].err))
    <2>1. frames' \in Seq(Frame) /\ Likes(us, frames')
        BY <1>14, OwingIs
    <2>2. Built(us)
        BY <1>1, <1>3, BuiltPop
    <2> QED
        BY <1>9, <1>10, <2>1, <2>2, QuietLike DEF NextQuiet
<1> QED
    BY <1>12, <1>13, <1>14

LEMMA SelfOverQuiet ==
    ASSUME OnStack, Quiet(frames, threads, err), NEW us, NEW f, NEW q, SelfOver(us, f, q)
    PROVE  NextQuiet
<1>1. /\ frames \in Seq(Frame) /\ Built(frames) /\ threads \in [Threads -> ThreadState]
      /\ us \in Seq(Frame) /\ Pops(frames, us) /\ us # <<>> /\ Len(us) > 0
    BY StackIs DEF SelfOver
<1>2. PICK t : t = f.on
    OBVIOUS
<1>3. /\ t \in Threads /\ f = us[Len(us)] /\ f.kind \in {"resume", "wrap"} /\ err = None
      /\ ~threads[t].open
      /\ frames[Len(frames)].kind = "closing" /\ frames[Len(frames)].on = t
    BY <1>2 DEF SelfOver, Topmost, ClosingFrame, ResumeFrame
<1>4. Bodies(frames, threads) /\ Clear(frames, threads, err)
    BY DEF Quiet
<1>5. Bodies(us, threads) /\ Built(us)
    BY <1>1, <1>3, <1>4, BodiesPop, BuiltPop
<1>6. ASSUME NEW o \in Threads, o # t
      PROVE  threads[o].status \in Resumable => threads[o].err = None \/ ClosedIn(us, o)
    <2>1. ClosedIn(frames, o) => ClosedIn(us, o)
        BY <1>1, <1>3, <1>6, ClosedInPop
    <2> QED
        BY <1>3, <1>4, <2>1 DEF Clear
<1>7. CASE /\ threads[t].err = None
           /\ frames' \in Seq(Frame) /\ Pops(us, frames') /\ err' = None
           /\ ThreadSet(t, q) /\ q = [threads[t] EXCEPT !.status = "dead"]
    <2>1. OnlyChanges(threads, threads', t) /\ threads'[t] = q /\ q.status = "dead" /\ ~q.open
        BY <1>1, <1>3, <1>7 DEF ThreadSet, ThreadState
    <2>2. Bodies(frames', threads')
        BY <1>1, <1>2, <1>3, <1>5, <1>7, <2>1, BodiesBack
    <2>3. \A o : ClosedIn(us, o) => ClosedIn(frames', o)
        BY <1>1, <1>3, <1>7, ClosedInPop
    <2>4. Clear(frames', threads', err')
        BY <1>6, <2>1, <2>3 DEF Clear, OnlyChanges, Resumable
    <2> QED
        BY <2>2, <2>4 DEF NextQuiet
<1>8. CASE threads[t].err # None /\ frames' = us /\ err' = threads[t].err /\ threads' = threads
    <2>1. Clear(us, threads, err')
        BY <1>1, <1>2, <1>3, <1>6, <1>8 DEF Clear, TopResumes
    <2> QED
        BY <1>5, <1>8, <2>1 DEF NextQuiet
<1> QED
    BY <1>2, <1>7, <1>8 DEF SelfOver

LEMMA StepQuiet ==
    ASSUME OnStack, Assumed, Quiet(frames, threads, err), Known(threads, co), [CallsNext]_callsVars
    PROVE  NextQuiet
<1>1. StepKinds
    BY StepIs
<1>2. CASE Resting \/ Throwing \/ Popping \/ PopThrowing \/ Unwinding
    BY <1>2, RestingQuiet, ThrowingQuiet, PoppedQuiet, PopThrowingQuiet
<1>3. CASE HandlerBack \/ HandlerLost \/ Settled
    BY <1>3, PoppedQuiet, HandlerLostQuiet
<1>4. ASSUME NEW f, \/ Pushing(f) \/ Skipping(f) \/ Making(f) \/ ClosePush(f) \/ Entering(f)
                    \/ BodyOver(f) \/ WalkOver(f) \/ FilesOver(f) \/ Leaving(f)
      PROVE  NextQuiet
    BY <1>4, PushingQuiet, RetoppedQuiet, ClosePushQuiet, EnteringQuiet
<1>5. ASSUME NEW f, NEW h, Handling(f, h)
      PROVE  NextQuiet
    BY <1>5, HandlingQuiet
<1>6. ASSUME NEW t, Collected(t)
      PROVE  NextQuiet
    BY <1>6, CollectedQuiet
<1>7. ASSUME NEW q, Back(q) \/ Heard(q) \/ Over(q)
      PROVE  NextQuiet
    BY <1>7, BackQuiet, HeardQuiet, OverQuiet
<1>8. ASSUME NEW t, NEW q, Created(t, q) \/ Started(t, q) \/ ScopeEnds(t, q) \/ WrapBroken(t, q)
      PROVE  NextQuiet
    BY <1>8, CreatedQuiet, StartedQuiet, ScopeEndsQuiet, WrapBrokenQuiet
<1>9. ASSUME NEW us, NEW f, NEW q, SelfOver(us, f, q)
      PROVE  NextQuiet
    BY <1>9, SelfOverQuiet
<1> QED
    BY <1>1, <1>2, <1>3, <1>4, <1>5, <1>6, <1>7, <1>8, <1>9 DEF StepKinds

--------------------------------------------------------------------------------
(* The threads there are, and the table the sweep goes by.                      *)

NextSwept == Swept(frames', threads', co')

LEMMA CoIs ==
    ASSUME NEW c, CoTyped(c)
    PROVE  /\ c.tracked \cup c.left \in SUBSET Threads /\ c.live \in Nat /\ c.sweeping \in BOOLEAN
           /\ IsFiniteSet(c.tracked) /\ Cardinality(c.tracked) \in Nat
<1>1. /\ c.tracked \in SUBSET Threads /\ c.left \in SUBSET Threads /\ c.live \in Nat
      /\ c.sweeping \in BOOLEAN
    BY DEF CoTyped
<1>2. IsFiniteSet(c.tracked) /\ Cardinality(c.tracked) \in Nat
    BY <1>1, CallsAssumption, FS_Subset, FS_CardinalityType
<1> QED
    BY <1>1, <1>2

LEMMA CountAll ==
    ASSUME CoTyped(co)
    PROVE  Count(FALSE) = Cardinality(co.tracked)
<1>1. {t \in co.tracked : FALSE => Alive(t)} = co.tracked
    OBVIOUS
<1> QED
    BY <1>1 DEF Count

LEMMA Inward ==
    ASSUME NEW fs \in Seq(Frame), Built(fs), Len(fs) > 0, fs[Len(fs)].kind # "call"
    PROVE  Len(fs) > 1
<1>1. PICK n \in Nat : Len(fs) = n
    OBVIOUS
<1>2. n > 0 /\ Seat(fs, n) /\ fs[n].kind # "call"
    BY <1>1 DEF Built
<1>3. n # 1
    BY <1>2 DEF Seat
<1> QED
    BY <1>1, <1>2, <1>3

LEMMA Unmoved ==
    ASSUME NEW ts, NEW c
    PROVE  Follows(ts, ts) /\ SameTable(c, c)
BY DEF Follows, SameTable

\* co_live is counted again.
LEMMA SweptCounted ==
    ASSUME NEW fs, NEW ts, NEW c, Swept(fs, ts, c), NEW d,
           d.tracked = c.tracked, d.left = c.left, d.sweeping = c.sweeping,
           ~d.sweeping => d.live >= Cardinality(d.tracked)
    PROVE  Swept(fs, ts, d)
BY DEF Swept

LEMMA SweptRetop ==
    ASSUME NEW fs \in Seq(Frame), NEW gs \in Seq(Frame), NEW f, Retops(fs, gs, f), Built(fs),
           NEW ts, NEW c, Swept(fs, ts, c), c.tracked \cup c.left \in SUBSET Threads,
           NEW g, g = fs[Len(fs)], f.kind = g.kind, g.kind # "closing",
           g.kind = "call" => \/ f.phase = g.phase
                              \/ Len(fs) > 1
                              \/ {f.phase, g.phase} \subseteq {"files", "sample", "settle"}
    PROVE  Swept(gs, ts, c)
<1>1. PICK n \in Nat : Len(fs) = n /\ Len(gs) = n /\ n > 0
    BY DEF Retops
<1>2. gs[n] = f /\ \A i \in 1 .. n : i # n => gs[i] = fs[i]
    BY <1>1 DEF Retops
<1>3. 1 \in 1 .. n /\ fs[1].kind = "call" /\ n \in 1 .. n
    BY <1>1 DEF Built, Seat
<1>4. SameBottom(fs, gs)
    <2>1. CASE n = 1
        BY <1>1, <1>2, <1>3, <2>1 DEF SameBottom, Walking, Harvested
    <2>2. CASE n # 1
        BY <1>1, <1>2, <1>3, <2>2 DEF SameBottom, Walking, Harvested
    <2> QED
        BY <2>1, <2>2
<1>5. \A t \in Threads : SweptIn(fs, t) => SweptIn(gs, t)
    BY <1>1, <1>2 DEF SweptIn
<1>6. NoCreate(fs) => NoCreate(gs)
    BY <1>1, <1>2, <1>3 DEF NoCreate
<1>7. c.sweeping => NoCreate(gs)
    BY <1>6 DEF Swept
<1> QED
    BY <1>4, <1>5, <1>7, SweptMoved, Unmoved

LEMMA RestingSwept ==
    ASSUME OnStack, Swept(frames, threads, co), Resting
    PROVE  NextSwept
BY DEF Resting, NextSwept

LEMMA ThrowingSwept ==
    ASSUME OnStack, Swept(frames, threads, co), Throwing
    PROVE  NextSwept
<1>1. frames \in Seq(Frame) /\ Built(frames) /\ co.tracked \cup co.left \in SUBSET Threads
    BY StackIs, CoIs
<1>2. frames' \in Seq(Frame) /\ Likes(frames, frames') /\ threads' = threads /\ co' = co
    BY <1>1, OwingIs DEF Throwing
<1> QED
    BY <1>1, <1>2, SweptLike, Unmoved DEF NextSwept

LEMMA PushingSwept ==
    ASSUME OnStack, Swept(frames, threads, co), NEW f, Pushing(f)
    PROVE  NextSwept
<1>1. frames \in Seq(Frame) /\ co.tracked \cup co.left \in SUBSET Threads /\ Len(frames) \in Nat
    BY StackIs, CoIs
<1>2. Len(frames) > 0
    <2>1. LuaOnTop => Len(frames) > 0
        BY <1>1, LuaTop
    <2>2. Allocating => Len(frames) > 0
        BY <1>1, <2>1, TopIs DEF Allocating, Is
    <2> QED
        BY <2>1, <2>2 DEF Pushing, MayPush
<1>3. f.kind = "create" => ~co.sweeping
    BY DEF Pushing, MayPush
<1>4. /\ frames' \in Seq(Frame) /\ Pushes(frames, frames', f)
      /\ threads' = threads /\ co' = co
    BY DEF Pushing, DoesPush
<1> QED
    BY <1>1, <1>2, <1>3, <1>4, SweptPush, Unmoved DEF NextSwept

\* What is popped is no call and no close.
LEMMA BareSweptPop ==
    ASSUME NEW fs \in Seq(Frame), Built(fs), NEW gs \in Seq(Frame), Pops(fs, gs),
           fs[Len(fs)].kind \notin {"call", "closing"}, NEW ts, NEW c, Swept(fs, ts, c),
           c.tracked \cup c.left \in SUBSET Threads
    PROVE  Swept(gs, ts, c) /\ Built(gs) /\ Len(gs) > 0
<1>1. Len(fs) > 0 /\ Len(gs) = Len(fs) - 1 /\ Len(fs) \in Nat
    BY DEF Pops
<1>2. Len(fs) > 1
    BY <1>1, Inward
<1>3. Swept(gs, ts, c)
    BY <1>2, SweptPop, Unmoved
<1> QED
    BY <1>1, <1>2, <1>3, BuiltPop

LEMMA PoppedSwept ==
    ASSUME OnStack, Swept(frames, threads, co), Popping \/ Unwinding \/ HandlerBack
    PROVE  NextSwept
<1>1. frames \in Seq(Frame) /\ Built(frames) /\ co.tracked \cup co.left \in SUBSET Threads
    BY StackIs, CoIs
<1>2. frames' \in Seq(Frame) /\ Pops(frames, frames') /\ threads' = threads /\ co' = co
    BY DEF Popping, Unwinding, HandlerBack, DoesPop
<1>3. frames[Len(frames)].kind \notin {"call", "closing"}
    BY DEF Popping, Unwinding, HandlerBack, Topmost
<1> QED
    BY <1>1, <1>2, <1>3, BareSweptPop DEF NextSwept

LEMMA PopThrowingSwept ==
    ASSUME OnStack, Swept(frames, threads, co), PopThrowing
    PROVE  NextSwept
<1>1. /\ frames \in Seq(Frame) /\ Built(frames) /\ co.tracked \cup co.left \in SUBSET Threads
      /\ frames # <<>> /\ CoTyped(co)
    BY StackIs, CoIs DEF PopThrowing
<1>2. PICK us \in Seq(Frame) : us = Front(frames) /\ Pops(frames, us)
    BY <1>1, Popped
<1>3. frames[Len(frames)].kind \notin {"call", "closing"}
    BY DEF PopThrowing, Topmost
<1>4. Swept(us, threads, co) /\ Built(us)
    BY <1>1, <1>2, <1>3, BareSweptPop
<1>5. frames' \in Seq(Frame) /\ Likes(us, frames') /\ threads' = threads
    BY <1>2, OwingIs DEF PopThrowing
<1>6. Swept(frames', threads, co)
    BY <1>1, <1>4, <1>5, SweptLike, Unmoved
<1>7. CASE co' = co
    BY <1>5, <1>6, <1>7 DEF NextSwept
<1>8. CASE co' = [co EXCEPT !.live = Count(FALSE)]
    <2>1. Count(FALSE) = Cardinality(co.tracked)
        BY <1>1, CountAll, Zenon
    <2>2. /\ co'.tracked = co.tracked /\ co'.left = co.left /\ co'.sweeping = co.sweeping
          /\ co'.live = Cardinality(co.tracked)
        BY <1>1, <1>8, <2>1 DEF CoTyped
    <2>3. Cardinality(co.tracked) \in Nat
        BY <1>1, CoIs
    <2> QED
        BY <1>5, <1>6, <2>2, <2>3, SweptCounted DEF NextSwept
<1> QED
    BY <1>7, <1>8 DEF PopThrowing

LEMMA HandlerLostSwept ==
    ASSUME OnStack, Swept(frames, threads, co), HandlerLost
    PROVE  NextSwept
<1>1. /\ frames \in Seq(Frame) /\ Built(frames) /\ co.tracked \cup co.left \in SUBSET Threads
      /\ frames # <<>>
    BY StackIs, CoIs DEF HandlerLost
<1>2. PICK us \in Seq(Frame) : us = Front(frames) /\ Pops(frames, us)
    BY <1>1, Popped
<1>3. frames[Len(frames)].kind \notin {"call", "closing"}
    BY DEF HandlerLost, Topmost
<1>4. Swept(us, threads, co) /\ Built(us)
    BY <1>1, <1>2, <1>3, BareSweptPop
<1>5. frames' \in Seq(Frame) /\ Likes(us, frames') /\ threads' = threads /\ co' = co
    BY <1>2, ForgivingIs DEF HandlerLost
<1> QED
    BY <1>1, <1>4, <1>5, SweptLike, Unmoved DEF NextSwept

LEMMA RetoppedSwept ==
    ASSUME OnStack, Swept(frames, threads, co), NEW f,
           Skipping(f) \/ FilesOver(f) \/ Leaving(f)
    PROVE  NextSwept
<1>1. /\ frames \in Seq(Frame) /\ Built(frames) /\ co.tracked \cup co.left \in SUBSET Threads
    BY StackIs, CoIs
<1>2. frames' \in Seq(Frame) /\ Retops(frames, frames', f) /\ threads' = threads /\ co' = co
    BY DEF Skipping, FilesOver, Leaving, Advancing, DoesRetop
<1>3. /\ f.kind = Topmost.kind /\ Topmost.kind # "closing"
      /\ Topmost.kind = "call" => {f.phase, Topmost.phase} \subseteq {"files", "sample", "settle"}
    BY DEF Skipping, FilesOver, Leaving, Advancing, CallFrame
<1> QED
    BY <1>1, <1>2, <1>3, SweptRetop DEF NextSwept, Topmost

LEMMA MakingSwept ==
    ASSUME OnStack, Swept(frames, threads, co), NEW f, Making(f)
    PROVE  NextSwept
<1>1. /\ frames \in Seq(Frame) /\ Built(frames) /\ co.tracked \cup co.left \in SUBSET Threads
      /\ CoTyped(co)
    BY StackIs, CoIs
<1>2. /\ frames' \in Seq(Frame) /\ Retops(frames, frames', f) /\ threads' = threads
      /\ co' = [co EXCEPT !.live = Count(FALSE)] /\ f.kind = "create"
      /\ frames[Len(frames)].kind = "create"
    BY DEF Making, DoesRetop, Topmost
<1>3. Swept(frames', threads, co)
    BY <1>1, <1>2, SweptRetop
<1>4. Count(FALSE) = Cardinality(co.tracked)
    BY <1>1, CountAll, Zenon
<1>5. /\ co'.tracked = co.tracked /\ co'.left = co.left /\ co'.sweeping = co.sweeping
      /\ co'.live = Cardinality(co.tracked)
    BY <1>1, <1>2, <1>4 DEF CoTyped
<1>6. Cardinality(co.tracked) \in Nat
    BY <1>1, CoIs
<1>7. ~co'.sweeping => co'.live >= Cardinality(co'.tracked)
    BY <1>5, <1>6
<1>8. Swept(frames', threads, co')
    BY <1>3, <1>5, <1>7, SweptCounted
<1> QED
    BY <1>2, <1>8 DEF NextSwept

LEMMA HandlingSwept ==
    ASSUME OnStack, Swept(frames, threads, co), NEW f, NEW h, Handling(f, h)
    PROVE  NextSwept
<1>1. /\ frames \in Seq(Frame) /\ Built(frames) /\ co.tracked \cup co.left \in SUBSET Threads
      /\ frames # <<>> /\ f \in Frame /\ h \in Frame
    BY StackIs, CoIs DEF Handling
<1>2. PICK us : us = Append(Front(frames), f)
    OBVIOUS
<1>3. us \in Seq(Frame) /\ Retops(frames, us, f)
    BY <1>1, <1>2, Retopped
<1>4. /\ f.kind = Topmost.kind /\ f.kind # "closing"
      /\ f.kind = "call" => f.phase = Topmost.phase
      /\ h.kind = "handler"
    BY DEF Handling, SameBut
<1>5. Swept(us, threads, co)
    BY <1>1, <1>3, <1>4, SweptRetop DEF Topmost
<1>6. frames' \in Seq(Frame) /\ Pushes(us, frames', h) /\ threads' = threads /\ co' = co
    BY <1>1, <1>2, <1>3, Pushed DEF Handling
<1>7. Len(us) > 0
    BY <1>3 DEF Retops
<1> QED
    BY <1>1, <1>3, <1>4, <1>5, <1>6, <1>7, SweptPush, Unmoved DEF NextSwept

LEMMA SettledSwept ==
    ASSUME OnStack, Swept(frames, threads, co), Settled
    PROVE  NextSwept
<1>1. /\ frames \in Seq(Frame) /\ Built(frames) /\ co.tracked \cup co.left \in SUBSET Threads
    BY StackIs, CoIs
<1>2. /\ frames' \in Seq(Frame) /\ Pops(frames, frames') /\ threads' = threads /\ co' = co
      /\ frames[Len(frames)].kind = "call" /\ frames[Len(frames)].phase = "settle"
    BY DEF Settled, DoesPop, Topmost, CallFrame
<1>3. PICK n \in Nat : Len(frames) = n + 1 /\ Len(frames') = n
    BY <1>2 DEF Pops
<1>4. CASE n > 0
    <2>1. Len(frames) > 1 /\ frames[Len(frames)].kind # "closing"
        BY <1>2, <1>3, <1>4
    <2>2. Swept(frames', threads, co)
        BY <1>1, <1>2, <2>1, SweptPop, Unmoved
    <2> QED
        BY <1>2, <2>2 DEF NextSwept
<1>5. CASE n = 0
    <2>1. SameBottom(frames, frames')
        BY <1>2, <1>3, <1>5 DEF SameBottom, Walking, Harvested
    <2>2. \A t \in Threads : ~SweptIn(frames, t)
        BY <1>2, <1>3, <1>5 DEF SweptIn
    <2>3. NoCreate(frames')
        BY <1>3, <1>5 DEF NoCreate
    <2> QED
        BY <1>1, <1>2, <2>1, <2>2, <2>3, SweptMoved, Unmoved DEF NextSwept
<1> QED
    BY <1>4, <1>5

\* At the bottom of the stack is the entry made with in_lua at zero, and no other.
LEMMA OutermostIs ==
    ASSUME NEW fs \in Seq(Frame), Built(fs)
    PROVE  Outermost(fs) = IF Len(fs) = 0 THEN 0 ELSE 1
<1> DEFINE outer == {i \in CallsOf(fs) : fs[i].outer}
<1>1. PICK n \in Nat : Len(fs) = n /\ DOMAIN fs = 1 .. n
    OBVIOUS
<1>2. \A i \in 1 .. n : fs[i].kind = "call" => (fs[i].outer <=> i = 1)
    BY <1>1 DEF Built, Seat
<1>3. n > 0 => 1 \in 1 .. n /\ fs[1].kind = "call"
    BY <1>1 DEF Built, Seat
<1>4. CASE n = 0
    <2>1. outer = {}
        BY <1>1, <1>4 DEF CallsOf
    <2> QED
        BY <1>1, <1>4, <2>1 DEF Outermost
<1>5. CASE n > 0
    <2>1. 1 \in outer /\ \A i \in outer : i = 1
        BY <1>1, <1>2, <1>3, <1>5 DEF CallsOf
    <2>2. outer \in SUBSET Nat /\ outer # {}
        BY <2>1
    <2> HIDE DEF outer
    <2>3. Max(outer) = 1
        BY <2>1, <2>2, LargestIs
    <2> QED
        BY <1>1, <1>5, <2>2, <2>3 DEF Outermost, outer
<1> QED
    BY <1>1, <1>4, <1>5

LEMMA CreatedSwept ==
    ASSUME OnStack, Swept(frames, threads, co), NEW t, NEW q, Created(t, q)
    PROVE  NextSwept
<1>1. /\ frames \in Seq(Frame) /\ Built(frames) /\ co.tracked \cup co.left \in SUBSET Threads
      /\ CoTyped(co) /\ IsFiniteSet(co.tracked) /\ co.live \in Nat
      /\ Cardinality(co.tracked) \in Nat
    BY StackIs, CoIs
<1>2. /\ frames' \in Seq(Frame) /\ Pops(frames, frames') /\ frames[Len(frames)].kind = "create"
      /\ OnlyChanges(threads, threads', t) /\ t \in Threads /\ threads'[t] = q
      /\ q.status = "suspended" /\ ~q.open /\ q.late = Late
    BY DEF Created, DoesPop, Topmost, ThreadSet
<1>3. PICK n \in Nat : Len(frames) = n + 1 /\ Len(frames') = n /\ \A i \in 1 .. n : frames'[i] = frames[i]
    BY <1>2 DEF Pops
<1>4. n > 0 /\ Len(frames) > 1
    BY <1>1, <1>2, <1>3, Inward
<1>5. Swept(frames', threads, co)
    BY <1>1, <1>2, BareSweptPop
<1>6. ~co.sweeping
    <2>1. ~NoCreate(frames)
        BY <1>2, <1>3 DEF NoCreate
    <2> QED
        BY <2>1 DEF Swept
<1>7. PICK s : s = co.tracked \cup {t}
    OBVIOUS
<1>8. PICK m \in Nat : m = co.live + 1
    BY <1>1
<1>9. co' = [co EXCEPT !.tracked = s, !.live = m]
    BY <1>7, <1>8 DEF Created
<1>10. /\ co'.tracked = s /\ co'.left = co.left /\ co'.sweeping = co.sweeping
       /\ co'.live = m
    BY <1>1, <1>9 DEF CoTyped
<1>11. Cardinality(s) <= Cardinality(co.tracked) + 1 /\ Cardinality(s) \in Nat
    <2>1. /\ IsFiniteSet(s)
          /\ Cardinality(s) = IF t \in co.tracked THEN Cardinality(co.tracked)
                              ELSE Cardinality(co.tracked) + 1
        BY <1>1, <1>7, FS_AddElement
    <2> QED
        BY <1>1, <2>1
<1>12. co.live >= Cardinality(co.tracked) /\ co.left = {}
    BY <1>6 DEF Swept
<1>13. co'.live >= Cardinality(co'.tracked)
    BY <1>1, <1>8, <1>10, <1>11, <1>12
<1>14. Harvested(frames') => q.late
    <2> SUFFICES ASSUME Harvested(frames') PROVE q.late
        OBVIOUS
    <2>1. frames'[1] = frames[1] /\ frames'[1].phase \in {"files", "sample", "settle"}
        BY <1>3, <1>4 DEF Harvested
    <2>2. Outermost(frames) = 1
        BY <1>1, <1>3, OutermostIs
    <2> QED
        BY <1>2, <2>1, <2>2 DEF Late
<1>15. \A o \in co'.tracked \cup co'.left : threads'[o].status # "unborn"
    BY <1>1, <1>2, <1>5, <1>7, <1>10 DEF Swept, OnlyChanges
<1>16. \A o \in Threads : threads'[o].status \in Unswept =>
         o \in co'.tracked \cup co'.left \/ SweptIn(frames', o)
    BY <1>2, <1>5, <1>7, <1>10 DEF Swept, OnlyChanges
<1>17. Harvested(frames') => \A o \in Threads :
         threads'[o].status \in Resumable \/ threads'[o].open => threads'[o].late
    BY <1>2, <1>5, <1>14 DEF Swept, OnlyChanges
<1>18. co'.sweeping <=> Walking(frames')
    BY <1>5, <1>10 DEF Swept
<1> QED
    BY <1>6, <1>10, <1>12, <1>13, <1>15, <1>16, <1>17, <1>18 DEF NextSwept, Swept

LEMMA StartedSwept ==
    ASSUME OnStack, Swept(frames, threads, co), NEW f, NEW q, Started(f, q)
    PROVE  NextSwept
<1>1. /\ frames \in Seq(Frame) /\ co.tracked \cup co.left \in SUBSET Threads /\ CoTyped(co)
    BY StackIs, CoIs
<1>2. /\ frames' \in Seq(Frame) /\ Pushes(frames, frames', f) /\ f.kind \in {"resume", "wrap"}
      /\ OnlyChanges(threads, threads', f.on) /\ f.on \in Threads /\ threads'[f.on] = q
      /\ q.status = "active" /\ q.late = threads[f.on].late
      /\ threads[f.on].status = "suspended"
    BY DEF Started, DoesPush, ThreadSet, ResumeFrame
<1>3. Len(frames) > 0
    BY <1>1, LuaTop DEF Started
<1>4. Follows(threads, threads')
    BY <1>2 DEF Follows, OnlyChanges, Unswept, Resumable
<1>5. SameTable(co, co')
    BY <1>1 DEF Started, CoTyped, SameTable
<1> QED
    BY <1>1, <1>2, <1>3, <1>4, <1>5, SweptPush DEF NextSwept

LEMMA BackSwept ==
    ASSUME OnStack, Quiet(frames, threads, err), Swept(frames, threads, co), NEW q, Back(q)
    PROVE  NextSwept
<1>1. /\ frames \in Seq(Frame) /\ Built(frames) /\ co.tracked \cup co.left \in SUBSET Threads
      /\ CoTyped(co)
    BY StackIs, CoIs
<1>2. PICK t : t = frames[Len(frames)].on
    OBVIOUS
<1>3. /\ frames' \in Seq(Frame) /\ Pops(frames, frames') /\ Len(frames) > 0
      /\ frames[Len(frames)].kind \in {"resume", "wrap"}
      /\ OnlyChanges(threads, threads', t) /\ t \in Threads /\ threads'[t] = q
      /\ q.late = threads[t].late /\ q.status \in {"suspended", "dead", "failed"}
    BY <1>2 DEF Back, DoesPop, Topmost, ResumeFrame, Pops, ThreadSet
<1>4. threads[t].status = "active"
    BY <1>1, <1>2, <1>3, ResumedOpen DEF Quiet
<1>5. Len(frames) > 1
    BY <1>1, <1>3, Inward
<1>6. Follows(threads, threads')
    BY <1>3, <1>4 DEF Follows, OnlyChanges, Unswept, Resumable
<1>7. SameTable(co, co')
    BY <1>1 DEF Back, CoTyped, SameTable
<1> QED
    BY <1>1, <1>3, <1>5, <1>6, <1>7, SweptPop DEF NextSwept

LEMMA ScopeEndsSwept ==
    ASSUME OnStack, Swept(frames, threads, co), NEW h, NEW q, ScopeEnds(h, q)
    PROVE  NextSwept
<1>1. /\ frames \in Seq(Frame) /\ co.tracked \cup co.left \in SUBSET Threads
      /\ threads \in [Threads -> ThreadState]
    BY StackIs, CoIs
<1>2. PICK t \in Threads : t = Topmost.on
    BY DEF ScopeEnds, ThreadSet
<1>3. /\ frames' \in Seq(Frame) /\ Pushes(frames, frames', h) /\ Len(frames) > 0
      /\ h.kind = "handler" /\ co' = co
      /\ OnlyChanges(threads, threads', t) /\ threads'[t] = [threads[t] EXCEPT !.open = FALSE]
    BY <1>2 DEF ScopeEnds, DoesPush, ThreadSet
<1>4. /\ threads'[t].status = threads[t].status /\ threads'[t].late = threads[t].late
      /\ ~threads'[t].open
    BY <1>1, <1>3 DEF ThreadState
<1>5. Follows(threads, threads')
    BY <1>3, <1>4 DEF Follows, OnlyChanges
<1>6. SameTable(co, co)
    BY DEF SameTable
<1> QED
    BY <1>1, <1>3, <1>5, <1>6, SweptPush DEF NextSwept

LEMMA WrapBrokenSwept ==
    ASSUME OnStack, Quiet(frames, threads, err), Swept(frames, threads, co), NEW f, NEW q, WrapBroken(f, q)
    PROVE  NextSwept
<1>1. /\ frames \in Seq(Frame) /\ Built(frames) /\ frames # <<>> /\ threads \in [Threads -> ThreadState]
      /\ co.tracked \cup co.left \in SUBSET Threads /\ CoTyped(co)
    BY StackIs, CoIs DEF WrapBroken, DoesRetop
<1>2. PICK t : t = f.on
    OBVIOUS
<1>3. PICK us \in Seq(Frame) : us = Front(frames) /\ Pops(frames, us)
    BY <1>1, Popped
<1>4. /\ f \in Frame /\ f.kind = "closing" /\ t = frames[Len(frames)].on
      /\ frames' = Append(us, f) /\ Len(frames) > 0
      /\ frames[Len(frames)].kind \in {"resume", "wrap"}
      /\ OnlyChanges(threads, threads', t) /\ t \in Threads /\ threads'[t] = q
      /\ q = [threads[t] EXCEPT !.status = "failed", !.err = err]
    BY <1>2, <1>3 DEF WrapBroken, DoesRetop, Topmost, Pops, ClosingFrame, ThreadSet
<1>5. threads[t].status = "active"
    BY <1>1, <1>4, ResumedOpen DEF Quiet
<1>6. q.status = "failed" /\ q.late = threads[t].late /\ q.open = threads[t].open
    BY <1>1, <1>4 DEF ThreadState
<1>7. Follows(threads, threads')
    BY <1>4, <1>5, <1>6 DEF Follows, OnlyChanges, Unswept, Resumable
<1>8. SameTable(co, co')
    BY <1>1 DEF WrapBroken, CoTyped, SameTable
<1>9. Len(frames) > 1 /\ Len(us) > 0
    <2>1. Len(frames) > 1
        BY <1>1, <1>4, Inward
    <2> QED
        BY <1>1, <1>3, <2>1 DEF Pops
<1>10. Swept(us, threads', co')
    BY <1>1, <1>3, <1>4, <1>7, <1>8, <1>9, SweptPop
<1>11. frames' \in Seq(Frame) /\ Pushes(us, frames', f)
    BY <1>4, Pushed
<1>12. co'.tracked \cup co'.left \in SUBSET Threads
    BY <1>1, <1>8 DEF SameTable
<1> QED
    BY <1>4, <1>9, <1>10, <1>11, <1>12, SweptPush, Unmoved DEF NextSwept

LEMMA HeardSwept ==
    ASSUME OnStack, Swept(frames, threads, co), NEW q, Heard(q)
    PROVE  NextSwept
<1>1. /\ frames \in Seq(Frame) /\ co.tracked \cup co.left \in SUBSET Threads
      /\ threads \in [Threads -> ThreadState]
    BY StackIs, CoIs
<1>2. PICK t \in Threads : t = Topmost.on
    BY DEF Heard, ThreadSet
<1>3. /\ frames' = frames /\ co' = co
      /\ OnlyChanges(threads, threads', t) /\ threads'[t] = [threads[t] EXCEPT !.err = err]
    BY <1>2 DEF Heard, ThreadSet
<1>4. /\ threads'[t].status = threads[t].status /\ threads'[t].late = threads[t].late
      /\ threads'[t].open = threads[t].open
    BY <1>1, <1>3 DEF ThreadState
<1>5. Follows(threads, threads') /\ SameTable(co, co) /\ SameBottom(frames, frames)
    BY <1>3, <1>4 DEF Follows, OnlyChanges, SameTable, SameBottom
<1>6. co.sweeping => NoCreate(frames)
    BY DEF Swept
<1> QED
    BY <1>1, <1>3, <1>5, <1>6, SweptMoved DEF NextSwept

LEMMA OverSwept ==
    ASSUME OnStack, Quiet(frames, threads, err), Swept(frames, threads, co), NEW q, Over(q)
    PROVE  NextSwept
<1>1. /\ frames \in Seq(Frame) /\ Built(frames) /\ frames # <<>> /\ Len(frames) > 0
      /\ threads \in [Threads -> ThreadState] /\ co.tracked \cup co.left \in SUBSET Threads
    BY StackIs, TopIs, CoIs DEF Over
<1>2. PICK t : t = frames[Len(frames)].on
    OBVIOUS
<1>3. PICK us \in Seq(Frame) : us = Front(frames) /\ Pops(frames, us)
    BY <1>1, Popped
<1>4. /\ frames[Len(frames)].kind = "closing" /\ frames[Len(frames)].who # "self"
      /\ t \in Threads /\ OnlyChanges(threads, threads', t) /\ ~threads[t].open
      /\ threads'[t] = [threads[t] EXCEPT !.status = "dead", !.err = None] /\ co' = co
    BY <1>2 DEF Over, Topmost, ClosingFrame, ThreadSet
<1>5. threads'[t].status = "dead" /\ ~threads'[t].open /\ threads'[t].late = threads[t].late
    BY <1>1, <1>4 DEF ThreadState
<1>6. threads[t].status # "unborn"
    BY <1>1, <1>2, <1>4 DEF Quiet, Bodies
<1>7. Follows(threads, threads') /\ SameTable(co, co)
    BY <1>4, <1>5, <1>6 DEF Follows, OnlyChanges, SameTable, Unswept, Resumable
<1>8. Len(frames) > 1
    BY <1>1, <1>4, Inward
<1>9. threads'[t].status \notin Unswept
    BY <1>5 DEF Unswept
<1>10. Swept(us, threads', co)
    BY <1>1, <1>2, <1>3, <1>7, <1>8, <1>9, SweptPop
<1>11. threads[t].err \in Errors \cup {None}
    BY <1>1, <1>4 DEF ThreadState
<1>12. frames' = us \/ (Kept(threads[t].err) \in Errors /\ frames' = Owing(us, Kept(threads[t].err)))
    <2>1. threads[t].err = None => Kept(threads[t].err) = None
        BY CallsAssumption DEF Kept, IsFatal, Errors
    <2>2. Kept(threads[t].err) \in Errors \cup {None}
        BY <1>11, <2>1, ThrownType
    <2> QED
        BY <1>2, <1>3, <2>2 DEF Over, Topmost
<1>13. CASE frames' = us
    BY <1>4, <1>10, <1>13 DEF NextSwept
<1>14. CASE Kept(threads[t].err) \in Errors /\ frames' = Owing(us, Kept(threads[t].err))
    <2>1. frames' \in Seq(Frame) /\ Likes(us, frames')
        BY <1>14, OwingIs
    <2>2. Built(us)
        BY <1>1, <1>3, BuiltPop
    <2> QED
        BY <1>1, <1>4, <1>10, <2>1, <2>2, SweptLike, Unmoved DEF NextSwept
<1> QED
    BY <1>12, <1>13, <1>14

LEMMA SelfOverSwept ==
    ASSUME OnStack, Quiet(frames, threads, err), Swept(frames, threads, co), NEW us, NEW f, NEW q, SelfOver(us, f, q)
    PROVE  NextSwept
<1>1. /\ frames \in Seq(Frame) /\ Built(frames) /\ threads \in [Threads -> ThreadState]
      /\ us \in Seq(Frame) /\ Pops(frames, us) /\ us # <<>> /\ Len(us) > 0
      /\ co.tracked \cup co.left \in SUBSET Threads /\ CoTyped(co)
    BY StackIs, CoIs DEF SelfOver
<1>2. PICK t : t = f.on
    OBVIOUS
<1>3. /\ t \in Threads /\ f = us[Len(us)] /\ f.kind \in {"resume", "wrap"}
      /\ ~threads[t].open
      /\ frames[Len(frames)].kind = "closing" /\ frames[Len(frames)].on = t
      /\ frames[Len(frames)].who = "self"
    BY <1>2 DEF SelfOver, Topmost, ClosingFrame, ResumeFrame
<1>4. Len(frames) > 1
    BY <1>1, <1>3, Inward DEF Pops
<1>5. Swept(us, threads, co) /\ Built(us)
    BY <1>1, <1>3, <1>4, SweptPop, Unmoved, BuiltPop
<1>6. CASE /\ frames' \in Seq(Frame) /\ Pops(us, frames')
           /\ ThreadSet(t, q) /\ q = [threads[t] EXCEPT !.status = "dead"]
           /\ co' = [co EXCEPT !.depth = co.depth - 1]
    <2>1. /\ OnlyChanges(threads, threads', t) /\ threads'[t] = q /\ q.status = "dead" /\ ~q.open
          /\ q.late = threads[t].late
        BY <1>1, <1>3, <1>6 DEF ThreadSet, ThreadState
    <2>6. Bodies(us, threads)
        BY <1>1, <1>3, BodiesPop DEF Quiet
    <2>2. threads[t].status = "active"
        <3>1. us[Len(us)].kind \in {"resume", "wrap"} /\ us[Len(us)].on = t
            BY <1>2, <1>3
        <3> QED
            BY <1>1, <1>5, <2>6, <3>1, ResumedOpen
    <2>3. Follows(threads, threads')
        BY <2>1, <2>2 DEF Follows, OnlyChanges, Unswept, Resumable
    <2>4. SameTable(co, co')
        BY <1>1, <1>6 DEF SameTable, CoTyped
    <2>5. Len(us) > 1
        BY <1>1, <1>3, <1>5, Inward
    <2>7. us[Len(us)].kind # "closing"
        BY <1>3
    <2>8. Swept(frames', threads', co')
        BY <1>1, <1>5, <1>6, <2>3, <2>4, <2>5, <2>7, SweptPop
    <2> QED
        BY <2>8 DEF NextSwept
<1>7. CASE frames' = us /\ threads' = threads /\ co' = co
    BY <1>5, <1>7 DEF NextSwept
<1> QED
    BY <1>2, <1>6, <1>7 DEF SelfOver

LEMMA CollectedSwept ==
    ASSUME OnStack, Swept(frames, threads, co), NEW t, Collected(t)
    PROVE  NextSwept
<1>1. /\ co.tracked \cup co.left \in SUBSET Threads /\ CoTyped(co) /\ IsFiniteSet(co.tracked)
      /\ co.live \in Nat /\ Cardinality(co.tracked) \in Nat
    BY StackIs, CoIs
<1>2. /\ t \in Threads /\ OnlyChanges(threads, threads', t)
      /\ threads'[t].status = "unborn" /\ ~threads'[t].open /\ frames' = frames
    BY DEF Collected, ThreadSet, BlankThread
<1>3. PICK s, l : s = co.tracked \ {t} /\ l = co.left \ {t}
    OBVIOUS
<1>4. co' = [co EXCEPT !.tracked = s, !.left = l]
    BY <1>3 DEF Collected
<1>5. co'.tracked = s /\ co'.left = l /\ co'.sweeping = co.sweeping /\ co'.live = co.live
    BY <1>1, <1>4 DEF CoTyped
<1>6. Cardinality(s) <= Cardinality(co.tracked) /\ Cardinality(s) \in Nat
    BY <1>1, <1>3, FS_Subset, FS_CardinalityType
<1>7. \A o \in co'.tracked \cup co'.left : threads'[o].status # "unborn"
    BY <1>1, <1>2, <1>3, <1>5 DEF Swept, OnlyChanges
<1>8. \A o \in Threads : threads'[o].status \in Unswept =>
         o \in co'.tracked \cup co'.left \/ SweptIn(frames', o)
    BY <1>2, <1>3, <1>5 DEF Swept, OnlyChanges, Unswept
<1>9. Harvested(frames') => \A o \in Threads :
         threads'[o].status \in Resumable \/ threads'[o].open => threads'[o].late
    BY <1>2 DEF Swept, OnlyChanges, Resumable
<1>10. /\ co'.sweeping <=> Walking(frames')
       /\ co'.sweeping => co'.tracked = {} /\ NoCreate(frames')
    BY <1>2, <1>3, <1>5 DEF Swept
<1>11. ~co'.sweeping => co'.left = {} /\ co'.live >= Cardinality(co'.tracked)
    BY <1>1, <1>3, <1>5, <1>6 DEF Swept
<1> QED
    BY <1>7, <1>8, <1>9, <1>10, <1>11 DEF NextSwept, Swept

LEMMA ClosePushSwept ==
    ASSUME OnStack, Swept(frames, threads, co), NEW f, ClosePush(f)
    PROVE  NextSwept
<1>1. /\ frames \in Seq(Frame) /\ Len(frames) \in Nat
      /\ co.tracked \cup co.left \in SUBSET Threads /\ CoTyped(co)
    BY StackIs, CoIs
<1>2. /\ frames' \in Seq(Frame) /\ Pushes(frames, frames', f) /\ f.kind = "closing"
      /\ threads' = threads
    BY DEF ClosePush, DoesPush, ClosingFrame
<1>3. Len(frames) > 0
    <2>1. LuaOnTop => Len(frames) > 0
        BY <1>1, LuaTop
    <2> QED
        BY <2>1 DEF ClosePush
<1>4. Swept(frames', threads, co)
    BY <1>1, <1>2, <1>3, SweptPush, Unmoved
<1>5. CASE co' = co
    BY <1>2, <1>4, <1>5 DEF NextSwept
<1>6. CASE f.who = "sweep" /\ f.on \in co.left /\ co' = [co EXCEPT !.left = co.left \ {f.on}]
    <2>1. PICK l : l = co.left \ {f.on}
        OBVIOUS
    <2>2. /\ co'.tracked = co.tracked /\ co'.left = l /\ co'.sweeping = co.sweeping
          /\ co'.live = co.live
        BY <1>1, <1>6, <2>1 DEF CoTyped
    <2>3. SweptIn(frames', f.on)
        BY <1>1, <1>2, <1>6 DEF SweptIn, Pushes
    <2>4. \A o \in Threads : threads[o].status \in Unswept =>
            o \in co'.tracked \cup co'.left \/ SweptIn(frames', o)
        BY <1>4, <2>1, <2>2, <2>3 DEF Swept
    <2> QED
        BY <1>2, <1>4, <2>1, <2>2, <2>4 DEF NextSwept, Swept
<1> QED
    BY <1>5, <1>6 DEF ClosePush

LEMMA EnteringSwept ==
    ASSUME OnStack, Swept(frames, threads, co), NEW f, Entering(f)
    PROVE  NextSwept
<1>1. /\ frames \in Seq(Frame) /\ Len(frames) \in Nat /\ Built(frames)
      /\ co.tracked \cup co.left \in SUBSET Threads
      /\ Counted(frames, inLua, inPhp, co.depth)
    BY StackIs, CoIs
<1>2. /\ frames' \in Seq(Frame) /\ Pushes(frames, frames', f) /\ f.kind = "call" /\ f.phase = "run"
      /\ KeepsErrors(threads, threads') /\ co' = co
      /\ \A t \in Threads : threads'[t].open = threads[t].open
    BY DEF Entering, DoesPush, CallFrame
<1>3. CASE Len(frames) > 0
    <2>1. frames[Len(frames)].kind \in {"callable", "backend"}
        BY <1>3 DEF Entering, Topmost
    <2>2. inLua # 0
        BY <1>1, <1>3, <2>1, HostIsUnderLua DEF Counted
    <2>3. \A t \in Threads : threads'[t].late = threads[t].late
        BY <2>2 DEF Entering
    <2>4. Follows(threads, threads') /\ SameTable(co, co)
        BY <1>2, <2>3 DEF Follows, KeepsErrors, SameTable
    <2> QED
        BY <1>1, <1>2, <1>3, <2>4, SweptPush DEF NextSwept
<1>4. CASE Len(frames) = 0
    <2>1. Len(frames') = 1 /\ frames'[1] = f
        BY <1>2, <1>4 DEF Pushes
    <2>2. ~Walking(frames) /\ ~Walking(frames') /\ ~Harvested(frames')
        BY <1>2, <1>4, <2>1 DEF Walking, Harvested
    <2>3. \A t \in Threads : ~SweptIn(frames, t)
        BY <1>4 DEF SweptIn
    <2>4. \A t \in Threads : threads'[t].status = threads[t].status
        BY <1>2 DEF KeepsErrors
    <2> QED
        BY <1>1, <1>2, <2>2, <2>3, <2>4 DEF NextSwept, Swept
<1> QED
    BY <1>1, <1>3, <1>4

LEMMA WalkOverSwept ==
    ASSUME OnStack, Quiet(frames, threads, err), Swept(frames, threads, co), NEW f, WalkOver(f)
    PROVE  NextSwept
<1>1. /\ frames \in Seq(Frame) /\ Built(frames) /\ Len(frames) \in Nat
      /\ threads \in [Threads -> ThreadState]
      /\ co.tracked \cup co.left \in SUBSET Threads /\ CoTyped(co)
    BY StackIs, CoIs
<1>2. /\ frames' \in Seq(Frame) /\ Retops(frames, frames', f) /\ threads' = threads
      /\ frames[Len(frames)].kind = "call" /\ frames[Len(frames)].phase = "walk"
      /\ f.kind = "call" /\ f.phase = "files"
    BY DEF WalkOver, Advancing, DoesRetop, Topmost, CallFrame
<1>3. Len(frames) = 1 /\ Len(frames') = 1 /\ frames'[1] = f
    BY <1>1, <1>2, WalkAlone DEF Retops
<1>4. /\ co'.tracked = co.tracked /\ co'.left = co.left /\ ~co'.sweeping /\ co'.live = 0
      /\ co.left = {}
    BY <1>1 DEF WalkOver, CoTyped
<1>5. Walking(frames)
    BY <1>2, <1>3 DEF Walking
<1>6. co.tracked = {}
    BY <1>5 DEF Swept
<1>7. \A t \in Threads : ~SweptIn(frames, t)
    BY <1>2, <1>3 DEF SweptIn
<1>8. \A t \in Threads : threads[t].status \notin Unswept
    BY <1>4, <1>6, <1>7 DEF Swept
<1>9. \A t \in Threads : threads[t].status \notin Resumable /\ ~threads[t].open
    <2>1. \A t \in Threads : threads[t].status \in {"dead", "unborn"}
        BY <1>1, <1>8 DEF Unswept, ThreadState
    <2> QED
        BY <2>1 DEF Quiet, Bodies, Resumable
<1>10. ~Walking(frames')
    BY <1>2, <1>3 DEF Walking
<1>11. Cardinality(co'.tracked) = 0
    BY <1>4, <1>6, FS_EmptySet
<1> QED
    BY <1>2, <1>4, <1>6, <1>8, <1>9, <1>10, <1>11 DEF NextSwept, Swept

LEMMA BodyOverSwept ==
    ASSUME OnStack, Quiet(frames, threads, err), Swept(frames, threads, co), NEW f, BodyOver(f)
    PROVE  NextSwept
<1>1. /\ frames \in Seq(Frame) /\ Built(frames) /\ Len(frames) \in Nat
      /\ threads \in [Threads -> ThreadState] /\ inLua \in Nat
      /\ co.tracked \cup co.left \in SUBSET Threads /\ CoTyped(co)
      /\ Counted(frames, inLua, inPhp, co.depth)
      /\ IsFiniteSet(co.tracked) /\ Cardinality(co.tracked) \in Nat /\ co.live \in Nat
    BY StackIs, CoIs
<1>2. /\ frames' \in Seq(Frame) /\ Retops(frames, frames', f) /\ threads' = threads
      /\ frames[Len(frames)].kind = "call" /\ frames[Len(frames)].phase = "run"
      /\ f.kind = "call" /\ Len(frames) > 0
    BY DEF BodyOver, Advancing, DoesRetop, Topmost, CallFrame, Retops
<1>3. CASE inLua # 1
    <2>1. Len(frames) # 1
        <3> SUFFICES ASSUME Len(frames) = 1 PROVE FALSE
            OBVIOUS
        <3>1. OpenCalls(frames) = {1}
            BY <1>2 DEF OpenCalls
        <3>2. Cardinality({1}) = 1
            BY FS_Singleton
        <3> QED
            BY <1>1, <1>3, <3>1, <3>2 DEF Counted
    <2>2. Len(frames) > 1
        <3>1. PICK n \in Nat : n = Len(frames) /\ n > 0 /\ n # 1
            BY <1>1, <1>2, <2>1
        <3>2. n > 1
            BY <3>1
        <3> QED
            BY <3>1, <3>2
    <2>3. co' = co
        BY <1>3 DEF BodyOver
    <2> QED
        BY <1>1, <1>2, <2>2, <2>3, SweptRetop DEF NextSwept
<1>4. CASE inLua = 1
    <2>1. Len(frames) = 1 /\ Len(frames') = 1 /\ frames'[1] = f
        BY <1>1, <1>2, <1>4, OnlyEntry DEF Counted, Retops
    <2>2. ~Walking(frames) /\ \A t \in Threads : ~SweptIn(frames, t)
        BY <1>2, <2>1 DEF SweptIn, Walking
    <2>3. ~co.sweeping /\ co.left = {} /\ co.live >= Cardinality(co.tracked)
        BY <2>2 DEF Swept
    <2>4. \A t \in Threads : threads[t].status \in Unswept => t \in co.tracked
        BY <2>2, <2>3 DEF Swept
    <2>5. CASE co.live = 0
        <3>1. f.phase = "files" /\ co' = co
            BY <1>4, <2>5 DEF BodyOver
        <3>2. Cardinality(co.tracked) = 0
            BY <1>1, <2>3, <2>5
        <3>3. co.tracked = {}
            BY <1>1, <3>2, FS_EmptySet
        <3>4. \A t \in Threads : threads[t].status \in {"dead", "unborn"}
            BY <1>1, <2>4, <3>3 DEF Unswept, ThreadState
        <3>5. \A t \in Threads : threads[t].status \notin Resumable /\ ~threads[t].open
            BY <3>4 DEF Quiet, Bodies, Resumable
        <3>6. ~Walking(frames')
            BY <1>2, <2>1, <3>1 DEF Walking
        <3>7. \A t \in Threads : threads[t].status \notin Unswept
            BY <3>4 DEF Unswept
        <3> QED
            BY <1>2, <2>3, <3>1, <3>3, <3>5, <3>6, <3>7 DEF NextSwept, Swept
    <2>6. CASE co.live # 0
        <3>1. /\ f.phase = "walk"
              /\ co' = [co EXCEPT !.sweeping = TRUE, !.left = co.tracked, !.tracked = {}]
            BY <1>4, <2>6 DEF BodyOver
        <3>2. co'.sweeping /\ co'.left = co.tracked /\ co'.tracked = {}
            BY <1>1, <3>1 DEF CoTyped
        <3>3. Walking(frames') /\ ~Harvested(frames')
            BY <1>2, <2>1, <3>1 DEF Walking, Harvested
        <3>4. NoCreate(frames')
            BY <1>2, <2>1 DEF NoCreate
        <3>5. \A t \in co.tracked : threads[t].status # "unborn"
            BY DEF Swept
        <3> QED
            BY <1>2, <2>4, <3>2, <3>3, <3>4, <3>5 DEF NextSwept, Swept
    <2> QED
        BY <2>5, <2>6
<1> QED
    BY <1>3, <1>4

LEMMA StepSwept ==
    ASSUME OnStack, Assumed, Quiet(frames, threads, err), Swept(frames, threads, co),
           [CallsNext]_callsVars
    PROVE  NextSwept
<1>1. StepKinds
    BY StepIs
<1>2. CASE Resting \/ Throwing \/ Popping \/ PopThrowing \/ Unwinding
    BY <1>2, RestingSwept, ThrowingSwept, PoppedSwept, PopThrowingSwept
<1>3. CASE HandlerBack \/ HandlerLost \/ Settled
    BY <1>3, PoppedSwept, HandlerLostSwept, SettledSwept
<1>4. ASSUME NEW f, \/ Pushing(f) \/ Skipping(f) \/ Making(f) \/ ClosePush(f) \/ Entering(f)
                    \/ BodyOver(f) \/ WalkOver(f) \/ FilesOver(f) \/ Leaving(f)
      PROVE  NextSwept
    BY <1>4, PushingSwept, RetoppedSwept, MakingSwept, ClosePushSwept, EnteringSwept,
       BodyOverSwept, WalkOverSwept
<1>5. ASSUME NEW f, NEW h, Handling(f, h)
      PROVE  NextSwept
    BY <1>5, HandlingSwept
<1>6. ASSUME NEW t, Collected(t)
      PROVE  NextSwept
    BY <1>6, CollectedSwept
<1>7. ASSUME NEW q, Back(q) \/ Heard(q) \/ Over(q)
      PROVE  NextSwept
    BY <1>7, BackSwept, HeardSwept, OverSwept
<1>8. ASSUME NEW t, NEW q, Created(t, q) \/ Started(t, q) \/ ScopeEnds(t, q) \/ WrapBroken(t, q)
      PROVE  NextSwept
    BY <1>8, CreatedSwept, StartedSwept, ScopeEndsSwept, WrapBrokenSwept
<1>9. ASSUME NEW us, NEW f, NEW q, SelfOver(us, f, q)
      PROVE  NextSwept
    BY <1>9, SelfOverSwept
<1> QED
    BY <1>1, <1>2, <1>3, <1>4, <1>5, <1>6, <1>7, <1>8, <1>9 DEF StepKinds

--------------------------------------------------------------------------------
(* The sweep.                                                                   *)

CallsHold ==
    /\ OnStack /\ Quiet(frames, threads, err) /\ Swept(frames, threads, co)

LEMMA CallsHoldInit ==
    ASSUME CallsInit
    PROVE  CallsHold
<1>1. OnStack
    BY OnStackInit
<1>2. /\ frames = <<>> /\ err = None
      /\ threads = [t \in Threads |-> BlankThread]
      /\ co = [live |-> 0, depth |-> 0, sweeping |-> FALSE, tracked |-> {}, left |-> {}]
    BY DEF CallsInit
<1>3. \A t \in Threads : threads[t].status = "unborn" /\ ~threads[t].open /\ threads[t].err = None
    BY <1>2 DEF BlankThread
<1>4. Len(frames) = 0 /\ frames \in Seq(Frame) /\ Built(frames)
    BY <1>1, <1>2, StackIs
<1>5. 1 .. 0 = {}
    OBVIOUS
<1>6. Bodies(frames, threads)
    BY <1>3, <1>4, <1>5 DEF Bodies
<1>7. Clear(frames, threads, err)
    BY <1>3 DEF Clear
<1>8. co.tracked = {} /\ co.left = {} /\ ~co.sweeping /\ co.live = 0
    BY <1>2
<1>9. Cardinality({}) = 0
    BY FS_EmptySet
<1>10. ~Walking(frames)
    BY <1>4 DEF Walking
<1>11. Swept(frames, threads, co)
    BY <1>3, <1>8, <1>9, <1>10 DEF Swept, Unswept, Resumable
<1> QED
    BY <1>1, <1>4, <1>6, <1>7, <1>11 DEF CallsHold, Quiet

LEMMA CallsHoldStep ==
    ASSUME CallsHold, Assumed, [CallsNext]_callsVars
    PROVE  CallsHold'
<1>1. OnStack /\ Quiet(frames, threads, err) /\ Swept(frames, threads, co)
    BY DEF CallsHold
<1>2. Known(threads, co)
    BY <1>1 DEF Swept, Known
<1>3. OnStack'
    BY <1>1, OnStackStep
<1>4. NextStack
    BY <1>1, StepStacked
<1>5. frames' \in Seq(Frame) /\ Built(frames')
    BY <1>4 DEF NextStack, Stacked
<1>6. NextQuiet
    BY <1>1, <1>2, StepQuiet
<1>7. NextSwept
    BY <1>1, StepSwept
<1>8. Quiet(frames', threads', err')
    BY <1>5, <1>6 DEF NextQuiet, Quiet
<1> QED
    BY <1>3, <1>7, <1>8 DEF CallsHold, NextSwept

LEMMA CallsHolds ==
    ASSUME SettleCallsHost = FALSE
    PROVE  CallsSpec => []CallsHold
<1>1. Assumed
    BY DEF Assumed
<1>2. CallsInit => CallsHold
    BY CallsHoldInit
<1>3. CallsHold /\ [CallsNext]_callsVars => CallsHold'
    BY <1>1, CallsHoldStep
<1> QED
    BY <1>2, <1>3, PTL DEF CallsSpec

(* When an outermost entry has swept its coroutines, none of that entry's can   *)
(* be resumed or has a scope open, whatever the handlers the sweep ran did.     *)
THEOREM SweepLeavesNothingOpen ==
    ASSUME SettleCallsHost = FALSE
    PROVE  CallsSpec => []SweepLeavesNothing
<1>1. CallsSpec => []CallsHold
    BY CallsHolds
<1>2. CallsHold => SweepLeavesNothing
    <2> SUFFICES ASSUME CallsHold PROVE SweepLeavesNothing
        OBVIOUS
    <2>1. frames \in Seq(Frame) /\ Built(frames) /\ Swept(frames, threads, co)
        BY StackIs DEF CallsHold
    <2>2. Outermost(frames) = IF Len(frames) = 0 THEN 0 ELSE 1
        BY <2>1, OutermostIs
    <2>3. ASSUME Outermost(frames) = 0
                 \/ frames[Outermost(frames)].phase \in {"files", "sample", "settle"}
          PROVE  Harvested(frames)
        BY <2>1, <2>2, <2>3 DEF Harvested
    <2>4. Harvested(frames) => \A t \in Threads :
            threads[t].status \in Resumable \/ threads[t].open => threads[t].late
        BY <2>1 DEF Swept
    <2> QED
        BY <2>3, <2>4 DEF SweepLeavesNothing, Resumable
<1> QED
    BY <1>1, <1>2, PTL

--------------------------------------------------------------------------------
(* The population.  A creation that may go ahead saw less than the cap; the one *)
(* finaliser that can run above it may have made one thread since.              *)

Living(ts)     == {t \in Threads : ts[t].status \in Resumable}
Population(ts) == Cardinality(Living(ts))
Makes(f)       == f.kind = "create" /\ f.phase = "make"

Capped(fs, ts) ==
    /\ \A i, j \in 1 .. Len(fs) : fs[i].kind = "gc" /\ fs[j].kind = "gc" => i = j
    /\ Population(ts) <= MaxLive + 1
    /\ \A i \in 1 .. Len(fs) : Makes(fs[i]) => Population(ts) <= MaxLive
    /\ Len(fs) > 0 /\ Makes(fs[Len(fs)]) /\ (\E j \in 1 .. Len(fs) : fs[j].kind = "gc") =>
        Population(ts) < MaxLive

NextCapped == Capped(frames', threads')

Fewer(ts, us) == Living(us) \subseteq Living(ts)

LEMMA LivingIs ==
    ASSUME NEW ts
    PROVE  IsFiniteSet(Living(ts)) /\ Population(ts) \in Nat
<1>1. Living(ts) \in SUBSET Threads
    BY DEF Living
<1>2. IsFiniteSet(Living(ts))
    BY <1>1, CallsAssumption, FS_Subset
<1> QED
    BY <1>2, FS_CardinalityType DEF Population

LEMMA FewerLive ==
    ASSUME NEW ts, NEW us, Fewer(ts, us)
    PROVE  Population(us) <= Population(ts) /\ Population(us) \in Nat /\ Population(ts) \in Nat
BY LivingIs, FS_Subset DEF Population, Fewer

LEMMA CappedThreads ==
    ASSUME NEW fs, NEW ts, NEW us, Capped(fs, ts), Fewer(ts, us)
    PROVE  Capped(fs, us)
<1>1. Population(us) <= Population(ts) /\ Population(us) \in Nat /\ Population(ts) \in Nat
    BY FewerLive
<1>2. MaxLive \in Nat
    BY CallsAssumption
<1>3. /\ Population(us) <= MaxLive + 1
      /\ Population(ts) <= MaxLive => Population(us) <= MaxLive
      /\ Population(ts) < MaxLive => Population(us) < MaxLive
    BY <1>1, <1>2 DEF Capped
<1> QED
    BY <1>3 DEF Capped

LEMMA CappedPush ==
    ASSUME NEW fs \in Seq(Frame), NEW gs \in Seq(Frame), NEW f, Pushes(fs, gs, f),
           NEW ts, Capped(fs, ts),
           f.kind = "gc" => \A i \in 1 .. Len(fs) : fs[i].kind # "gc",
           Makes(f) => Population(ts) < MaxLive
    PROVE  Capped(gs, ts)
<1>1. PICK n \in Nat : Len(fs) = n
    OBVIOUS
<1>2. Len(gs) = n + 1 /\ gs[n + 1] = f /\ \A i \in 1 .. n : gs[i] = fs[i]
    BY <1>1 DEF Pushes
<1>3. \A i : i \in 1 .. n + 1 <=> i \in 1 .. n \/ i = n + 1
    OBVIOUS
<1>4. Population(ts) \in Nat /\ MaxLive \in Nat
    BY LivingIs, CallsAssumption
<1>5. \A i, j \in 1 .. n + 1 : gs[i].kind = "gc" /\ gs[j].kind = "gc" => i = j
    BY <1>1, <1>2, <1>3 DEF Capped
<1>6. \A i \in 1 .. n + 1 : Makes(gs[i]) => Population(ts) <= MaxLive
    BY <1>1, <1>2, <1>3, <1>4 DEF Capped
<1> QED
    BY <1>2, <1>5, <1>6 DEF Capped

LEMMA CappedPop ==
    ASSUME NEW fs \in Seq(Frame), NEW gs \in Seq(Frame), Pops(fs, gs), Built(fs),
           NEW ts, Capped(fs, ts)
    PROVE  Capped(gs, ts)
<1>1. PICK n \in Nat : Len(gs) = n /\ Len(fs) = n + 1 /\ \A i \in 1 .. n : gs[i] = fs[i]
    BY DEF Pops
<1>2. \A i \in 1 .. n : i \in 1 .. n + 1
    OBVIOUS
<1>3. \A i, j \in 1 .. n : gs[i].kind = "gc" /\ gs[j].kind = "gc" => i = j
    BY <1>1, <1>2 DEF Capped
<1>4. \A i \in 1 .. n : Makes(gs[i]) => Population(ts) <= MaxLive
    BY <1>1, <1>2 DEF Capped
<1>5. ASSUME n > 0, Makes(gs[n]), NEW j \in 1 .. n, gs[j].kind = "gc" PROVE FALSE
    <2>1. fs[n].kind = "create" /\ n \in 1 .. n + 1 /\ n + 1 \in 1 .. n + 1
        BY <1>1, <1>5 DEF Makes
    <2>2. fs[n + 1].kind = "gc"
        BY <1>1, <2>1 DEF Built, Seat
    <2>3. fs[j].kind = "gc" /\ j \in 1 .. n + 1 /\ j # n + 1
        BY <1>1, <1>5
    <2> QED
        BY <1>1, <2>1, <2>2, <2>3 DEF Capped
<1> QED
    BY <1>1, <1>3, <1>4, <1>5 DEF Capped

LEMMA CappedLike ==
    ASSUME NEW fs \in Seq(Frame), NEW gs \in Seq(Frame), Likes(fs, gs), NEW ts, Capped(fs, ts)
    PROVE  Capped(gs, ts)
<1>1. PICK n \in Nat : Len(gs) = n /\ Len(fs) = n
    BY DEF Likes
<1>2. \A i \in 1 .. n : gs[i] = fs[i] \/ (fs[i].kind = "call" /\ gs[i].kind = "call")
    BY <1>1 DEF Likes, SameCall
<1>3. \A i \in 1 .. n : (Makes(gs[i]) <=> Makes(fs[i])) /\ (gs[i].kind = "gc" <=> fs[i].kind = "gc")
    BY <1>2 DEF Makes
<1>4. \A i, j \in 1 .. n : gs[i].kind = "gc" /\ gs[j].kind = "gc" => i = j
    BY <1>1, <1>3 DEF Capped
<1>5. \A i \in 1 .. n : Makes(gs[i]) => Population(ts) <= MaxLive
    BY <1>1, <1>3 DEF Capped
<1>6. n > 0 /\ Makes(gs[n]) /\ (\E j \in 1 .. n : gs[j].kind = "gc") => Population(ts) < MaxLive
    BY <1>1, <1>3 DEF Capped
<1> QED
    BY <1>1, <1>4, <1>5, <1>6 DEF Capped

LEMMA CappedRetop ==
    ASSUME NEW fs \in Seq(Frame), fs # <<>>, NEW f \in Frame, NEW gs, gs = Append(Front(fs), f),
           Built(fs), NEW ts, Capped(fs, ts), f.kind # "gc", Makes(f) => Population(ts) < MaxLive
    PROVE  gs \in Seq(Frame) /\ Capped(gs, ts)
<1>1. PICK us \in Seq(Frame) : us = Front(fs) /\ Pops(fs, us)
    BY Popped
<1>2. Capped(us, ts)
    BY <1>1, CappedPop
<1>3. gs \in Seq(Frame) /\ Pushes(us, gs, f)
    BY <1>1, Pushed
<1> QED
    BY <1>2, <1>3, CappedPush

\* Outside a sweep every thread that can be resumed is in the table.
LEMMA LivingTracked ==
    ASSUME NEW fs \in Seq(Frame), Built(fs), NEW ts, NEW c, Swept(fs, ts, c), ~c.sweeping
    PROVE  Living(ts) \subseteq c.tracked
<1>1. ~Walking(fs) /\ c.left = {}
    BY DEF Swept
<1>2. ASSUME NEW i \in 1 .. Len(fs), fs[i].kind = "closing" PROVE fs[i].who # "sweep"
    <2>1. PICK n \in Nat : Len(fs) = n /\ n > 0
        OBVIOUS
    <2>2. fs[i].who = "sweep" => fs[1].kind = "call" /\ fs[1].phase = "walk"
        BY <1>2 DEF Built, Seat
    <2> QED
        BY <1>1, <2>1, <2>2 DEF Walking
<1>3. \A t : ~SweptIn(fs, t)
    BY <1>2 DEF SweptIn
<1> QED
    BY <1>1, <1>3 DEF Swept, Living, Unswept, Resumable

LEMMA CreatingOutsideSweep ==
    ASSUME NEW fs \in Seq(Frame), NEW ts, NEW c, Swept(fs, ts, c),
           NEW i \in 1 .. Len(fs), fs[i].kind = "create"
    PROVE  ~c.sweeping
BY DEF Swept, NoCreate

LEMMA PushingCapped ==
    ASSUME OnStack, Swept(frames, threads, co), Capped(frames, threads), NEW f, Pushing(f)
    PROVE  NextCapped
<1>1. /\ frames \in Seq(Frame) /\ Built(frames) /\ IsFiniteSet(co.tracked)
      /\ Cardinality(co.tracked) \in Nat /\ co.live \in Nat
    BY StackIs, CoIs
<1>2. frames' \in Seq(Frame) /\ Pushes(frames, frames', f) /\ threads' = threads
    BY DEF Pushing, DoesPush
<1>3. f.kind = "gc" => \A i \in 1 .. Len(frames) : frames[i].kind # "gc"
    <2>1. f.kind = "gc" => ~Collecting
        BY DEF Pushing, MayPush
    <2> QED
        BY <1>1, <2>1 DEF Collecting
<1>4. Makes(f) => Population(threads) < MaxLive
    <2> SUFFICES ASSUME Makes(f) PROVE Population(threads) < MaxLive
        OBVIOUS
    <2>1. ~co.sweeping /\ co.live < MaxLive
        BY DEF Pushing, MayPush, Makes
    <2>2. Living(threads) \subseteq co.tracked
        BY <1>1, <2>1, LivingTracked
    <2>3. co.live >= Cardinality(co.tracked)
        BY <2>1 DEF Swept
    <2>4. Population(threads) <= Cardinality(co.tracked) /\ Population(threads) \in Nat
        BY <1>1, <2>2, FS_Subset, LivingIs DEF Population
    <2>5. MaxLive \in Nat
        BY CallsAssumption
    <2> QED
        BY <1>1, <2>1, <2>3, <2>4, <2>5
<1> QED
    BY <1>1, <1>2, <1>3, <1>4, CappedPush DEF NextCapped

LEMMA MakingCapped ==
    ASSUME OnStack, Swept(frames, threads, co), Capped(frames, threads), NEW f, Making(f)
    PROVE  NextCapped
<1>1. /\ frames \in Seq(Frame) /\ Built(frames) /\ IsFiniteSet(co.tracked) /\ Len(frames) \in Nat
    BY StackIs, CoIs
<1>2. /\ frames # <<>> /\ f \in Frame /\ frames' = Append(Front(frames), f) /\ threads' = threads
      /\ f.kind = "create" /\ frames[Len(frames)].kind = "create" /\ Len(frames) > 0
    BY DEF Making, DoesRetop, Topmost, Retops
<1>3. ~co.sweeping
    BY <1>1, <1>2, CreatingOutsideSweep
<1>4. Living(threads) \subseteq co.tracked
    BY <1>1, <1>3, LivingTracked
<1>5. PICK alive : alive = {t \in co.tracked : TRUE => Alive(t)}
    OBVIOUS
<1>6. Living(threads) \subseteq alive /\ alive \subseteq co.tracked
    BY <1>4, <1>5 DEF Living, Alive, Unfinished, Resumable
<1>7. Count(TRUE) = Cardinality(alive)
    BY <1>5 DEF Count
<1>8. IsFiniteSet(alive) /\ Population(threads) <= Cardinality(alive)
    BY <1>1, <1>6, FS_Subset DEF Population
<1>9. Cardinality(alive) < MaxLive
    <2>1. Count(TRUE) < MaxLive
        BY Zenon DEF Making
    <2> QED
        BY <1>7, <2>1, Zenon
<1>10. Population(threads) < MaxLive
    <2>1. Population(threads) \in Nat /\ Cardinality(alive) \in Nat /\ MaxLive \in Nat
        BY <1>8, LivingIs, FS_CardinalityType, CallsAssumption
    <2> QED
        BY <1>8, <1>9, <2>1
<1> QED
    BY <1>1, <1>2, <1>10, CappedRetop DEF NextCapped

LEMMA CreatedCapped ==
    ASSUME OnStack, Capped(frames, threads), NEW t, NEW q, Created(t, q)
    PROVE  NextCapped
<1>1. frames \in Seq(Frame) /\ Built(frames)
    BY StackIs
<1>2. /\ frames' \in Seq(Frame) /\ Pops(frames, frames') /\ Makes(frames[Len(frames)])
      /\ OnlyChanges(threads, threads', t) /\ t \in Threads
    BY DEF Created, DoesPop, Topmost, ThreadSet, Makes
<1>3. PICK n \in Nat : Len(frames) = n + 1 /\ Len(frames') = n /\ \A i \in 1 .. n : frames'[i] = frames[i]
    BY <1>2 DEF Pops
<1>4. PICK p \in Nat : p = Population(threads)
    BY LivingIs
<1>5. PICK r \in Nat : r = Population(threads')
    BY LivingIs
<1>6. r <= p + 1
    <2>1. Living(threads') \subseteq Living(threads) \cup {t}
        BY <1>2 DEF Living, OnlyChanges
    <2>2. IsFiniteSet(Living(threads)) /\ p = Cardinality(Living(threads))
        BY <1>4, LivingIs DEF Population
    <2>3. /\ IsFiniteSet(Living(threads) \cup {t})
          /\ Cardinality(Living(threads) \cup {t}) =
                IF t \in Living(threads) THEN p ELSE p + 1
        BY <2>2, FS_AddElement
    <2>4. r <= Cardinality(Living(threads) \cup {t})
        BY <1>5, <2>1, <2>3, FS_Subset DEF Population
    <2> QED
        BY <2>3, <2>4
<1>7. MaxLive \in Nat /\ p <= MaxLive
    <2>1. n + 1 \in 1 .. n + 1
        OBVIOUS
    <2> QED
        BY <1>2, <1>3, <1>4, <2>1, CallsAssumption DEF Capped
<1>8. Capped(frames', threads)
    BY <1>1, <1>2, CappedPop
<1>9. CASE \E j \in 1 .. n : frames'[j].kind = "gc"
    <2>1. PICK j \in 1 .. n : frames'[j].kind = "gc"
        BY <1>9
    <2>2. j \in 1 .. n + 1 /\ frames[j].kind = "gc"
        BY <1>3, <2>1
    <2>3. p < MaxLive
        BY <1>2, <1>3, <1>4, <2>2 DEF Capped
    <2>4. r <= MaxLive
        BY <1>6, <1>7, <2>3
    <2>5. ~(n > 0 /\ Makes(frames'[n]))
        <3> SUFFICES ASSUME n > 0, Makes(frames'[n]) PROVE FALSE
            OBVIOUS
        <3>1. frames[n].kind = "create" /\ n \in 1 .. n + 1
            BY <1>3 DEF Makes
        <3>2. frames[n + 1].kind = "gc"
            BY <1>1, <1>3, <3>1 DEF Built, Seat
        <3> QED
            BY <1>2, <1>3, <3>2 DEF Makes
    <2>6. r <= MaxLive + 1
        BY <1>7, <2>4
    <2> QED
        BY <1>3, <1>5, <1>8, <2>4, <2>5, <2>6 DEF NextCapped, Capped
<1>10. CASE \A j \in 1 .. n : frames'[j].kind # "gc"
    <2>1. ASSUME NEW i \in 1 .. n, frames'[i].kind = "create" PROVE FALSE
        <3>1. frames[i].kind = "create" /\ i \in 1 .. n + 1 /\ i < n + 1
            BY <1>3, <2>1
        <3>2. frames[i + 1].kind = "gc"
            BY <1>1, <1>3, <3>1 DEF Built, Seat
        <3>3. i + 1 # n + 1
            BY <1>2, <1>3, <3>2 DEF Makes
        <3>4. i + 1 \in 1 .. n
            BY <3>1, <3>3
        <3> QED
            BY <1>3, <1>10, <3>2, <3>4
    <2>2. \A i \in 1 .. n : ~Makes(frames'[i])
        BY <2>1 DEF Makes
    <2>3. r <= MaxLive + 1
        BY <1>6, <1>7
    <2>4. n > 0 => n \in 1 .. n
        OBVIOUS
    <2> QED
        BY <1>3, <1>5, <1>8, <2>2, <2>3, <2>4 DEF NextCapped, Capped
<1> QED
    BY <1>9, <1>10

LEMMA LikedCapped ==
    ASSUME OnStack, Capped(frames, threads), Resting \/ Throwing
    PROVE  NextCapped
<1>1. frames \in Seq(Frame)
    BY StackIs
<1>2. CASE Resting
    BY <1>2 DEF Resting, NextCapped
<1>3. CASE Throwing
    <2>1. frames' \in Seq(Frame) /\ Likes(frames, frames') /\ threads' = threads
        BY <1>1, <1>3, OwingIs DEF Throwing
    <2> QED
        BY <1>1, <2>1, CappedLike DEF NextCapped
<1> QED
    BY <1>2, <1>3

LEMMA PoppedCapped ==
    ASSUME OnStack, Capped(frames, threads), Popping \/ Unwinding \/ HandlerBack \/ Settled
    PROVE  NextCapped
<1>1. frames \in Seq(Frame) /\ Built(frames)
    BY StackIs
<1>2. frames' \in Seq(Frame) /\ Pops(frames, frames') /\ threads' = threads
    BY DEF Popping, Unwinding, HandlerBack, Settled, DoesPop
<1> QED
    BY <1>1, <1>2, CappedPop DEF NextCapped

LEMMA PopLikedCapped ==
    ASSUME OnStack, Capped(frames, threads), PopThrowing \/ HandlerLost
    PROVE  NextCapped
<1>1. frames \in Seq(Frame) /\ Built(frames) /\ frames # <<>> /\ threads' = threads
    BY StackIs DEF PopThrowing, HandlerLost
<1>2. PICK us \in Seq(Frame) : us = Front(frames) /\ Pops(frames, us)
    BY <1>1, Popped
<1>3. frames' \in Seq(Frame) /\ Likes(us, frames')
    <2>1. CASE PopThrowing
        BY <1>2, <2>1, OwingIs DEF PopThrowing
    <2>2. CASE HandlerLost
        BY <1>2, <2>2, ForgivingIs DEF HandlerLost
    <2> QED
        BY <2>1, <2>2
<1>4. Capped(us, threads)
    BY <1>1, <1>2, CappedPop
<1> QED
    BY <1>1, <1>3, <1>4, CappedLike DEF NextCapped

LEMMA RetoppedCapped ==
    ASSUME OnStack, Capped(frames, threads), NEW f,
           Skipping(f) \/ BodyOver(f) \/ WalkOver(f) \/ FilesOver(f) \/ Leaving(f)
    PROVE  NextCapped
<1>1. frames \in Seq(Frame) /\ Built(frames)
    BY StackIs
<1>2. /\ frames # <<>> /\ f \in Frame /\ frames' = Append(Front(frames), f) /\ threads' = threads
      /\ f.kind \notin {"gc", "create"}
    BY DEF Skipping, BodyOver, WalkOver, FilesOver, Leaving, Advancing, DoesRetop, CallFrame
<1> QED
    BY <1>1, <1>2, CappedRetop DEF NextCapped, Makes

LEMMA HandlingCapped ==
    ASSUME OnStack, Capped(frames, threads), NEW f, NEW h, Handling(f, h)
    PROVE  NextCapped
<1>1. /\ frames \in Seq(Frame) /\ Built(frames) /\ frames # <<>> /\ f \in Frame /\ h \in Frame
      /\ f.kind \notin {"gc", "create"} /\ h.kind = "handler"
    BY StackIs DEF Handling, SameBut
<1>2. PICK us : us = Append(Front(frames), f)
    OBVIOUS
<1>3. us \in Seq(Frame) /\ Capped(us, threads)
    BY <1>1, <1>2, CappedRetop DEF Makes
<1>4. frames' \in Seq(Frame) /\ Pushes(us, frames', h) /\ threads' = threads
    BY <1>1, <1>2, <1>3, Pushed DEF Handling
<1> QED
    BY <1>1, <1>3, <1>4, CappedPush DEF NextCapped, Makes

LEMMA EnteringCapped ==
    ASSUME OnStack, Capped(frames, threads), NEW f, Entering(f)
    PROVE  NextCapped
<1>1. frames \in Seq(Frame)
    BY StackIs
<1>2. /\ frames' \in Seq(Frame) /\ Pushes(frames, frames', f) /\ f.kind = "call"
      /\ KeepsErrors(threads, threads')
    BY DEF Entering, DoesPush, CallFrame
<1>3. Capped(frames', threads)
    BY <1>1, <1>2, CappedPush DEF Makes
<1>4. Fewer(threads, threads')
    BY <1>2 DEF Fewer, Living, KeepsErrors
<1> QED
    BY <1>3, <1>4, CappedThreads DEF NextCapped

LEMMA ThreadPushCapped ==
    ASSUME OnStack, Capped(frames, threads), NEW f, NEW q,
           Started(f, q) \/ ScopeEnds(f, q) \/ ClosePush(f)
    PROVE  NextCapped
<1>1. frames \in Seq(Frame) /\ threads \in [Threads -> ThreadState]
    BY StackIs
<1>2. /\ frames' \in Seq(Frame) /\ Pushes(frames, frames', f)
      /\ f.kind \in {"resume", "wrap", "closing", "handler"}
    BY DEF Started, ScopeEnds, ClosePush, DoesPush, ResumeFrame, ClosingFrame
<1>3. Capped(frames', threads)
    BY <1>1, <1>2, CappedPush DEF Makes
<1>4. Fewer(threads, threads')
    <2>1. CASE Started(f, q)
        BY <2>1 DEF Started, ThreadSet, OnlyChanges, Fewer, Living, Resumable
    <2>2. CASE ScopeEnds(f, q)
        <3>1. PICK t \in Threads : t = Topmost.on
            BY <2>2 DEF ScopeEnds, ThreadSet
        <3>2. OnlyChanges(threads, threads', t) /\ threads'[t] = [threads[t] EXCEPT !.open = FALSE]
            BY <2>2, <3>1 DEF ScopeEnds, ThreadSet
        <3>3. threads'[t].status = threads[t].status
            BY <1>1, <3>2 DEF ThreadState
        <3> QED
            BY <3>2, <3>3 DEF OnlyChanges, Fewer, Living
    <2>3. CASE ClosePush(f)
        BY <2>3 DEF ClosePush, Fewer
    <2> QED
        BY <2>1, <2>2, <2>3
<1> QED
    BY <1>3, <1>4, CappedThreads DEF NextCapped

LEMMA BackCapped ==
    ASSUME OnStack, Quiet(frames, threads, err), Capped(frames, threads), NEW q, Back(q)
    PROVE  NextCapped
<1>1. frames \in Seq(Frame) /\ Built(frames)
    BY StackIs
<1>2. PICK t : t = frames[Len(frames)].on
    OBVIOUS
<1>3. /\ frames' \in Seq(Frame) /\ Pops(frames, frames') /\ Len(frames) > 0
      /\ frames[Len(frames)].kind \in {"resume", "wrap"}
      /\ OnlyChanges(threads, threads', t)
    BY <1>2 DEF Back, DoesPop, Topmost, ResumeFrame, Pops, ThreadSet
<1>4. threads[t].status = "active"
    BY <1>1, <1>2, <1>3, ResumedOpen DEF Quiet
<1>5. Fewer(threads, threads')
    BY <1>3, <1>4 DEF Fewer, Living, OnlyChanges, Resumable
<1>6. Capped(frames', threads)
    BY <1>1, <1>3, CappedPop
<1> QED
    BY <1>5, <1>6, CappedThreads DEF NextCapped

LEMMA WrapBrokenCapped ==
    ASSUME OnStack, Capped(frames, threads), NEW f, NEW q, WrapBroken(f, q)
    PROVE  NextCapped
<1>1. frames \in Seq(Frame) /\ Built(frames) /\ threads \in [Threads -> ThreadState]
    BY StackIs
<1>2. PICK t \in Threads : t = f.on
    BY DEF WrapBroken, ThreadSet
<1>3. /\ frames # <<>> /\ f \in Frame /\ frames' = Append(Front(frames), f) /\ f.kind = "closing"
      /\ OnlyChanges(threads, threads', t)
      /\ threads'[t] = [threads[t] EXCEPT !.status = "failed", !.err = err]
    BY <1>2 DEF WrapBroken, DoesRetop, ClosingFrame, ThreadSet
<1>4. threads'[t].status = "failed"
    BY <1>1, <1>3 DEF ThreadState
<1>5. Fewer(threads, threads')
    BY <1>3, <1>4 DEF Fewer, Living, OnlyChanges, Resumable
<1>6. Capped(frames', threads)
    BY <1>1, <1>3, CappedRetop DEF Makes
<1> QED
    BY <1>5, <1>6, CappedThreads DEF NextCapped

LEMMA HeardCapped ==
    ASSUME OnStack, Capped(frames, threads), NEW q, Heard(q)
    PROVE  NextCapped
<1>1. threads \in [Threads -> ThreadState]
    BY StackIs
<1>2. PICK t \in Threads : t = Topmost.on
    BY DEF Heard, ThreadSet
<1>3. /\ frames' = frames /\ OnlyChanges(threads, threads', t)
      /\ threads'[t] = [threads[t] EXCEPT !.err = err]
    BY <1>2 DEF Heard, ThreadSet
<1>4. threads'[t].status = threads[t].status
    BY <1>1, <1>3 DEF ThreadState
<1>5. Fewer(threads, threads')
    BY <1>3, <1>4 DEF Fewer, Living, OnlyChanges
<1> QED
    BY <1>3, <1>5, CappedThreads DEF NextCapped

LEMMA CollectedCapped ==
    ASSUME OnStack, Capped(frames, threads), NEW t, Collected(t)
    PROVE  NextCapped
<1>1. /\ frames' = frames /\ OnlyChanges(threads, threads', t)
      /\ threads'[t].status = "unborn"
    BY DEF Collected, ThreadSet, BlankThread
<1>2. Fewer(threads, threads')
    BY <1>1 DEF Fewer, Living, OnlyChanges, Resumable
<1> QED
    BY <1>1, <1>2, CappedThreads DEF NextCapped

LEMMA OverCapped ==
    ASSUME OnStack, Capped(frames, threads), NEW q, Over(q)
    PROVE  NextCapped
<1>1. /\ frames \in Seq(Frame) /\ Built(frames) /\ frames # <<>>
      /\ threads \in [Threads -> ThreadState]
    BY StackIs DEF Over
<1>2. PICK t \in Threads : t = Topmost.on
    BY DEF Over, ThreadSet
<1>3. PICK us \in Seq(Frame) : us = Front(frames) /\ Pops(frames, us)
    BY <1>1, Popped
<1>4. /\ OnlyChanges(threads, threads', t)
      /\ threads'[t] = [threads[t] EXCEPT !.status = "dead", !.err = None]
    BY <1>2 DEF Over, ThreadSet
<1>5. threads'[t].status = "dead"
    BY <1>1, <1>4 DEF ThreadState
<1>6. Fewer(threads, threads')
    BY <1>4, <1>5 DEF Fewer, Living, OnlyChanges, Resumable
<1>7. Capped(us, threads')
    BY <1>1, <1>3, <1>6, CappedPop, CappedThreads
<1>8. threads[t].err \in Errors \cup {None}
    BY <1>1, <1>2 DEF ThreadState
<1>9. frames' = us \/ (Kept(threads[t].err) \in Errors /\ frames' = Owing(us, Kept(threads[t].err)))
    <2>1. threads[t].err = None => Kept(threads[t].err) = None
        BY CallsAssumption DEF Kept, IsFatal, Errors
    <2>2. Kept(threads[t].err) \in Errors \cup {None}
        BY <1>8, <2>1, ThrownType
    <2> QED
        BY <1>2, <1>3, <2>2 DEF Over
<1>10. CASE frames' = us
    BY <1>7, <1>10 DEF NextCapped
<1>11. CASE Kept(threads[t].err) \in Errors /\ frames' = Owing(us, Kept(threads[t].err))
    <2>1. frames' \in Seq(Frame) /\ Likes(us, frames')
        BY <1>11, OwingIs
    <2> QED
        BY <1>7, <2>1, CappedLike DEF NextCapped
<1> QED
    BY <1>9, <1>10, <1>11

LEMMA SelfOverCapped ==
    ASSUME OnStack, Capped(frames, threads), NEW us, NEW f, NEW q, SelfOver(us, f, q)
    PROVE  NextCapped
<1>1. /\ frames \in Seq(Frame) /\ Built(frames) /\ threads \in [Threads -> ThreadState]
      /\ us \in Seq(Frame) /\ Pops(frames, us)
    BY StackIs DEF SelfOver
<1>2. PICK t : t = f.on
    OBVIOUS
<1>3. Capped(us, threads) /\ Built(us)
    BY <1>1, CappedPop, BuiltPop
<1>4. CASE /\ frames' \in Seq(Frame) /\ Pops(us, frames')
           /\ ThreadSet(t, q) /\ q = [threads[t] EXCEPT !.status = "dead"]
    <2>1. OnlyChanges(threads, threads', t) /\ threads'[t].status = "dead"
        BY <1>1, <1>4 DEF ThreadSet, ThreadState
    <2>2. Fewer(threads, threads')
        BY <2>1 DEF Fewer, Living, OnlyChanges, Resumable
    <2>3. Capped(frames', threads)
        BY <1>1, <1>3, <1>4, CappedPop
    <2> QED
        BY <2>2, <2>3, CappedThreads DEF NextCapped
<1>5. CASE frames' = us /\ threads' = threads
    BY <1>3, <1>5 DEF NextCapped
<1> QED
    BY <1>2, <1>4, <1>5 DEF SelfOver

LEMMA StepCapped ==
    ASSUME OnStack, Assumed, Quiet(frames, threads, err), Swept(frames, threads, co),
           Capped(frames, threads), [CallsNext]_callsVars
    PROVE  NextCapped
<1>1. StepKinds
    BY StepIs
<1>2. CASE Resting \/ Throwing \/ Popping \/ PopThrowing \/ Unwinding
    BY <1>2, LikedCapped, PoppedCapped, PopLikedCapped
<1>3. CASE HandlerBack \/ HandlerLost \/ Settled
    BY <1>3, PoppedCapped, PopLikedCapped
<1>4. ASSUME NEW f, \/ Pushing(f) \/ Skipping(f) \/ Making(f) \/ ClosePush(f) \/ Entering(f)
                    \/ BodyOver(f) \/ WalkOver(f) \/ FilesOver(f) \/ Leaving(f)
      PROVE  NextCapped
    BY <1>4, PushingCapped, RetoppedCapped, MakingCapped, ThreadPushCapped, EnteringCapped
<1>5. ASSUME NEW f, NEW h, Handling(f, h)
      PROVE  NextCapped
    BY <1>5, HandlingCapped
<1>6. ASSUME NEW t, Collected(t)
      PROVE  NextCapped
    BY <1>6, CollectedCapped
<1>7. ASSUME NEW q, Back(q) \/ Heard(q) \/ Over(q)
      PROVE  NextCapped
    BY <1>7, BackCapped, HeardCapped, OverCapped
<1>8. ASSUME NEW t, NEW q, Created(t, q) \/ Started(t, q) \/ ScopeEnds(t, q) \/ WrapBroken(t, q)
      PROVE  NextCapped
    BY <1>8, CreatedCapped, ThreadPushCapped, WrapBrokenCapped
<1>9. ASSUME NEW us, NEW f, NEW q, SelfOver(us, f, q)
      PROVE  NextCapped
    BY <1>9, SelfOverCapped
<1> QED
    BY <1>1, <1>2, <1>3, <1>4, <1>5, <1>6, <1>7, <1>8, <1>9 DEF StepKinds

(* The coroutines that can be resumed are at most one more than the cap, and    *)
(* co_live never falls behind the table of threads outside a sweep.             *)
THEOREM PopulationIsCapped ==
    ASSUME SettleCallsHost = FALSE
    PROVE  CallsSpec => []PopulationCapped
<1> DEFINE Inv == CallsHold /\ Capped(frames, threads)
<1>1. Assumed
    BY DEF Assumed
<1>2. CallsInit => Inv
    <2> SUFFICES ASSUME CallsInit PROVE Capped(frames, threads)
        BY CallsHoldInit
    <2>1. frames = <<>> /\ threads = [t \in Threads |-> BlankThread]
        BY DEF CallsInit
    <2>2. Len(frames) = 0 /\ 1 .. 0 = {}
        BY <2>1
    <2>3. Living(threads) = {}
        BY <2>1 DEF Living, BlankThread, Resumable
    <2>4. Population(threads) = 0
        BY <2>3, FS_EmptySet DEF Population
    <2> QED
        BY <2>2, <2>4, CallsAssumption DEF Capped
<1>3. Inv /\ [CallsNext]_callsVars => Inv'
    <2> SUFFICES ASSUME CallsHold, Capped(frames, threads), [CallsNext]_callsVars PROVE Inv'
        OBVIOUS
    <2>1. CallsHold'
        BY <1>1, CallsHoldStep
    <2>2. OnStack /\ Quiet(frames, threads, err) /\ Swept(frames, threads, co)
        BY DEF CallsHold
    <2>3. NextCapped
        BY <1>1, <2>2, StepCapped
    <2> QED
        BY <2>1, <2>3 DEF NextCapped
<1>4. Inv => PopulationCapped
    <2> SUFFICES ASSUME CallsHold, Capped(frames, threads) PROVE PopulationCapped
        OBVIOUS
    <2>1. Swept(frames, threads, co)
        BY DEF CallsHold
    <2>2. {t \in Threads : Unfinished(t)} = Living(threads)
        BY DEF Unfinished, Living, Resumable
    <2>3. Cardinality({t \in Threads : Unfinished(t)}) <= MaxLive + 1
        BY <2>2 DEF Capped, Population
    <2>4. ~co.sweeping => co.live >= Cardinality(co.tracked)
        BY <2>1 DEF Swept
    <2> QED
        BY <2>3, <2>4 DEF PopulationCapped
<1> QED
    BY <1>2, <1>3, <1>4, PTL DEF CallsSpec

--------------------------------------------------------------------------------
(* What an entry is owed.  A position of the stack carries an error when a      *)
(* handler runs over it, when a close keeps it for a thread, or when it is in   *)
(* flight above the top; an entry hears the positions no other entry and no     *)
(* finaliser stands between.  What it is owed is the last thing it can hear that*)
(* nobody asked a failed thread for by closing it.                              *)

Held(fs, ts, e, i) ==
    IF i = Len(fs) + 1 THEN e
    ELSE IF fs[i].kind = "handler" THEN fs[i].over
    ELSE IF fs[i].kind = "closing" /\ (i < Len(fs) \/ e = None) THEN ts[fs[i].on].err
    ELSE None

Voice(fs, ts, e, b) ==
    [i \in Nat |-> IF b < i /\ i <= Len(fs) + 1 /\ Reaches(fs, b, i) THEN Held(fs, ts, e, i)
                   ELSE None]

Asks(fs, i)  == fs[i].kind = "closing" /\ fs[i].who = "close"
Asked(fs) == {i \in Nat : \E k \in 1 .. Len(fs) : Asks(fs, k) /\ (i = k \/ i = k + 1)}

Final(V, A, h) == Uncatchable(V[h]) /\ \A k \in Nat : k > h /\ Uncatchable(V[k]) => k \in A

Carried(V, A, W, B) ==
    \A h \in Nat : Final(V, A, h) =>
        \E j \in Nat : Final(W, B, j) /\ ThrownFor(W[j]) = ThrownFor(V[h])

Due(fs, ts, e, b) ==
    fs[b].kind = "call" /\ fs[b].owed # None =>
        IF fs[b].phase = "run"
        THEN \E h \in Nat : /\ Final(Voice(fs, ts, e, b), Asked(fs), h)
                            /\ ThrownFor(Voice(fs, ts, e, b)[h]) = fs[b].owed
        ELSE fs[b].result # None /\ ThrownFor(fs[b].result) = fs[b].owed

\* The same voice at a position before and after a step, or silence.
Agrees(V, A, W, B, i) ==
    \/ ~Uncatchable(V[i]) /\ ~Uncatchable(W[i])
    \/ /\ Uncatchable(V[i]) /\ Uncatchable(W[i]) /\ ThrownFor(W[i]) = ThrownFor(V[i])
       /\ i \in A <=> i \in B

LEMMA NoneIsSilent == ~Uncatchable(None)
BY CallsAssumption DEF Uncatchable, IsFatal, Errors

(* Each position keeps its voice, or is given one that was asked for.           *)
LEMMA CarriedOver ==
    ASSUME NEW V, NEW A, NEW W, NEW B,
           \A i \in Nat : Agrees(V, A, W, B, i) \/ (~Uncatchable(V[i]) /\ i \in B)
    PROVE  Carried(V, A, W, B)
<1> SUFFICES ASSUME NEW h \in Nat, Final(V, A, h)
             PROVE  Final(W, B, h) /\ ThrownFor(W[h]) = ThrownFor(V[h])
    BY DEF Carried
<1>1. Uncatchable(V[h]) /\ \A k \in Nat : k > h /\ Uncatchable(V[k]) => k \in A
    BY DEF Final
<1>2. Uncatchable(W[h]) /\ ThrownFor(W[h]) = ThrownFor(V[h])
    BY <1>1 DEF Agrees
<1>3. ASSUME NEW k \in Nat, k > h, Uncatchable(W[k]) PROVE k \in B
    BY <1>1, <1>3 DEF Agrees
<1> QED
    BY <1>2, <1>3 DEF Final

(* The voice above the top comes down one position, over whatever was there.    *)
LEMMA CarriedDown ==
    ASSUME NEW V, NEW A, NEW W, NEW B, NEW n \in Nat,
           \A i \in Nat : i < n => \/ Agrees(V, A, W, B, i)
                                   \/ ~Uncatchable(W[i]) /\ Uncatchable(V[n + 1]) /\ n + 1 \notin A,
           Uncatchable(V[n]) => Uncatchable(V[n + 1]) /\ n + 1 \notin A,
           Uncatchable(V[n + 1]) <=> Uncatchable(W[n]),
           Uncatchable(V[n + 1]) => ThrownFor(W[n]) = ThrownFor(V[n + 1]),
           n + 1 \in A => n \in B,
           \A i \in Nat : i > n => ~Uncatchable(W[i]),
           \A i \in Nat : i > n + 1 => ~Uncatchable(V[i])
    PROVE  Carried(V, A, W, B)
<1> SUFFICES ASSUME NEW h \in Nat, Final(V, A, h)
             PROVE  \E j \in Nat : Final(W, B, j) /\ ThrownFor(W[j]) = ThrownFor(V[h])
    BY DEF Carried
<1>1. Uncatchable(V[h]) /\ \A k \in Nat : k > h /\ Uncatchable(V[k]) => k \in A
    BY DEF Final
<1>2. PICK m \in Nat : m = n + 1
    OBVIOUS
<1>3. ~(h > m) /\ (Uncatchable(V[m]) /\ m \notin A => ~(h < m)) /\ h # n
    BY <1>1, <1>2
<1>4. CASE h = m
    <2>1. Uncatchable(W[n]) /\ ThrownFor(W[n]) = ThrownFor(V[h])
        BY <1>1, <1>2, <1>4
    <2>2. Final(W, B, n)
        BY <2>1 DEF Final
    <2> QED
        BY <2>1, <2>2
<1>5. CASE h < n
    <2>1. Agrees(V, A, W, B, h)
        BY <1>1, <1>2, <1>3, <1>5
    <2>2. ASSUME NEW k \in Nat, k > h, Uncatchable(W[k]) PROVE k \in B
        <3>1. CASE k = n
            BY <1>1, <1>2, <1>5, <2>2, <3>1
        <3>2. CASE k < n
            BY <1>1, <2>2, <3>2 DEF Agrees
        <3> QED
            BY <2>2, <3>1, <3>2
    <2>3. Final(W, B, h) /\ ThrownFor(W[h]) = ThrownFor(V[h])
        BY <1>1, <2>1, <2>2 DEF Agrees, Final
    <2> QED
        BY <2>3
<1> QED
    BY <1>2, <1>3, <1>4, <1>5

(* The voice of a close goes up to the handler above it, or comes back from it. *)
LEMMA CarriedUp ==
    ASSUME NEW V, NEW A, NEW W, NEW B, NEW n \in Nat,
           \A i \in Nat : i # n /\ i # n + 1 => Agrees(V, A, W, B, i),
           Uncatchable(W[n]) => Uncatchable(V[n]) /\ (n \in A => n \in B),
           Uncatchable(V[n]) \/ Uncatchable(V[n + 1]) =>
                Uncatchable(W[n + 1])
                /\ (Uncatchable(V[n]) => ThrownFor(W[n + 1]) = ThrownFor(V[n]))
                /\ (Uncatchable(V[n + 1]) => ThrownFor(W[n + 1]) = ThrownFor(V[n + 1])),
           Uncatchable(W[n + 1]) =>
                \/ Uncatchable(V[n]) /\ (n \in A => n + 1 \in B)
                \/ Uncatchable(V[n + 1]) /\ (n + 1 \in A => n + 1 \in B)
    PROVE  Carried(V, A, W, B)
<1> SUFFICES ASSUME NEW h \in Nat, Final(V, A, h)
             PROVE  \E j \in Nat : Final(W, B, j) /\ ThrownFor(W[j]) = ThrownFor(V[h])
    BY DEF Carried
<1>1. Uncatchable(V[h]) /\ \A k \in Nat : k > h /\ Uncatchable(V[k]) => k \in A
    BY DEF Final
<1>2. PICK m \in Nat : m = n + 1
    OBVIOUS
<1>3. CASE h = n \/ h = m
    <2>1. Uncatchable(W[m]) /\ ThrownFor(W[m]) = ThrownFor(V[h])
        BY <1>1, <1>2, <1>3
    <2>2. ASSUME NEW k \in Nat, k > m, Uncatchable(W[k]) PROVE k \in B
        <3>1. k # n /\ k # m /\ k > h
            BY <1>2, <1>3, <2>2
        <3> QED
            BY <1>1, <1>2, <2>2, <3>1 DEF Agrees
    <2>3. Final(W, B, m)
        BY <2>1, <2>2 DEF Final
    <2> QED
        BY <2>1, <2>3
<1>4. CASE h # n /\ h # m
    <2>1. Agrees(V, A, W, B, h)
        BY <1>2, <1>4
    <2>2. ASSUME NEW k \in Nat, k > h, Uncatchable(W[k]) PROVE k \in B
        <3>1. CASE k # n /\ k # m
            <4>1. Agrees(V, A, W, B, k)
                BY <1>2, <3>1
            <4> QED
                BY <1>1, <2>2, <4>1 DEF Agrees
        <3>2. CASE k = n
            BY <1>1, <2>2, <3>2
        <3>3. CASE k = m
            <4>1. n > h
                BY <1>2, <1>4, <2>2, <3>3
            <4> QED
                BY <1>1, <1>2, <2>2, <3>3, <4>1
        <3> QED
            BY <3>1, <3>2, <3>3
    <2>3. Final(W, B, h) /\ ThrownFor(W[h]) = ThrownFor(V[h])
        BY <1>1, <2>1, <2>2 DEF Agrees, Final
    <2> QED
        BY <2>3
<1> QED
    BY <1>3, <1>4

(* What is owed stays owed while its voice is carried on.                       *)
LEMMA DueCarried ==
    ASSUME NEW fs, NEW ts, NEW e, NEW b, Due(fs, ts, e, b), NEW gs, NEW us, NEW d,
           SameBut(fs[b], gs[b]),
           fs[b].kind = "call" /\ fs[b].phase = "run" =>
                Carried(Voice(fs, ts, e, b), Asked(fs), Voice(gs, us, d, b), Asked(gs))
    PROVE  Due(gs, us, d, b)
<1> DEFINE V == Voice(fs, ts, e, b)
           W == Voice(gs, us, d, b)
<1>1. CASE fs[b].kind = "call" /\ fs[b].owed # None /\ fs[b].phase = "run"
    <2>1. PICK h \in Nat : Final(V, Asked(fs), h) /\ ThrownFor(V[h]) = fs[b].owed
        BY <1>1 DEF Due
    <2>2. Carried(V, Asked(fs), W, Asked(gs))
        BY <1>1
    <2> HIDE DEF V, W
    <2>3. PICK j \in Nat : Final(W, Asked(gs), j) /\ ThrownFor(W[j]) = ThrownFor(V[h])
        BY <2>1, <2>2 DEF Carried
    <2>4. ThrownFor(W[j]) = gs[b].owed /\ gs[b].phase = "run"
        BY <1>1, <2>1, <2>3 DEF SameBut
    <2> QED
        BY <1>1, <2>3, <2>4 DEF Due, W
<1>2. CASE ~(fs[b].kind = "call" /\ fs[b].owed # None /\ fs[b].phase = "run")
    BY <1>2 DEF Due, SameBut
<1> QED
    BY <1>1, <1>2

--------------------------------------------------------------------------------
(* The voices at the positions of a stack, and which of them a step leaves.     *)

Plain(f)  == f.kind \notin {"handler", "closing"}
Blocks(f) == f.kind \in {"call", "gc"}

Akin(f, g) == g = f \/ (Plain(f) /\ Plain(g) /\ (Blocks(f) <=> Blocks(g)))

\* The first m frames carry what they carried.
SameUpTo(fs, ts, e, gs, us, d, m) ==
    /\ m \in Nat /\ m <= Len(fs) /\ m <= Len(gs)
    /\ \A k \in 1 .. m : Akin(fs[k], gs[k])
    /\ \A k \in 1 .. m : fs[k].kind = "closing" => us[fs[k].on].err = ts[fs[k].on].err
    /\ m > 0 /\ fs[m].kind = "closing" =>
        (m < Len(fs) \/ e = None <=> m < Len(gs) \/ d = None)

LEMMA ReachesSame ==
    ASSUME NEW fs \in Seq(Frame), NEW gs \in Seq(Frame), NEW m \in Nat,
           m <= Len(fs), m <= Len(gs), \A k \in 1 .. m : Akin(fs[k], gs[k]),
           NEW b \in Nat, NEW i \in Nat, i <= m
    PROVE  Reaches(fs, b, i) <=> Reaches(gs, b, i)
<1>1. Len(fs) \in Nat /\ Len(gs) \in Nat
    OBVIOUS
<1>2. \A k \in 1 .. m : k \in 1 .. Len(fs) /\ k \in 1 .. Len(gs)
                        /\ (fs[k].kind \in {"call", "gc"} <=> gs[k].kind \in {"call", "gc"})
    BY <1>1 DEF Akin, Blocks
<1>3. Reaches(fs, b, i) <=> \A k \in 1 .. m : b < k /\ k <= i => fs[k].kind \notin {"call", "gc"}
    BY <1>1, <1>2 DEF Reaches
<1>4. Reaches(gs, b, i) <=> \A k \in 1 .. m : b < k /\ k <= i => gs[k].kind \notin {"call", "gc"}
    BY <1>1, <1>2 DEF Reaches
<1> QED
    BY <1>2, <1>3, <1>4

LEMMA AskedSame ==
    ASSUME NEW fs \in Seq(Frame), NEW gs \in Seq(Frame), NEW m \in Nat,
           m <= Len(fs), m <= Len(gs), \A k \in 1 .. m : Akin(fs[k], gs[k]),
           NEW i \in Nat, i <= m
    PROVE  i \in Asked(fs) <=> i \in Asked(gs)
<1>1. Len(fs) \in Nat /\ Len(gs) \in Nat
    OBVIOUS
<1>2. \A k \in 1 .. m : k \in 1 .. Len(fs) /\ k \in 1 .. Len(gs) /\ (Asks(fs, k) <=> Asks(gs, k))
    BY <1>1 DEF Akin, Plain, Asks
<1>3. i \in Asked(fs) <=> \E k \in 1 .. m : Asks(fs, k) /\ (i = k \/ i = k + 1)
    BY <1>1, <1>2 DEF Asked
<1>4. i \in Asked(gs) <=> \E k \in 1 .. m : Asks(gs, k) /\ (i = k \/ i = k + 1)
    BY <1>1, <1>2 DEF Asked
<1> QED
    BY <1>2, <1>3, <1>4

LEMMA VoiceSame ==
    ASSUME NEW fs \in Seq(Frame), NEW gs \in Seq(Frame), NEW ts, NEW us, NEW e, NEW d, NEW m,
           SameUpTo(fs, ts, e, gs, us, d, m), NEW b \in Nat, NEW i \in Nat, i <= m
    PROVE  /\ Voice(gs, us, d, b)[i] = Voice(fs, ts, e, b)[i]
           /\ Agrees(Voice(fs, ts, e, b), Asked(fs), Voice(gs, us, d, b), Asked(gs), i)
<1>1. Len(fs) \in Nat /\ Len(gs) \in Nat /\ m \in Nat /\ m <= Len(fs) /\ m <= Len(gs)
    BY DEF SameUpTo
<1>2. \A k \in 1 .. m : Akin(fs[k], gs[k])
    BY DEF SameUpTo
<1>3. Reaches(fs, b, i) <=> Reaches(gs, b, i)
    BY <1>1, <1>2, ReachesSame
<1>4. i \in Asked(fs) <=> i \in Asked(gs)
    BY <1>1, <1>2, AskedSame
<1>5. b < i => Held(gs, us, d, i) = Held(fs, ts, e, i)
    <2> SUFFICES ASSUME b < i PROVE Held(gs, us, d, i) = Held(fs, ts, e, i)
        OBVIOUS
    <2>1. i \in 1 .. m /\ i # Len(fs) + 1 /\ i # Len(gs) + 1 /\ Akin(fs[i], gs[i])
        BY <1>1, <1>2
    <2>2. CASE fs[i].kind = "closing"
        <3>1. gs[i] = fs[i] /\ us[fs[i].on].err = ts[fs[i].on].err
            BY <2>1, <2>2 DEF Akin, Plain, SameUpTo
        <3>2. (i < Len(fs) \/ e = None) <=> (i < Len(gs) \/ d = None)
            BY <1>1, <2>1, <2>2 DEF SameUpTo
        <3> QED
            BY <2>1, <2>2, <3>1, <3>2 DEF Held
    <2>3. CASE fs[i].kind # "closing"
        <3>1. gs[i] = fs[i] \/ (Plain(fs[i]) /\ Plain(gs[i]))
            BY <2>1 DEF Akin
        <3>2. gs[i].kind # "closing"
            BY <2>3, <3>1 DEF Plain
        <3> QED
            BY <2>1, <2>3, <3>1, <3>2 DEF Held, Plain
    <2> QED
        BY <2>2, <2>3
<1>6. Voice(gs, us, d, b)[i] = Voice(fs, ts, e, b)[i]
    BY <1>1, <1>3, <1>5 DEF Voice
<1> QED
    BY <1>4, <1>6 DEF Agrees

(* Above the stack there is the error in flight, and nothing above that; the    *)
(* entry itself and what is under it say nothing.                               *)
LEMMA VoiceEnds ==
    ASSUME NEW fs \in Seq(Frame), NEW ts, NEW e, NEW b \in Nat, NEW n \in Nat, Len(fs) = n
    PROVE  /\ \A i \in Nat : i > n + 1 \/ i <= b => Voice(fs, ts, e, b)[i] = None
           /\ Voice(fs, ts, e, b)[n + 1] = IF b <= n /\ Reaches(fs, b, n + 1) THEN e ELSE None
           /\ e = None => Voice(fs, ts, e, b)[n + 1] = None
           /\ n + 1 \in Asked(fs) <=> n > 0 /\ Asks(fs, n)
<1>1. \A i \in Nat : i > n + 1 \/ i <= b => Voice(fs, ts, e, b)[i] = None
    BY DEF Voice
<1>2. Voice(fs, ts, e, b)[n + 1] = IF b <= n /\ Reaches(fs, b, n + 1) THEN e ELSE None
    BY DEF Voice, Held
<1>3. n + 1 \in Asked(fs) <=> n > 0 /\ Asks(fs, n)
    BY DEF Asked
<1> QED
    BY <1>1, <1>2, <1>3

(* At the top: what the top frame carries, heard by who would hear an error.    *)
LEMMA VoiceTop ==
    ASSUME NEW fs \in Seq(Frame), NEW ts, NEW e, NEW b \in Nat, NEW n \in Nat, Len(fs) = n,
           b < n
    PROVE  /\ Reaches(fs, b, n + 1) <=> Reaches(fs, b, n)
           /\ Voice(fs, ts, e, b)[n] =
                IF Reaches(fs, b, n + 1) THEN Held(fs, ts, e, n) ELSE None
           /\ Plain(fs[n]) => Held(fs, ts, e, n) = None
           /\ fs[n].kind = "handler" => Held(fs, ts, e, n) = fs[n].over
           /\ fs[n].kind = "closing" /\ e = None => Held(fs, ts, e, n) = ts[fs[n].on].err
           /\ fs[n].kind = "closing" /\ e # None => Held(fs, ts, e, n) = None
           /\ Blocks(fs[n]) => ~Reaches(fs, b, n + 1)
<1>1. Reaches(fs, b, n + 1) <=> Reaches(fs, b, n)
    BY DEF Reaches
<1>2. Voice(fs, ts, e, b)[n] = IF Reaches(fs, b, n) THEN Held(fs, ts, e, n) ELSE None
    BY DEF Voice
<1>3. Blocks(fs[n]) => ~Reaches(fs, b, n + 1)
    BY DEF Reaches, Blocks
<1> QED
    BY <1>1, <1>2, <1>3 DEF Held, Plain

LEMMA ReachesPushed ==
    ASSUME NEW fs \in Seq(Frame), NEW gs \in Seq(Frame), NEW f, Pushes(fs, gs, f),
           NEW n \in Nat, Len(fs) = n, NEW b \in Nat, b <= n
    PROVE  /\ Len(gs) = n + 1 /\ gs[n + 1] = f /\ \A k \in 1 .. n : gs[k] = fs[k]
           /\ Reaches(gs, b, n + 2) <=> Reaches(gs, b, n + 1)
           /\ Reaches(gs, b, n + 1) <=> Reaches(fs, b, n + 1) /\ ~Blocks(f)
<1>1. Len(gs) = n + 1 /\ gs[n + 1] = f /\ \A k \in 1 .. n : gs[k] = fs[k]
    BY DEF Pushes
<1>2. Reaches(gs, b, n + 2) <=> Reaches(gs, b, n + 1)
    BY <1>1 DEF Reaches
<1>3. ASSUME Reaches(gs, b, n + 1) PROVE Reaches(fs, b, n + 1) /\ ~Blocks(f)
    <2>1. \A k \in 1 .. n + 1 : b < k => gs[k].kind \notin {"call", "gc"}
        BY <1>1, <1>3 DEF Reaches
    <2>2. ~Blocks(f)
        BY <1>1, <2>1 DEF Blocks
    <2> QED
        BY <1>1, <2>1, <2>2 DEF Reaches
<1>4. ASSUME Reaches(fs, b, n + 1), ~Blocks(f) PROVE Reaches(gs, b, n + 1)
    <2>1. \A k \in 1 .. n : b < k => fs[k].kind \notin {"call", "gc"}
        BY <1>4 DEF Reaches
    <2>2. \A k \in 1 .. n + 1 : b < k => gs[k].kind \notin {"call", "gc"}
        BY <1>1, <1>4, <2>1 DEF Blocks
    <2> QED
        BY <1>1, <2>2 DEF Reaches
<1> QED
    BY <1>1, <1>2, <1>3, <1>4

--------------------------------------------------------------------------------
(* How the voices move when a frame is pushed, popped or replaced.              *)

IsDue(fs, ts, e) == \A b \in 1 .. Len(fs) : Due(fs, ts, e, b)

\* The threads closed in the first m frames keep their errors.
KeptUpTo(fs, ts, us, m) ==
    \A k \in 1 .. m : fs[k].kind = "closing" => us[fs[k].on].err = ts[fs[k].on].err

LEMMA PoppedReach ==
    ASSUME NEW fs \in Seq(Frame), NEW gs \in Seq(Frame), Pops(fs, gs)
    PROVE  \E n \in Nat :
            /\ Len(gs) = n /\ Len(fs) = n + 1 /\ \A k \in 1 .. n : gs[k] = fs[k]
            /\ \A b \in Nat : b <= n =>
                (Reaches(fs, b, n + 2) <=> Reaches(gs, b, n + 1) /\ ~Blocks(fs[n + 1]))
<1>1. PICK n \in Nat : Len(gs) = n /\ Len(fs) = n + 1 /\ \A k \in 1 .. n : gs[k] = fs[k]
    BY DEF Pops
<1>2. PICK f : f = fs[n + 1]
    OBVIOUS
<1>3. Pushes(gs, fs, f)
    BY <1>1, <1>2 DEF Pushes
<1>4. \A b \in Nat : b <= n =>
        (Reaches(fs, b, n + 2) <=> Reaches(gs, b, n + 1) /\ ~Blocks(f))
    BY <1>1, <1>3, ReachesPushed
<1> QED
    BY <1>1, <1>2, <1>4

(* A frame that carries nothing, or what was asked for, is pushed.              *)
LEMMA PushCarries ==
    ASSUME NEW fs \in Seq(Frame), NEW gs \in Seq(Frame), NEW f, Pushes(fs, gs, f),
           NEW ts, NEW us, KeptUpTo(fs, ts, us, Len(fs)),
           \/ Plain(f)
           \/ f.kind = "handler" /\ ~Uncatchable(f.over)
           \/ f.kind = "closing" /\ (f.who = "close" \/ ~Uncatchable(us[f.on].err)),
           NEW b \in 1 .. Len(fs)
    PROVE  Carried(Voice(fs, ts, None, b), Asked(fs), Voice(gs, us, None, b), Asked(gs))
<1>1. PICK n \in Nat : Len(fs) = n
    OBVIOUS
<1>2. b \in Nat /\ b <= n /\ n > 0
    BY <1>1
<1>3. Len(gs) = n + 1 /\ gs[n + 1] = f /\ \A k \in 1 .. n : gs[k] = fs[k]
    BY <1>1 DEF Pushes
<1>4. SameUpTo(fs, ts, None, gs, us, None, n)
    BY <1>1, <1>3 DEF SameUpTo, Akin, KeptUpTo
<1>5. PICK V, W : V = Voice(fs, ts, None, b) /\ W = Voice(gs, us, None, b)
    OBVIOUS
<1>6. PICK A, B : A = Asked(fs) /\ B = Asked(gs)
    OBVIOUS
<1>7. \A i \in Nat : i <= n => Agrees(V, A, W, B, i)
    BY <1>2, <1>4, <1>5, <1>6, VoiceSame
<1>8. V[n + 1] = None /\ \A i \in Nat : i > n + 1 => V[i] = None
    BY <1>1, <1>2, <1>5, VoiceEnds
<1>9. PICK m \in Nat : m = n + 1
    OBVIOUS
<1>10. W[m + 1] = None /\ \A i \in Nat : i > m + 1 => W[i] = None
    BY <1>2, <1>3, <1>5, <1>9, VoiceEnds
<1>11. ~Uncatchable(W[m]) \/ m \in B
    <2>1. W[m] = IF Reaches(gs, b, m + 1) THEN Held(gs, us, None, m) ELSE None
        BY <1>2, <1>3, <1>5, <1>9, VoiceTop
    <2>2. /\ Plain(gs[m]) => Held(gs, us, None, m) = None
          /\ gs[m].kind = "handler" => Held(gs, us, None, m) = gs[m].over
          /\ gs[m].kind = "closing" => Held(gs, us, None, m) = us[gs[m].on].err
        BY <1>3, <1>9 DEF Held, Plain
    <2>3. f.kind = "closing" /\ f.who = "close" => m \in B
        BY <1>3, <1>6, <1>9 DEF Asked, Asks
    <2> QED
        BY <1>3, <1>9, <2>1, <2>2, <2>3, NoneIsSilent
<1>12. \A i \in Nat : Agrees(V, A, W, B, i) \/ (~Uncatchable(V[i]) /\ i \in B)
    <2> SUFFICES ASSUME NEW i \in Nat PROVE Agrees(V, A, W, B, i) \/ (~Uncatchable(V[i]) /\ i \in B)
        OBVIOUS
    <2>1. CASE i <= n
        BY <1>7, <2>1
    <2>2. CASE i = m
        BY <1>8, <1>9, <1>11, <2>2, NoneIsSilent DEF Agrees
    <2>3. CASE i > m
        <3>1. V[i] = None
            BY <1>8, <1>9, <2>3
        <3>2. W[i] = None
            BY <1>10, <2>3
        <3> QED
            BY <3>1, <3>2, NoneIsSilent DEF Agrees
    <2> QED
        BY <1>9, <2>1, <2>2, <2>3
<1> QED
    BY <1>5, <1>6, <1>12, CarriedOver

(* A frame that carries nothing is popped, and nothing is heard from above it.  *)
LEMMA PopCarries ==
    ASSUME NEW fs \in Seq(Frame), NEW gs \in Seq(Frame), Pops(fs, gs),
           NEW ts, NEW us, KeptUpTo(fs, ts, us, Len(gs)), NEW e, NEW b \in 1 .. Len(gs),
           e = None \/ ~Uncatchable(e) \/ Blocks(fs[Len(fs)]),
           \/ Plain(fs[Len(fs)])
           \/ fs[Len(fs)].kind = "handler" /\ ~Uncatchable(fs[Len(fs)].over)
           \/ fs[Len(fs)].kind = "closing" /\ ~Uncatchable(ts[fs[Len(fs)].on].err)
           \/ ~Reaches(gs, b, Len(gs) + 1)
    PROVE  Carried(Voice(fs, ts, e, b), Asked(fs), Voice(gs, us, None, b), Asked(gs))
<1>1. PICK n \in Nat : /\ Len(gs) = n /\ Len(fs) = n + 1 /\ \A k \in 1 .. n : gs[k] = fs[k]
                       /\ \A o \in Nat : o <= n =>
                            (Reaches(fs, o, n + 2) <=> Reaches(gs, o, n + 1) /\ ~Blocks(fs[n + 1]))
    BY PoppedReach
<1>2. b \in Nat /\ b <= n /\ n > 0
    BY <1>1
<1>3. SameUpTo(fs, ts, e, gs, us, None, n)
    BY <1>1 DEF SameUpTo, Akin, KeptUpTo
<1>5. PICK V, W : V = Voice(fs, ts, e, b) /\ W = Voice(gs, us, None, b)
    OBVIOUS
<1>6. PICK A, B : A = Asked(fs) /\ B = Asked(gs)
    OBVIOUS
<1>7. \A i \in Nat : i <= n => Agrees(V, A, W, B, i)
    BY <1>2, <1>3, <1>5, <1>6, VoiceSame
<1>8. W[n + 1] = None /\ \A i \in Nat : i > n + 1 => W[i] = None
    BY <1>1, <1>2, <1>5, VoiceEnds
<1>9. PICK m \in Nat : m = n + 1
    OBVIOUS
<1>10. \A i \in Nat : i > m + 1 => V[i] = None
    BY <1>1, <1>2, <1>5, <1>9, VoiceEnds
<1>11. ~Uncatchable(V[m + 1])
    <2>1. V[m + 1] = IF b <= m /\ Reaches(fs, b, m + 1) THEN e ELSE None
        BY <1>1, <1>2, <1>5, <1>9, VoiceEnds
    <2>2. Blocks(fs[m]) => ~Reaches(fs, b, m + 1)
        BY <1>1, <1>2, <1>9, VoiceTop
    <2> QED
        BY <1>1, <1>9, <2>1, <2>2, NoneIsSilent
<1>12. ~Uncatchable(V[m])
    <2>1. /\ V[m] = IF Reaches(fs, b, m + 1) THEN Held(fs, ts, e, m) ELSE None
          /\ Plain(fs[m]) => Held(fs, ts, e, m) = None
          /\ fs[m].kind = "handler" => Held(fs, ts, e, m) = fs[m].over
          /\ fs[m].kind = "closing" /\ e = None => Held(fs, ts, e, m) = ts[fs[m].on].err
          /\ fs[m].kind = "closing" /\ e # None => Held(fs, ts, e, m) = None
        BY <1>1, <1>2, <1>5, <1>9, VoiceTop
    <2>2. Reaches(fs, b, m + 1) => Reaches(gs, b, n + 1)
        BY <1>1, <1>2, <1>9
    <2> QED
        BY <1>1, <1>9, <2>1, <2>2, NoneIsSilent DEF Plain
<1>13. \A i \in Nat : Agrees(V, A, W, B, i)
    <2> SUFFICES ASSUME NEW i \in Nat PROVE Agrees(V, A, W, B, i)
        OBVIOUS
    <2>1. CASE i <= n
        BY <1>7, <2>1
    <2>2. CASE i = m
        BY <1>8, <1>9, <1>12, <2>2, NoneIsSilent DEF Agrees
    <2>3. CASE i > m
        <3>1. W[i] = None
            BY <1>8, <1>9, <2>3
        <3>2. ~Uncatchable(V[i])
            BY <1>10, <1>11, <2>3, NoneIsSilent
        <3> QED
            BY <3>1, <3>2, NoneIsSilent DEF Agrees
    <2> QED
        BY <1>9, <2>1, <2>2, <2>3
<1> QED
    BY <1>5, <1>6, <1>13, CarriedOver

(* What the top frame of a stack carries.                                       *)
LEMMA HeldTop ==
    ASSUME NEW fs \in Seq(Frame), NEW n \in Nat, Len(fs) = n, n > 0, NEW ts, NEW e
    PROVE  /\ Plain(fs[n]) => Held(fs, ts, e, n) = None
           /\ fs[n].kind = "handler" => Held(fs, ts, e, n) = fs[n].over
           /\ fs[n].kind = "closing" /\ e = None => Held(fs, ts, e, n) = ts[fs[n].on].err
           /\ fs[n].kind = "closing" /\ e # None => Held(fs, ts, e, n) = None
BY DEF Held, Plain

(* The error in flight comes down with the frame it unwinds.                    *)
LEMMA UnwindCarries ==
    ASSUME NEW fs \in Seq(Frame), NEW gs \in Seq(Frame), Pops(fs, gs),
           NEW ts, NEW us, KeptUpTo(fs, ts, us, Len(gs)), NEW e, NEW d,
           Uncatchable(e) <=> Uncatchable(d), Uncatchable(e) => ThrownFor(d) = ThrownFor(e),
           ~Blocks(fs[Len(fs)]), ~Asks(fs, Len(fs)), NEW b \in 1 .. Len(gs),
           \/ Uncatchable(e)
           \/ Plain(fs[Len(fs)])
           \/ fs[Len(fs)].kind = "handler" /\ ~Uncatchable(fs[Len(fs)].over)
           \/ ~Reaches(gs, b, Len(gs) + 1),
           \/ Uncatchable(e)
           \/ Len(gs) = 0 \/ fs[Len(gs)].kind # "closing"
           \/ ~Uncatchable(ts[fs[Len(gs)].on].err)
           \/ ~Reaches(gs, b, Len(gs) + 1)
    PROVE  Carried(Voice(fs, ts, e, b), Asked(fs), Voice(gs, us, d, b), Asked(gs))
<1>1. PICK n \in Nat : /\ Len(gs) = n /\ Len(fs) = n + 1 /\ \A k \in 1 .. n : gs[k] = fs[k]
                       /\ \A o \in Nat : o <= n =>
                            (Reaches(fs, o, n + 2) <=> Reaches(gs, o, n + 1) /\ ~Blocks(fs[n + 1]))
    BY PoppedReach
<1>2. b \in Nat /\ b <= n /\ n > 0
    BY <1>1
<1>3. PICK m, l \in Nat : m = n + 1 /\ l = n - 1
    BY <1>2
<1>4. PICK V, W : V = Voice(fs, ts, e, b) /\ W = Voice(gs, us, d, b)
    OBVIOUS
<1>5. PICK A, B : A = Asked(fs) /\ B = Asked(gs)
    OBVIOUS
<1>6. SameUpTo(fs, ts, e, gs, us, d, l)
    <2>1. l < Len(fs) /\ l < Len(gs) /\ \A k \in 1 .. l : k \in 1 .. n
        BY <1>1, <1>2, <1>3
    <2> QED
        BY <1>1, <1>3, <2>1 DEF SameUpTo, Akin, KeptUpTo
<1>7. \A i \in Nat : i < n => Agrees(V, A, W, B, i)
    BY <1>2, <1>3, <1>4, <1>5, <1>6, VoiceSame
<1>8. PICK heard \in BOOLEAN : heard = Reaches(gs, b, n + 1)
    <2> (Reaches(gs, b, n + 1)) \in BOOLEAN
        BY DEF Reaches
    <2> QED
        OBVIOUS
<1>9. (Reaches(fs, b, m + 1) <=> heard) /\ (Reaches(gs, b, m) <=> heard)
    BY <1>1, <1>2, <1>3, <1>8
<1>10. /\ V[m + 1] = IF heard THEN e ELSE None
       /\ \A i \in Nat : i > m + 1 => V[i] = None
       /\ m + 1 \notin A
    <2>1. /\ \A i \in Nat : i > m + 1 \/ i <= b => V[i] = None
          /\ V[m + 1] = IF b <= m /\ Reaches(fs, b, m + 1) THEN e ELSE None
          /\ m + 1 \in A <=> m > 0 /\ Asks(fs, m)
        BY <1>1, <1>2, <1>3, <1>4, <1>5, VoiceEnds
    <2> QED
        BY <1>1, <1>2, <1>3, <1>9, <2>1
<1>11. /\ W[m] = IF heard THEN d ELSE None
       /\ \A i \in Nat : i > m => W[i] = None
    <2>1. /\ \A i \in Nat : i > n + 1 \/ i <= b => W[i] = None
          /\ W[n + 1] = IF b <= n /\ Reaches(gs, b, n + 1) THEN d ELSE None
        BY <1>1, <1>2, <1>4, VoiceEnds
    <2> QED
        BY <1>2, <1>3, <1>8, <2>1
<1>12. Uncatchable(V[m]) => heard /\ Uncatchable(e)
    <2>1. V[m] = IF Reaches(fs, b, m + 1) THEN Held(fs, ts, e, m) ELSE None
        BY <1>1, <1>2, <1>3, <1>4, VoiceTop
    <2>2. Plain(fs[m]) => Held(fs, ts, e, m) = None
        BY <1>1, <1>3, HeldTop
    <2>3. fs[m].kind = "handler" => Held(fs, ts, e, m) = fs[m].over
        BY <1>1, <1>3, HeldTop
    <2> QED
        BY <1>1, <1>3, <1>8, <1>9, <2>1, <2>2, <2>3, NoneIsSilent
<1>13. Agrees(V, A, W, B, n) \/ (~Uncatchable(W[n]) /\ Uncatchable(V[m + 1]))
    <2>1. CASE fs[n].kind # "closing" \/ d = None
        <3>1. n < Len(fs) /\ n <= Len(gs)
            BY <1>1
        <3>2. SameUpTo(fs, ts, e, gs, us, d, n)
            BY <1>1, <1>2, <2>1, <3>1 DEF SameUpTo, Akin, KeptUpTo
        <3> QED
            BY <1>2, <1>4, <1>5, <3>2, VoiceSame
    <2>2. CASE fs[n].kind = "closing" /\ d # None
        <3>1. CASE b = n
            <4>1. V[n] = None /\ W[n] = None
                BY <1>1, <1>2, <1>4, <3>1, VoiceEnds DEF Voice
            <4> QED
                BY <4>1, NoneIsSilent DEF Agrees
        <3>2. CASE b < n
            <4>1. /\ W[n] = IF Reaches(gs, b, n + 1) THEN Held(gs, us, d, n) ELSE None
                  /\ Reaches(gs, b, n + 1) <=> Reaches(gs, b, n)
                BY <1>1, <1>2, <1>4, <3>2, VoiceTop
            <4>2. Held(gs, us, d, n) = None
                BY <1>1, <1>2, <2>2, HeldTop
            <4>3. W[n] = None
                BY <4>1, <4>2
            <4>4. Reaches(fs, b, n) <=> Reaches(gs, b, n)
                <5>1. n <= Len(fs) /\ n <= Len(gs) /\ \A k \in 1 .. n : Akin(fs[k], gs[k])
                    BY <1>1 DEF Akin
                <5> QED
                    BY <1>2, <5>1, ReachesSame
            <4>5. V[n] = IF heard THEN ts[fs[n].on].err ELSE None
                <5>1. n < Len(fs) /\ n <= Len(fs) + 1 /\ n # Len(fs) + 1
                    BY <1>1
                <5>2. Held(fs, ts, e, n) = ts[fs[n].on].err
                    BY <2>2, <5>1 DEF Held
                <5> QED
                    BY <1>2, <1>4, <1>8, <3>2, <4>1, <4>4, <5>1, <5>2 DEF Voice
            <4> QED
                BY <1>1, <1>2, <1>8, <1>10, <2>2, <4>3, <4>5, NoneIsSilent DEF Agrees
        <3> QED
            BY <1>2, <3>1, <3>2
    <2> QED
        BY <2>1, <2>2
<1>14. \A i \in Nat : i < m =>
            Agrees(V, A, W, B, i) \/ (~Uncatchable(W[i]) /\ Uncatchable(V[m + 1]) /\ m + 1 \notin A)
    BY <1>3, <1>7, <1>10, <1>13
<1>15. /\ Uncatchable(V[m]) => Uncatchable(V[m + 1]) /\ m + 1 \notin A
       /\ Uncatchable(V[m + 1]) <=> Uncatchable(W[m])
       /\ Uncatchable(V[m + 1]) => ThrownFor(W[m]) = ThrownFor(V[m + 1])
       /\ m + 1 \in A => m \in B
    BY <1>10, <1>11, <1>12, NoneIsSilent
<1>16. /\ \A i \in Nat : i > m => ~Uncatchable(W[i])
       /\ \A i \in Nat : i > m + 1 => ~Uncatchable(V[i])
    BY <1>10, <1>11, NoneIsSilent
<1> QED
    BY <1>3, <1>4, <1>5, <1>14, <1>15, <1>16, CarriedDown

(* A close takes the error in flight for its thread's.                          *)
LEMMA StoreCarries ==
    ASSUME NEW fs \in Seq(Frame), NEW gs \in Seq(Frame), NEW n \in Nat, Len(fs) = n, Len(gs) = n,
           \A k \in 1 .. n : k # n => gs[k] = fs[k],
           NEW ts, NEW us, \A l \in Nat : l < n => KeptUpTo(fs, ts, us, l), NEW e, e # None,
           n > 0, gs[n].kind = "closing", us[gs[n].on].err = e,
           Plain(fs[n]) \/ fs[n].kind = "closing", ~Blocks(fs[n]), Asks(fs, n) => Asks(gs, n),
           NEW b \in 1 .. n, b < n
    PROVE  Carried(Voice(fs, ts, e, b), Asked(fs), Voice(gs, us, None, b), Asked(gs))
<1>2. b \in Nat /\ b <= n
    OBVIOUS
<1>3. PICK l \in Nat : l = n - 1
    OBVIOUS
<1>4. PICK V, W : V = Voice(fs, ts, e, b) /\ W = Voice(gs, us, None, b)
    OBVIOUS
<1>5. PICK A, B : A = Asked(fs) /\ B = Asked(gs)
    OBVIOUS
<1>6. SameUpTo(fs, ts, e, gs, us, None, l)
    <2>1. l < Len(fs) /\ l < Len(gs) /\ \A k \in 1 .. l : k \in 1 .. n /\ k # n
        BY <1>3
    <2> QED
        BY <1>3, <2>1 DEF SameUpTo, Akin, KeptUpTo
<1>7. \A i \in Nat : i < n => Agrees(V, A, W, B, i)
    BY <1>2, <1>3, <1>4, <1>5, <1>6, VoiceSame
<1>8. ~Blocks(gs[n])
    BY DEF Blocks
<1>9. \A o \in Nat : Reaches(fs, o, n + 1) <=> Reaches(gs, o, n + 1)
    <2>1. \A k \in 1 .. n : fs[k].kind \in {"call", "gc"} <=> gs[k].kind \in {"call", "gc"}
        BY <1>8 DEF Blocks
    <2> QED
        BY <2>1 DEF Reaches
<1>10. /\ V[n + 1] = IF Reaches(fs, b, n + 1) THEN e ELSE None
       /\ \A i \in Nat : i > n + 1 => V[i] = None
       /\ n + 1 \in A <=> Asks(fs, n)
    BY <1>2, <1>4, <1>5, VoiceEnds
<1>11. \A i \in Nat : i > n => W[i] = None
    <2>1. \A i \in Nat : i > n + 1 \/ i <= b => W[i] = None
        BY <1>2, <1>4, VoiceEnds
    <2>2. W[n + 1] = None
        BY <1>2, <1>4, VoiceEnds
    <2> QED
        BY <2>1, <2>2
<1>12. V[n] = None
    <2>1. V[n] = IF Reaches(fs, b, n + 1) THEN Held(fs, ts, e, n) ELSE None
        BY <1>2, <1>4, VoiceTop
    <2>2. Held(fs, ts, e, n) = None
        BY HeldTop
    <2> QED
        BY <2>1, <2>2
<1>13. W[n] = IF Reaches(fs, b, n + 1) THEN e ELSE None
    <2>1. W[n] = IF Reaches(gs, b, n + 1) THEN Held(gs, us, None, n) ELSE None
        BY <1>2, <1>4, VoiceTop
    <2>2. Held(gs, us, None, n) = us[gs[n].on].err
        BY DEF Held
    <2> QED
        BY <1>2, <1>9, <2>1, <2>2
<1>14. n \in B <=> (Asks(gs, n) \/ (n > 1 /\ Asks(gs, n - 1)))
    BY <1>5 DEF Asked
<1>15. /\ Uncatchable(V[n]) => Uncatchable(V[n + 1]) /\ n + 1 \notin A
       /\ Uncatchable(V[n + 1]) <=> Uncatchable(W[n])
       /\ Uncatchable(V[n + 1]) => ThrownFor(W[n]) = ThrownFor(V[n + 1])
       /\ n + 1 \in A => n \in B
    BY <1>10, <1>12, <1>13, <1>14, NoneIsSilent
<1>16. /\ \A i \in Nat : i > n => ~Uncatchable(W[i])
       /\ \A i \in Nat : i > n + 1 => ~Uncatchable(V[i])
    BY <1>10, <1>11, NoneIsSilent
<1> QED
    BY <1>4, <1>5, <1>7, <1>15, <1>16, CarriedDown

(* A frame is replaced by one that carries as little.                           *)
LEMMA RetopCarries ==
    ASSUME NEW fs \in Seq(Frame), NEW gs \in Seq(Frame), NEW f, Retops(fs, gs, f),
           Akin(fs[Len(fs)], f), Plain(f), Plain(fs[Len(fs)]), NEW ts, NEW e,
           NEW d, d = e \/ Blocks(f),
           NEW b \in 1 .. Len(fs), d = e \/ b < Len(fs)
    PROVE  Carried(Voice(fs, ts, e, b), Asked(fs), Voice(gs, ts, d, b), Asked(gs))
<1>1. PICK n \in Nat : /\ Len(fs) = n /\ Len(gs) = n /\ n > 0 /\ gs[n] = f
                       /\ \A k \in 1 .. n : k # n => gs[k] = fs[k]
    BY DEF Retops
<1>2. b \in Nat /\ b <= n
    BY <1>1
<1>3. \A k \in 1 .. n : Akin(fs[k], gs[k])
    BY <1>1 DEF Akin
<1>4. SameUpTo(fs, ts, e, gs, ts, d, n)
    BY <1>1, <1>3 DEF SameUpTo, Plain
<1>5. PICK V, W : V = Voice(fs, ts, e, b) /\ W = Voice(gs, ts, d, b)
    OBVIOUS
<1>6. PICK A, B : A = Asked(fs) /\ B = Asked(gs)
    OBVIOUS
<1>7. \A i \in Nat : i <= n => Agrees(V, A, W, B, i)
    BY <1>2, <1>4, <1>5, <1>6, VoiceSame
<1>8. Reaches(fs, b, n + 1) <=> Reaches(gs, b, n + 1)
    <2>1. \A k \in 1 .. n : fs[k].kind \in {"call", "gc"} <=> gs[k].kind \in {"call", "gc"}
        BY <1>1, <1>3 DEF Akin, Blocks
    <2> QED
        BY <1>1, <2>1 DEF Reaches
<1>9. /\ V[n + 1] = IF Reaches(fs, b, n + 1) THEN e ELSE None
      /\ n + 1 \notin A /\ \A i \in Nat : i > n + 1 => V[i] = None
    <2>1. /\ \A i \in Nat : i > n + 1 \/ i <= b => V[i] = None
          /\ V[n + 1] = IF b <= n /\ Reaches(fs, b, n + 1) THEN e ELSE None
          /\ n + 1 \in A <=> n > 0 /\ Asks(fs, n)
        BY <1>1, <1>2, <1>5, <1>6, VoiceEnds
    <2> QED
        BY <1>1, <1>2, <2>1 DEF Asks, Plain
<1>10. /\ W[n + 1] = IF Reaches(gs, b, n + 1) THEN d ELSE None
       /\ n + 1 \notin B /\ \A i \in Nat : i > n + 1 => W[i] = None
    <2>1. /\ \A i \in Nat : i > n + 1 \/ i <= b => W[i] = None
          /\ W[n + 1] = IF b <= n /\ Reaches(gs, b, n + 1) THEN d ELSE None
          /\ n + 1 \in B <=> n > 0 /\ Asks(gs, n)
        BY <1>1, <1>2, <1>5, <1>6, VoiceEnds
    <2> QED
        BY <1>1, <1>2, <2>1 DEF Asks, Plain
<1>11. V[n + 1] = W[n + 1]
    <2>1. CASE d = e
        BY <1>8, <1>9, <1>10, <2>1
    <2>2. CASE d # e
        <3>1. b < n /\ Blocks(gs[n]) /\ n \in 1 .. n
            BY <1>1, <2>2
        <3>2. ~Reaches(gs, b, n + 1)
            BY <1>1, <3>1 DEF Reaches, Blocks
        <3> QED
            BY <1>8, <1>9, <1>10, <3>2
    <2> QED
        BY <2>1, <2>2
<1>12. \A i \in Nat : Agrees(V, A, W, B, i)
    <2> SUFFICES ASSUME NEW i \in Nat, i > n PROVE Agrees(V, A, W, B, i)
        BY <1>7
    <2>1. (V[i] = W[i] /\ (i \in A <=> i \in B)) \/ (V[i] = None /\ W[i] = None)
        BY <1>9, <1>10, <1>11
    <2> QED
        BY <2>1, NoneIsSilent DEF Agrees
<1> QED
    BY <1>5, <1>6, <1>12, CarriedOver

(* The error in flight, if any, is what a handler is run over.                  *)
LEMMA HandleCarries ==
    ASSUME NEW fs \in Seq(Frame), NEW gs \in Seq(Frame), NEW h, Pushes(fs, gs, h),
           h.kind = "handler", NEW ts, NEW e, h.over = e, Plain(fs[Len(fs)]),
           NEW b \in 1 .. Len(fs)
    PROVE  Carried(Voice(fs, ts, e, b), Asked(fs), Voice(gs, ts, None, b), Asked(gs))
<1>1. PICK n \in Nat : Len(fs) = n
    OBVIOUS
<1>2. b \in Nat /\ b <= n /\ n > 0
    BY <1>1
<1>3. Len(gs) = n + 1 /\ gs[n + 1] = h /\ \A k \in 1 .. n : gs[k] = fs[k]
    BY <1>1 DEF Pushes
<1>4. SameUpTo(fs, ts, e, gs, ts, None, n)
    BY <1>1, <1>3 DEF SameUpTo, Akin, Plain
<1>5. PICK V, W : V = Voice(fs, ts, e, b) /\ W = Voice(gs, ts, None, b)
    OBVIOUS
<1>6. PICK A, B : A = Asked(fs) /\ B = Asked(gs)
    OBVIOUS
<1>7. \A i \in Nat : i <= n => Agrees(V, A, W, B, i)
    BY <1>2, <1>4, <1>5, <1>6, VoiceSame
<1>8. PICK m \in Nat : m = n + 1
    OBVIOUS
<1>9. /\ V[m] = IF Reaches(fs, b, m) THEN e ELSE None
      /\ m \notin A /\ \A i \in Nat : i > m => V[i] = None
    <2>1. /\ \A i \in Nat : i > n + 1 \/ i <= b => V[i] = None
          /\ V[n + 1] = IF b <= n /\ Reaches(fs, b, n + 1) THEN e ELSE None
          /\ n + 1 \in A <=> n > 0 /\ Asks(fs, n)
        BY <1>1, <1>2, <1>5, <1>6, VoiceEnds
    <2> QED
        BY <1>1, <1>2, <1>8, <2>1 DEF Asks, Plain
<1>10. /\ Reaches(gs, b, n + 2) <=> Reaches(gs, b, n + 1)
       /\ Reaches(gs, b, n + 1) <=> Reaches(fs, b, n + 1)
    <2>1. /\ Reaches(gs, b, n + 2) <=> Reaches(gs, b, n + 1)
          /\ Reaches(gs, b, n + 1) <=> Reaches(fs, b, n + 1) /\ ~Blocks(h)
        BY <1>1, <1>2, ReachesPushed
    <2> QED
        BY <2>1 DEF Blocks
<1>11. W[m] = IF Reaches(fs, b, m) THEN e ELSE None
    <2>1. W[m] = IF Reaches(gs, b, m + 1) THEN Held(gs, ts, None, m) ELSE None
        BY <1>2, <1>3, <1>5, <1>8, VoiceTop
    <2>2. Held(gs, ts, None, m) = e
        BY <1>3, <1>8 DEF Held
    <2> QED
        BY <1>8, <1>10, <2>1, <2>2
<1>12. \A i \in Nat : i > m => W[i] = None
    <2>1. /\ \A i \in Nat : i > m + 1 \/ i <= b => W[i] = None
          /\ W[m + 1] = None
        BY <1>2, <1>3, <1>5, <1>8, VoiceEnds
    <2> QED
        BY <1>8, <2>1
<1>13. m \notin B
    <2>1. ~Asks(gs, m) /\ ~Asks(gs, n)
        BY <1>1, <1>3, <1>8, <1>2 DEF Asks, Plain
    <2> QED
        BY <1>3, <1>6, <1>8, <2>1 DEF Asked
<1>14. \A i \in Nat : Agrees(V, A, W, B, i)
    <2> SUFFICES ASSUME NEW i \in Nat, i > n PROVE Agrees(V, A, W, B, i)
        BY <1>7
    <2>1. i = m \/ i > m
        BY <1>8
    <2>2. (V[i] = W[i] /\ (i \in A <=> i \in B)) \/ (V[i] = None /\ W[i] = None)
        BY <1>9, <1>11, <1>12, <1>13, <2>1
    <2> QED
        BY <2>2, NoneIsSilent DEF Agrees
<1> QED
    BY <1>5, <1>6, <1>14, CarriedOver

(* The handler of the scope a close ends is run over what the close keeps.      *)
LEMMA ScopeCarries ==
    ASSUME NEW fs \in Seq(Frame), NEW gs \in Seq(Frame), NEW h, Pushes(fs, gs, h),
           h.kind = "handler", NEW ts, NEW us, KeptUpTo(fs, ts, us, Len(fs)),
           fs[Len(fs)].kind = "closing", h.over = ts[fs[Len(fs)].on].err,
           Len(fs) > 1 => fs[Len(fs) - 1].kind # "closing",
           NEW b \in 1 .. Len(fs), b < Len(fs)
    PROVE  Carried(Voice(fs, ts, None, b), Asked(fs), Voice(gs, us, None, b), Asked(gs))
<1>1. PICK n \in Nat : Len(fs) = n
    OBVIOUS
<1>2. b \in Nat /\ b < n /\ n > 0 /\ b <= n
    BY <1>1
<1>3. Len(gs) = n + 1 /\ gs[n + 1] = h /\ \A k \in 1 .. n : gs[k] = fs[k]
    BY <1>1 DEF Pushes
<1>4. SameUpTo(fs, ts, None, gs, us, None, n)
    BY <1>1, <1>3 DEF SameUpTo, Akin, KeptUpTo
<1>5. PICK V, W : V = Voice(fs, ts, None, b) /\ W = Voice(gs, us, None, b)
    OBVIOUS
<1>6. PICK A, B : A = Asked(fs) /\ B = Asked(gs)
    OBVIOUS
<1>7. \A i \in Nat : i <= n => Agrees(V, A, W, B, i) /\ W[i] = V[i]
    BY <1>2, <1>4, <1>5, <1>6, VoiceSame
<1>8. PICK m \in Nat : m = n + 1
    OBVIOUS
<1>9. \A i \in Nat : i > n => V[i] = None
    <2>1. /\ \A i \in Nat : i > n + 1 \/ i <= b => V[i] = None
          /\ V[n + 1] = None
        BY <1>1, <1>2, <1>5, VoiceEnds
    <2> QED
        BY <2>1
<1>10. \A i \in Nat : i > m => W[i] = None
    <2>1. /\ \A i \in Nat : i > m + 1 \/ i <= b => W[i] = None
          /\ W[m + 1] = None
        BY <1>2, <1>3, <1>5, <1>8, VoiceEnds
    <2> QED
        BY <1>8, <2>1
<1>11. W[m] = V[n]
    <2>1. W[m] = IF Reaches(gs, b, m + 1) THEN Held(gs, us, None, m) ELSE None
        BY <1>2, <1>3, <1>5, <1>8, VoiceTop
    <2>2. Held(gs, us, None, m) = h.over
        BY <1>3, <1>8 DEF Held
    <2>3. V[n] = IF Reaches(fs, b, n + 1) THEN Held(fs, ts, None, n) ELSE None
        BY <1>1, <1>2, <1>5, VoiceTop
    <2>4. Held(fs, ts, None, n) = h.over
        BY <1>1 DEF Held
    <2>5. /\ Reaches(gs, b, n + 2) <=> Reaches(gs, b, n + 1)
          /\ Reaches(gs, b, n + 1) <=> Reaches(fs, b, n + 1) /\ ~Blocks(h)
        BY <1>1, <1>2, ReachesPushed
    <2>6. m + 1 = n + 2 /\ ~Blocks(h)
        BY <1>8 DEF Blocks
    <2> QED
        BY <2>1, <2>2, <2>3, <2>4, <2>5, <2>6
<1>12. (n \in A => n \in B) /\ (n \in A => m \in B)
    <2> SUFFICES ASSUME n \in A PROVE n \in B /\ m \in B
        OBVIOUS
    <2>1. PICK k \in 1 .. n : Asks(fs, k) /\ (n = k \/ n = k + 1)
        BY <1>1, <1>6 DEF Asked
    <2>2. k = n
        <3>1. k = n - 1 => n > 1 /\ fs[n - 1].kind # "closing"
            BY <1>1, <1>2, <2>1
        <3> QED
            BY <2>1, <3>1 DEF Asks
    <2>3. Asks(gs, n) /\ n \in 1 .. Len(gs)
        BY <1>2, <1>3, <2>1, <2>2 DEF Asks
    <2> QED
        BY <1>6, <1>8, <2>3 DEF Asked
<1>13. \A i \in Nat : i # n /\ i # n + 1 => Agrees(V, A, W, B, i)
    <2> SUFFICES ASSUME NEW i \in Nat, i # n, i # n + 1 PROVE Agrees(V, A, W, B, i)
        OBVIOUS
    <2>1. CASE i < n
        BY <1>7, <2>1
    <2>2. CASE i > m
        <3>1. V[i] = None /\ W[i] = None
            BY <1>8, <1>9, <1>10, <2>2
        <3> QED
            BY <3>1, NoneIsSilent DEF Agrees
    <2> QED
        BY <1>8, <2>1, <2>2
<1>14. W[n] = V[n] /\ V[m] = None
    BY <1>7, <1>8, <1>9
<1> QED
    BY <1>5, <1>6, <1>8, <1>11, <1>12, <1>13, <1>14, NoneIsSilent, CarriedUp

(* A handler that returns puts back what it was run over.                       *)
LEMMA BackCarries ==
    ASSUME NEW fs \in Seq(Frame), NEW gs \in Seq(Frame), Pops(fs, gs), NEW ts, NEW d,
           fs[Len(fs)].kind = "handler", fs[Len(fs)].over = d,
           Len(gs) > 0 /\ fs[Len(gs)].kind = "closing" => ts[fs[Len(gs)].on].err = d,
           NEW b \in 1 .. Len(gs)
    PROVE  Carried(Voice(fs, ts, None, b), Asked(fs), Voice(gs, ts, d, b), Asked(gs))
<1>1. PICK n \in Nat : /\ Len(gs) = n /\ Len(fs) = n + 1 /\ \A k \in 1 .. n : gs[k] = fs[k]
                       /\ \A o \in Nat : o <= n =>
                            (Reaches(fs, o, n + 2) <=> Reaches(gs, o, n + 1) /\ ~Blocks(fs[n + 1]))
    BY PoppedReach
<1>2. b \in Nat /\ b <= n /\ n > 0
    BY <1>1
<1>3. PICK m, l \in Nat : m = n + 1 /\ l = n - 1
    BY <1>2
<1>4. PICK V, W : V = Voice(fs, ts, None, b) /\ W = Voice(gs, ts, d, b)
    OBVIOUS
<1>5. PICK A, B : A = Asked(fs) /\ B = Asked(gs)
    OBVIOUS
<1>6. SameUpTo(fs, ts, None, gs, ts, d, l)
    <2>1. l < Len(fs) /\ l < Len(gs) /\ \A k \in 1 .. l : k \in 1 .. n
        BY <1>1, <1>2, <1>3
    <2> QED
        BY <1>1, <1>3, <2>1 DEF SameUpTo, Akin
<1>7. \A i \in Nat : i < n => Agrees(V, A, W, B, i)
    BY <1>2, <1>3, <1>4, <1>5, <1>6, VoiceSame
<1>8. (Reaches(fs, b, m + 1) <=> Reaches(gs, b, m)) /\ ~Blocks(fs[m])
    <2>1. fs[m].kind = "handler"
        BY <1>1, <1>3
    <2>2. ~Blocks(fs[m])
        BY <2>1 DEF Blocks
    <2> QED
        BY <1>1, <1>2, <1>3, <2>2
<1>9. V[m] = W[m]
    <2>1. V[m] = IF Reaches(fs, b, m + 1) THEN Held(fs, ts, None, m) ELSE None
        BY <1>1, <1>2, <1>3, <1>4, VoiceTop
    <2>2. Held(fs, ts, None, m) = d
        BY <1>1, <1>3 DEF Held
    <2>3. W[n + 1] = IF b <= n /\ Reaches(gs, b, n + 1) THEN d ELSE None
        BY <1>1, <1>2, <1>4, VoiceEnds
    <2> QED
        BY <1>2, <1>3, <1>8, <2>1, <2>2, <2>3
<1>10. \A i \in Nat : i > m => V[i] = None /\ W[i] = None
    <2>1. /\ \A i \in Nat : i > m + 1 \/ i <= b => V[i] = None
          /\ V[m + 1] = None
        BY <1>1, <1>2, <1>3, <1>4, VoiceEnds
    <2>2. \A i \in Nat : i > n + 1 \/ i <= b => W[i] = None
        BY <1>1, <1>2, <1>4, VoiceEnds
    <2> QED
        BY <1>3, <2>1, <2>2
<1>11. m \in A <=> m \in B
    <2>1. /\ m \in A <=> \E k \in 1 .. n + 1 : Asks(fs, k) /\ (m = k \/ m = k + 1)
          /\ m \in B <=> \E k \in 1 .. n : Asks(gs, k) /\ (m = k \/ m = k + 1)
        BY <1>1, <1>5 DEF Asked
    <2>2. ~Asks(fs, m) /\ (Asks(fs, n) <=> Asks(gs, n))
        BY <1>1, <1>2, <1>3 DEF Asks
    <2> QED
        BY <1>2, <1>3, <2>1, <2>2
<1>12. \A i \in Nat : i # n => Agrees(V, A, W, B, i)
    <2> SUFFICES ASSUME NEW i \in Nat, i # n PROVE Agrees(V, A, W, B, i)
        OBVIOUS
    <2>1. CASE i < n
        BY <1>7, <2>1
    <2>2. CASE i = m
        BY <1>9, <1>11, <2>2 DEF Agrees
    <2>3. CASE i > m
        BY <1>10, <2>3, NoneIsSilent DEF Agrees
    <2> QED
        BY <1>3, <2>1, <2>2, <2>3
<1>13. CASE fs[n].kind # "closing" \/ d = None
    <2>1. n < Len(fs) /\ n <= Len(gs)
        BY <1>1
    <2>2. SameUpTo(fs, ts, None, gs, ts, d, n)
        BY <1>1, <1>2, <1>13, <2>1 DEF SameUpTo, Akin
    <2>3. Agrees(V, A, W, B, n)
        BY <1>2, <1>4, <1>5, <2>2, VoiceSame
    <2>4. \A i \in Nat : Agrees(V, A, W, B, i)
        BY <1>12, <2>3
    <2> QED
        BY <1>4, <1>5, <2>4, CarriedOver
<1>14. CASE fs[n].kind = "closing" /\ d # None
    <2>1. (V[n] = None /\ W[n] = None) \/ (V[n] = V[m] /\ W[n] = None)
        <3>1. CASE b = n
            <4>1. V[n] = None /\ W[n] = None
                BY <1>1, <1>2, <1>4, <3>1, VoiceEnds DEF Voice
            <4> QED
                BY <4>1
        <3>2. CASE b < n
            <4>1. /\ W[n] = IF Reaches(gs, b, n + 1) THEN Held(gs, ts, d, n) ELSE None
                  /\ Reaches(gs, b, n + 1) <=> Reaches(gs, b, n)
                BY <1>1, <1>2, <1>4, <3>2, VoiceTop
            <4>2. Held(gs, ts, d, n) = None
                BY <1>1, <1>2, <1>14, HeldTop
            <4>3. Reaches(fs, b, n) <=> Reaches(gs, b, n)
                <5>1. n <= Len(fs) /\ n <= Len(gs) /\ \A k \in 1 .. n : Akin(fs[k], gs[k])
                    BY <1>1 DEF Akin
                <5> QED
                    BY <1>2, <5>1, ReachesSame
            <4>4. V[n] = IF Reaches(gs, b, n + 1) THEN d ELSE None
                <5>1. n < Len(fs) /\ n <= Len(fs) + 1 /\ n # Len(fs) + 1
                    BY <1>1
                <5>2. Held(fs, ts, None, n) = d
                    BY <1>1, <1>2, <1>14, <5>1 DEF Held
                <5> QED
                    BY <1>2, <1>4, <3>2, <4>1, <4>3, <5>1, <5>2 DEF Voice
            <4>5. W[n + 1] = IF b <= n /\ Reaches(gs, b, n + 1) THEN d ELSE None
                BY <1>1, <1>2, <1>4, VoiceEnds
            <4> QED
                BY <1>2, <1>3, <1>9, <4>1, <4>2, <4>4, <4>5
        <3> QED
            BY <1>2, <3>1, <3>2
    <2>2. \A i \in Nat : i # n /\ i # n + 1 => Agrees(V, A, W, B, i)
        BY <1>12
    <2>3. /\ ~Uncatchable(W[n])
          /\ Uncatchable(V[n]) => V[n] = V[n + 1]
        BY <1>3, <2>1, NoneIsSilent
    <2>4. W[n + 1] = V[n + 1] /\ (n + 1 \in A => n + 1 \in B)
        BY <1>3, <1>9, <1>11
    <2> QED
        BY <1>2, <1>4, <1>5, <2>2, <2>3, <2>4, CarriedUp
<1> QED
    BY <1>13, <1>14

(* A close that is over hands on what it kept.                                  *)
LEMMA HandOverCarries ==
    ASSUME NEW fs \in Seq(Frame), NEW gs \in Seq(Frame), Pops(fs, gs),
           NEW ts, NEW us, KeptUpTo(fs, ts, us, Len(gs)), NEW d, NEW x,
           fs[Len(fs)].kind = "closing", fs[Len(fs)].who # "close", ts[fs[Len(fs)].on].err = x,
           Uncatchable(x) <=> Uncatchable(d), Uncatchable(x) => ThrownFor(d) = ThrownFor(x),
           Len(gs) > 0 => fs[Len(gs)].kind # "closing",
           NEW b \in 1 .. Len(gs)
    PROVE  Carried(Voice(fs, ts, None, b), Asked(fs), Voice(gs, us, d, b), Asked(gs))
<1>1. PICK n \in Nat : /\ Len(gs) = n /\ Len(fs) = n + 1 /\ \A k \in 1 .. n : gs[k] = fs[k]
                       /\ \A o \in Nat : o <= n =>
                            (Reaches(fs, o, n + 2) <=> Reaches(gs, o, n + 1) /\ ~Blocks(fs[n + 1]))
    BY PoppedReach
<1>2. b \in Nat /\ b <= n /\ n > 0
    BY <1>1
<1>3. PICK m \in Nat : m = n + 1
    OBVIOUS
<1>4. PICK V, W : V = Voice(fs, ts, None, b) /\ W = Voice(gs, us, d, b)
    OBVIOUS
<1>5. PICK A, B : A = Asked(fs) /\ B = Asked(gs)
    OBVIOUS
<1>6. SameUpTo(fs, ts, None, gs, us, d, n)
    <2>1. n < Len(fs) /\ n <= Len(gs) /\ fs[n].kind # "closing"
        BY <1>1, <1>2
    <2> QED
        BY <1>1, <2>1 DEF SameUpTo, Akin, KeptUpTo
<1>7. \A i \in Nat : i <= n => Agrees(V, A, W, B, i)
    BY <1>2, <1>4, <1>5, <1>6, VoiceSame
<1>8. (Reaches(fs, b, m + 1) <=> Reaches(gs, b, m))
    <2>1. fs[m].kind = "closing"
        BY <1>1, <1>3
    <2>2. ~Blocks(fs[m])
        BY <2>1 DEF Blocks
    <2> QED
        BY <1>1, <1>2, <1>3, <2>2
<1>9. \/ ~Uncatchable(V[m]) /\ ~Uncatchable(W[m])
      \/ Uncatchable(V[m]) /\ Uncatchable(W[m]) /\ ThrownFor(W[m]) = ThrownFor(V[m])
    <2>1. V[m] = IF Reaches(fs, b, m + 1) THEN Held(fs, ts, None, m) ELSE None
        BY <1>1, <1>2, <1>3, <1>4, VoiceTop
    <2>2. Held(fs, ts, None, m) = x
        BY <1>1, <1>3 DEF Held
    <2>3. W[n + 1] = IF b <= n /\ Reaches(gs, b, n + 1) THEN d ELSE None
        BY <1>1, <1>2, <1>4, VoiceEnds
    <2> QED
        BY <1>2, <1>3, <1>8, <2>1, <2>2, <2>3, NoneIsSilent
<1>10. \A i \in Nat : i > m => V[i] = None /\ W[i] = None
    <2>1. /\ \A i \in Nat : i > m + 1 \/ i <= b => V[i] = None
          /\ V[m + 1] = None
        BY <1>1, <1>2, <1>3, <1>4, VoiceEnds
    <2>2. \A i \in Nat : i > n + 1 \/ i <= b => W[i] = None
        BY <1>1, <1>2, <1>4, VoiceEnds
    <2> QED
        BY <1>3, <2>1, <2>2
<1>11. m \notin A /\ m \notin B
    <2>1. /\ m \in A <=> \E k \in 1 .. n + 1 : Asks(fs, k) /\ (m = k \/ m = k + 1)
          /\ m \in B <=> \E k \in 1 .. n : Asks(gs, k) /\ (m = k \/ m = k + 1)
        BY <1>1, <1>5 DEF Asked
    <2>2. ~Asks(fs, m) /\ ~Asks(fs, n) /\ ~Asks(gs, n)
        BY <1>1, <1>2, <1>3 DEF Asks
    <2> QED
        BY <1>2, <1>3, <2>1, <2>2
<1>12. \A i \in Nat : Agrees(V, A, W, B, i)
    <2> SUFFICES ASSUME NEW i \in Nat PROVE Agrees(V, A, W, B, i)
        OBVIOUS
    <2>1. CASE i <= n
        BY <1>7, <2>1
    <2>2. CASE i = m
        BY <1>9, <1>11, <2>2 DEF Agrees
    <2>3. CASE i > m
        BY <1>10, <2>3, NoneIsSilent DEF Agrees
    <2> QED
        BY <1>3, <2>1, <2>2, <2>3
<1> QED
    BY <1>4, <1>5, <1>12, CarriedOver

(* What an entry is owed is nobody's voice.                                     *)
LEMMA LikeVoices ==
    ASSUME NEW fs \in Seq(Frame), NEW gs \in Seq(Frame), Likes(fs, gs), NEW ts, NEW e, NEW b \in Nat
    PROVE  /\ Voice(gs, ts, e, b) = Voice(fs, ts, e, b) /\ Asked(gs) = Asked(fs)
           /\ \A i \in Nat : Reaches(gs, b, i) <=> Reaches(fs, b, i)
<1>1. PICK n \in Nat : Len(fs) = n /\ Len(gs) = n
    BY DEF Likes
<1>2. \A k \in 1 .. n : gs[k].kind = fs[k].kind /\ (fs[k].kind # "call" => gs[k] = fs[k])
    BY <1>1 DEF Likes, SameCall
<1>3. \A i \in Nat : Reaches(gs, b, i) <=> Reaches(fs, b, i)
    BY <1>1, <1>2 DEF Reaches
<1>4. \A k \in 1 .. n : Asks(gs, k) <=> Asks(fs, k)
    BY <1>2 DEF Asks
<1>5. Asked(gs) = Asked(fs)
    BY <1>1, <1>4 DEF Asked
<1>6. ASSUME NEW i \in Nat, b < i, i <= n + 1 PROVE Held(gs, ts, e, i) = Held(fs, ts, e, i)
    <2>1. CASE i = n + 1
        BY <1>1, <2>1 DEF Held
    <2>2. CASE i # n + 1
        <3>1. i \in 1 .. n
            BY <1>6, <2>2
        <3>2. gs[i].kind = fs[i].kind /\ (fs[i].kind # "call" => gs[i] = fs[i])
            BY <1>2, <3>1
        <3>3. CASE fs[i].kind = "call"
            BY <1>1, <2>2, <3>2, <3>3 DEF Held
        <3>4. CASE fs[i].kind # "call"
            BY <1>1, <2>2, <3>2, <3>4 DEF Held
        <3> QED
            BY <3>3, <3>4
    <2> QED
        BY <2>1, <2>2
<1>7. Voice(gs, ts, e, b) = Voice(fs, ts, e, b)
    BY <1>1, <1>3, <1>6 DEF Voice
<1> QED
    BY <1>3, <1>5, <1>7

(* What is thrown is owed by the entry that can hear it; others are owed what   *)
(* they were.                                                                   *)
LEMMA ThrowDue ==
    ASSUME NEW fs \in Seq(Frame), NEW ts, NEW d \in Errors, NEW gs, gs = Owing(fs, d),
           Len(fs) > 0 => fs[Len(fs)].kind # "closing", NEW b \in 1 .. Len(fs),
           Due(fs, ts, None, b) \/ OwedWhen(fs, d, b)
    PROVE  Due(gs, ts, d, b)
<1>1. gs \in Seq(Frame) /\ Likes(fs, gs) /\ \A i \in 1 .. Len(fs) : gs[i] = OwedFrame(fs, d, i)
    BY OwingIs
<1>2. PICK n \in Nat : Len(fs) = n
    OBVIOUS
<1>3. b \in Nat /\ b <= n /\ n > 0
    BY <1>2
<1>4. PICK V, W : V = Voice(fs, ts, None, b) /\ W = Voice(gs, ts, d, b)
    OBVIOUS
<1>5. PICK A : A = Asked(fs) /\ A = Asked(gs)
    BY <1>1, <1>3, LikeVoices
<1>6. W = Voice(fs, ts, d, b)
    BY <1>1, <1>3, <1>4, LikeVoices
<1>7. \A i \in Nat : i <= n => W[i] = V[i]
    <2>1. SameUpTo(fs, ts, None, fs, ts, d, n)
        BY <1>2, <1>3 DEF SameUpTo, Akin
    <2> QED
        BY <1>2, <1>3, <1>4, <1>6, <2>1, VoiceSame
<1>8. /\ \A i \in Nat : i > n + 1 => W[i] = None
      /\ W[n + 1] = IF Reaches(fs, b, n + 1) THEN d ELSE None
    <2>1. /\ \A i \in Nat : i > n + 1 \/ i <= b => W[i] = None
          /\ W[n + 1] = IF b <= n /\ Reaches(fs, b, n + 1) THEN d ELSE None
        BY <1>2, <1>3, <1>6, VoiceEnds
    <2> QED
        BY <1>3, <2>1
<1>9. CASE OwedWhen(fs, d, b)
    <2>1. /\ fs[b].kind = "call" /\ fs[b].phase = "run" /\ Uncatchable(d)
          /\ Reaches(fs, b, n + 1)
        BY <1>2, <1>9 DEF OwedWhen
    <2>2. gs[b] = [fs[b] EXCEPT !.owed = ThrownFor(d)]
        BY <1>1, <1>9 DEF OwedFrame
    <2>3. fs[b] \in CallFrame
        BY <2>1, ElementOfSeq, FrameIs
    <2>4. gs[b].owed = ThrownFor(d) /\ gs[b].phase = "run"
        BY <2>1, <2>2, <2>3, ThrownType, OweType DEF SameCall
    <2>5. Final(W, A, n + 1) /\ W[n + 1] = d
        <3>1. W[n + 1] = d /\ n + 1 \in Nat
            BY <1>8, <2>1
        <3> QED
            BY <1>8, <2>1, <3>1, NoneIsSilent DEF Final
    <2> QED
        BY <1>4, <1>5, <2>4, <2>5 DEF Due
<1>10. CASE ~OwedWhen(fs, d, b)
    <2>1. gs[b] = fs[b] /\ Due(fs, ts, None, b)
        BY <1>1, <1>10 DEF OwedFrame
    <2>2. ASSUME fs[b].kind = "call" /\ fs[b].phase = "run" PROVE Carried(V, A, W, A)
        <3>1. ~Uncatchable(W[n + 1])
            BY <1>2, <1>8, <1>10, <2>2, NoneIsSilent DEF OwedWhen
        <3>2. \A i \in Nat : i > n => V[i] = None
            <4>1. /\ \A i \in Nat : i > n + 1 \/ i <= b => V[i] = None
                  /\ V[n + 1] = None
                BY <1>2, <1>3, <1>4, VoiceEnds
            <4> QED
                BY <4>1
        <3>3. \A i \in Nat : Agrees(V, A, W, A, i)
            <4> SUFFICES ASSUME NEW i \in Nat PROVE Agrees(V, A, W, A, i)
                OBVIOUS
            <4>1. CASE i <= n
                BY <1>7, <4>1 DEF Agrees
            <4>2. CASE i = n + 1
                BY <3>1, <3>2, <4>2, NoneIsSilent DEF Agrees
            <4>3. CASE i > n + 1
                BY <1>8, <3>2, <4>3, NoneIsSilent DEF Agrees
            <4> QED
                BY <4>1, <4>2, <4>3
        <3> QED
            BY <3>3, CarriedOver
    <2>3. SameBut(fs[b], gs[b])
        BY <2>1 DEF SameBut
    <2> QED
        BY <1>4, <1>5, <2>1, <2>2, <2>3, DueCarried
<1> QED
    BY <1>9, <1>10

--------------------------------------------------------------------------------
(* What entries are owed stays owed, step by step.                              *)

NextDue == IsDue(frames', threads', err')

LEMMA PushedDue ==
    ASSUME NEW fs \in Seq(Frame), NEW gs \in Seq(Frame), NEW f, Pushes(fs, gs, f),
           NEW ts, NEW us, NEW e, NEW d, IsDue(fs, ts, e), f.kind = "call" => f.owed = None,
           \A b \in 1 .. Len(fs) : fs[b].kind = "call" /\ fs[b].phase = "run" =>
                Carried(Voice(fs, ts, e, b), Asked(fs), Voice(gs, us, d, b), Asked(gs))
    PROVE  IsDue(gs, us, d)
<1>1. PICK n \in Nat : Len(fs) = n /\ Len(gs) = n + 1
    BY DEF Pushes
<1> SUFFICES ASSUME NEW b \in 1 .. n + 1 PROVE Due(gs, us, d, b)
    BY <1>1 DEF IsDue
<1>2. CASE b = n + 1
    BY <1>1, <1>2 DEF Pushes, Due
<1>3. CASE b # n + 1
    <2>1. b \in 1 .. Len(fs)
        BY <1>1, <1>3
    <2>2. gs[b] = fs[b] /\ Due(fs, ts, e, b)
        BY <2>1 DEF Pushes, IsDue
    <2>3. SameBut(fs[b], gs[b])
        BY <2>2 DEF SameBut
    <2> QED
        BY <2>1, <2>2, <2>3, DueCarried
<1> QED
    BY <1>2, <1>3

LEMMA PoppedDue ==
    ASSUME NEW fs \in Seq(Frame), NEW gs \in Seq(Frame), Pops(fs, gs),
           NEW ts, NEW us, NEW e, NEW d, IsDue(fs, ts, e),
           \A b \in 1 .. Len(gs) : fs[b].kind = "call" /\ fs[b].phase = "run" =>
                Carried(Voice(fs, ts, e, b), Asked(fs), Voice(gs, us, d, b), Asked(gs))
    PROVE  IsDue(gs, us, d)
<1>1. PICK n \in Nat : Len(fs) = n + 1 /\ Len(gs) = n
    BY DEF Pops
<1> SUFFICES ASSUME NEW b \in 1 .. Len(gs) PROVE Due(gs, us, d, b)
    BY DEF IsDue
<1>2. b \in 1 .. Len(fs)
    BY <1>1
<1>3. gs[b] = fs[b] /\ Due(fs, ts, e, b)
    BY <1>2 DEF Pops, IsDue
<1>4. SameBut(fs[b], gs[b])
    BY <1>3 DEF SameBut
<1> QED
    BY <1>3, <1>4, DueCarried

LEMMA SameDue ==
    ASSUME NEW fs \in Seq(Frame), NEW ts, NEW us, KeptUpTo(fs, ts, us, Len(fs)), NEW e,
           IsDue(fs, ts, e)
    PROVE  IsDue(fs, us, e)
<1>1. PICK n \in Nat : Len(fs) = n
    OBVIOUS
<1>2. ASSUME NEW i \in Nat, i >= 1, i <= n + 1 PROVE Held(fs, us, e, i) = Held(fs, ts, e, i)
    <2>1. CASE i = n + 1
        BY <1>1, <2>1 DEF Held
    <2>2. CASE i # n + 1
        <3>1. i \in 1 .. Len(fs)
            BY <1>1, <1>2, <2>2
        <3> QED
            BY <3>1 DEF Held, KeptUpTo
    <2> QED
        BY <2>1, <2>2
<1>3. ASSUME NEW b \in Nat PROVE Voice(fs, us, e, b) = Voice(fs, ts, e, b)
    BY <1>1, <1>2 DEF Voice
<1>4. \A b \in 1 .. Len(fs) : Due(fs, us, e, b) <=> Due(fs, ts, e, b)
    BY <1>3 DEF Due
<1> QED
    BY <1>4 DEF IsDue

(* Only one close, if any, keeps a thread's error.                              *)
LEMMA KeptBut ==
    ASSUME NEW fs \in Seq(Frame), NEW m \in Nat, m <= Len(fs), NEW ts, NEW us, NEW t,
           OnlyChanges(ts, us, t),
           us[t].err = ts[t].err \/ \A k \in 1 .. m : ~(fs[k].kind = "closing" /\ fs[k].on = t)
    PROVE  KeptUpTo(fs, ts, us, m)
<1> SUFFICES ASSUME NEW k \in 1 .. m, fs[k].kind = "closing"
             PROVE  us[fs[k].on].err = ts[fs[k].on].err
    BY DEF KeptUpTo
<1>1. k \in 1 .. Len(fs)
    OBVIOUS
<1>2. fs[k].on \in Threads
    BY <1>1, ElementOfSeq, FrameIs DEF ClosingFrame
<1> QED
    BY <1>2 DEF OnlyChanges

LEMMA UnderOther ==
    ASSUME NEW fs \in Seq(Frame), Built(fs), Len(fs) > 1, fs[Len(fs)].kind # "handler"
    PROVE  fs[Len(fs) - 1].kind # "closing"
<1>1. PICK n \in Nat : Len(fs) = n + 1 /\ n > 0
    <2>1. Len(fs) \in Nat
        OBVIOUS
    <2>2. Len(fs) - 1 \in Nat /\ Len(fs) - 1 > 0 /\ Len(fs) = (Len(fs) - 1) + 1
        BY <2>1
    <2> QED
        BY <2>2
<1>2. Seat(fs, n) /\ n < Len(fs)
    BY <1>1 DEF Built
<1>3. fs[n].kind = "closing" => fs[n + 1].kind = "handler"
    BY <1>2 DEF Seat
<1> QED
    BY <1>1, <1>3

LEMMA DueFacts ==
    ASSUME OnStack, Quiet(frames, threads, err), IsDue(frames, threads, err)
    PROVE  /\ frames \in Seq(Frame) /\ Len(frames) \in Nat /\ Built(frames)
           /\ Bodies(frames, threads) /\ Clear(frames, threads, err)
           /\ threads \in [Threads -> ThreadState]
           /\ KeptUpTo(frames, threads, threads, Len(frames))
           /\ \A m \in Nat : KeptUpTo(frames, threads, threads, m)
BY StackIs DEF Quiet, KeptUpTo

LEMMA ThrowingDue ==
    ASSUME OnStack, Quiet(frames, threads, err), IsDue(frames, threads, err), Throwing
    PROVE  NextDue
<1>1. /\ frames \in Seq(Frame) /\ err = None
      /\ Len(frames) > 0 => frames[Len(frames)].kind # "closing"
    BY DueFacts, LuaTop DEF Throwing
<1>2. err' \in Errors /\ frames' = Owing(frames, err') /\ threads' = threads
    BY DEF Throwing
<1>3. Len(frames') = Len(frames)
    BY <1>1, <1>2, OwingIs DEF Likes
<1>4. \A b \in 1 .. Len(frames) : Due(frames, threads, None, b)
    BY <1>1 DEF IsDue
<1> QED
    BY <1>1, <1>2, <1>3, <1>4, ThrowDue DEF NextDue, IsDue

LEMMA PushingDue ==
    ASSUME OnStack, Quiet(frames, threads, err), IsDue(frames, threads, err), NEW f,
           \/ Pushing(f) \/ Entering(f) \/ (\E q : Started(f, q))
    PROVE  NextDue
<1>1. /\ frames \in Seq(Frame) /\ frames' \in Seq(Frame) /\ Pushes(frames, frames', f)
      /\ err = None /\ err' = None
    BY DueFacts DEF Pushing, Entering, Started, DoesPush
<1>2. Plain(f) /\ (f.kind = "call" => f.owed = None)
    BY DEF Pushing, MayPush, Entering, Started, ResumeFrame, CallFrame, Plain
<1>3. KeptUpTo(frames, threads, threads', Len(frames))
    <2>1. CASE Pushing(f)
        BY <2>1, DueFacts DEF Pushing
    <2>2. CASE Entering(f)
        <3>1. \A t \in Threads : threads'[t].err = threads[t].err
            BY <2>2 DEF Entering, KeepsErrors
        <3>2. \A k \in 1 .. Len(frames) : frames[k].kind = "closing" => frames[k].on \in Threads
            BY <1>1, ElementOfSeq, FrameIs DEF ClosingFrame
        <3> QED
            BY <3>1, <3>2 DEF KeptUpTo
    <2>3. CASE \E q : Started(f, q)
        <3>1. PICK q : Started(f, q)
            BY <2>3
        <3>2. OnlyChanges(threads, threads', f.on) /\ threads'[f.on].err = threads[f.on].err
            BY <3>1 DEF Started, ThreadSet
        <3> QED
            BY <1>1, <3>2, KeptBut, DueFacts
    <2> QED
        BY <2>1, <2>2, <2>3
<1>4. \A b \in 1 .. Len(frames) :
        Carried(Voice(frames, threads, None, b), Asked(frames),
                Voice(frames', threads', None, b), Asked(frames'))
    BY <1>1, <1>2, <1>3, PushCarries
<1> QED
    BY <1>1, <1>2, <1>4, PushedDue DEF NextDue

LEMMA KeptIs ==
    ASSUME NEW e \in Errors, NEW d, d \in {e, Kept(e)} \/ d = (IF e = "nomem" THEN "fatal" ELSE e)
    PROVE  /\ Uncatchable(e) <=> Uncatchable(d)
           /\ Uncatchable(e) => ThrownFor(d) = ThrownFor(e)
BY CallsAssumption, NoneIsSilent DEF Errors, Kept, Uncatchable, IsFatal, ThrownFor

LEMMA PoppingDue ==
    ASSUME OnStack, Quiet(frames, threads, err), IsDue(frames, threads, err),
           \/ Popping \/ Settled \/ (\E t, q : Created(t, q)) \/ (\E q : Back(q) /\ err = None)
    PROVE  NextDue
<1>1. /\ frames \in Seq(Frame) /\ frames' \in Seq(Frame) /\ Pops(frames, frames') /\ err' = None
    BY DueFacts DEF Popping, Settled, Created, Back, DoesPop
<1>2. PICK n \in Nat : Len(frames) = n + 1 /\ Len(frames') = n
    BY <1>1 DEF Pops
<1>3. /\ Plain(frames[Len(frames)])
      /\ err = None \/ Blocks(frames[Len(frames)])
    BY DEF Popping, Settled, Created, Back, Topmost, CallFrame, ResumeFrame, Plain, Blocks
<1>4. KeptUpTo(frames, threads, threads', Len(frames'))
    <2>1. CASE Popping \/ Settled
        <3>1. threads' = threads
            BY <2>1 DEF Popping, Settled
        <3> QED
            BY <1>2, <3>1, DueFacts
    <2>2. CASE \E t, q : Created(t, q)
        <3>1. PICK t, q : Created(t, q)
            BY <2>2
        <3>2. OnlyChanges(threads, threads', t) /\ threads[t].status = "unborn"
            BY <3>1 DEF Created, ThreadSet
        <3>3. \A k \in 1 .. n : ~(frames[k].kind = "closing" /\ frames[k].on = t)
            <4> SUFFICES ASSUME NEW k \in 1 .. n, frames[k].kind = "closing", frames[k].on = t
                         PROVE  FALSE
                OBVIOUS
            <4>1. k \in 1 .. Len(frames)
                BY <1>2
            <4> QED
                BY <3>2, <4>1, DueFacts DEF Bodies
        <3> QED
            BY <1>1, <1>2, <3>2, <3>3, KeptBut
    <2>3. CASE \E q : Back(q) /\ err = None
        <3>1. PICK q : Back(q) /\ err = None
            BY <2>3
        <3>2. PICK t : t = Topmost.on
            OBVIOUS
        <3>3. OnlyChanges(threads, threads', t) /\ threads'[t].err = threads[t].err
            BY <3>1, <3>2 DEF Back, ThreadSet
        <3> QED
            BY <1>1, <1>2, <3>3, KeptBut
    <2> QED
        BY <2>1, <2>2, <2>3
<1>5. \A b \in 1 .. Len(frames') :
        Carried(Voice(frames, threads, err, b), Asked(frames),
                Voice(frames', threads', None, b), Asked(frames'))
    BY <1>1, <1>3, <1>4, PopCarries
<1> QED
    BY <1>1, <1>5, PoppedDue DEF NextDue

LEMMA UnwindingDue ==
    ASSUME OnStack, Quiet(frames, threads, err), IsDue(frames, threads, err),
           Unwinding \/ (\E q : Back(q) /\ err # None)
    PROVE  NextDue
<1>1. /\ frames \in Seq(Frame) /\ frames' \in Seq(Frame) /\ Pops(frames, frames')
      /\ err \in Errors /\ err' \in {err, Kept(err)}
    BY DueFacts, StackIs DEF Unwinding, Back, DoesPop
<1>2. PICK n \in Nat : Len(frames) = n + 1 /\ Len(frames') = n
    BY <1>1 DEF Pops
<1>3. frames[Len(frames)].kind \in {"pcall", "xpcall", "create", "resume", "wrap"}
    BY DEF Unwinding, Back, Topmost, ResumeFrame
<1>4. Plain(frames[Len(frames)]) /\ ~Blocks(frames[Len(frames)]) /\ ~Asks(frames, Len(frames))
    BY <1>3 DEF Plain, Blocks, Asks
<1>5. Len(frames') = 0 \/ frames[Len(frames')].kind # "closing"
    <2> SUFFICES ASSUME n > 0 PROVE frames[n].kind # "closing"
        BY <1>2
    <2>1. Len(frames) > 1 /\ Len(frames) - 1 = n /\ frames[Len(frames)].kind # "handler"
        BY <1>2, <1>3
    <2> QED
        BY <1>1, <2>1, UnderOther, DueFacts
<1>6. KeptUpTo(frames, threads, threads', Len(frames'))
    <2>1. CASE Unwinding
        <3>1. threads' = threads
            BY <2>1 DEF Unwinding
        <3> QED
            BY <1>2, <3>1, DueFacts
    <2>2. CASE \E q : Back(q) /\ err # None
        <3>1. PICK q : Back(q)
            BY <2>2
        <3>2. PICK t : t = frames[Len(frames)].on
            OBVIOUS
        <3>3. OnlyChanges(threads, threads', t)
            BY <3>1, <3>2 DEF Back, ThreadSet, Topmost
        <3>4. ~ClosedIn(frames, t)
            <4>1. Len(frames) > 0 /\ frames[Len(frames)].kind \in {"resume", "wrap"}
                BY <1>2, <3>1 DEF Back, Topmost, ResumeFrame
            <4> QED
                BY <1>1, <3>2, <4>1, ResumedOpen, DueFacts
        <3>5. \A k \in 1 .. n : ~(frames[k].kind = "closing" /\ frames[k].on = t)
            BY <1>2, <3>4 DEF ClosedIn
        <3> QED
            BY <1>1, <1>2, <3>3, <3>5, KeptBut
    <2> QED
        BY <2>1, <2>2
<1>7. /\ Uncatchable(err) <=> Uncatchable(err')
      /\ Uncatchable(err) => ThrownFor(err') = ThrownFor(err)
    BY <1>1, KeptIs
<1>8. \A b \in 1 .. Len(frames') :
        Carried(Voice(frames, threads, err, b), Asked(frames),
                Voice(frames', threads', err', b), Asked(frames'))
    BY <1>1, <1>4, <1>5, <1>6, <1>7, UnwindCarries
<1> QED
    BY <1>1, <1>8, PoppedDue DEF NextDue

LEMMA PopThrowingDue ==
    ASSUME OnStack, Quiet(frames, threads, err), IsDue(frames, threads, err), PopThrowing
    PROVE  NextDue
<1>1. frames \in Seq(Frame) /\ Built(frames) /\ frames # <<>>
    BY DueFacts DEF PopThrowing
<1>2. PICK us \in Seq(Frame) : us = Front(frames) /\ Pops(frames, us)
    BY <1>1, Popped
<1>3. PICK n \in Nat : Len(frames) = n + 1 /\ Len(us) = n /\ \A k \in 1 .. n : us[k] = frames[k]
    BY <1>2 DEF Pops
<1>4. /\ frames[Len(frames)].kind \in {"create", "gc", "callable"}
      /\ err # None => frames[Len(frames)].kind = "gc"
      /\ err' \in Errors /\ frames' = Owing(us, err') /\ threads' = threads
    BY <1>2 DEF PopThrowing, Topmost
<1>5. KeptUpTo(frames, threads, threads, Len(us))
    BY <1>3, DueFacts
<1>6. Plain(frames[Len(frames)]) /\ (err = None \/ Blocks(frames[Len(frames)]))
    BY <1>4 DEF Plain, Blocks
<1>7. \A b \in 1 .. Len(us) :
        Carried(Voice(frames, threads, err, b), Asked(frames),
                Voice(us, threads, None, b), Asked(us))
    BY <1>1, <1>2, <1>5, <1>6, PopCarries
<1>8. IsDue(us, threads, None)
    BY <1>1, <1>2, <1>7, PoppedDue
<1>9. Len(us) > 0 => us[Len(us)].kind # "closing"
    <2> SUFFICES ASSUME n > 0 PROVE frames[n].kind # "closing"
        BY <1>3
    <2>1. Len(frames) > 1 /\ Len(frames) - 1 = n /\ frames[Len(frames)].kind # "handler"
        BY <1>3, <1>4
    <2> QED
        BY <1>1, <2>1, UnderOther
<1>10. Len(frames') = Len(us)
    BY <1>4, OwingIs DEF Likes
<1>11. \A b \in 1 .. Len(us) : Due(us, threads, None, b)
    BY <1>8 DEF IsDue
<1> QED
    BY <1>4, <1>9, <1>10, <1>11, ThrowDue DEF NextDue, IsDue

LEMMA RetoppedDue ==
    ASSUME NEW fs \in Seq(Frame), NEW gs \in Seq(Frame), NEW f, Retops(fs, gs, f),
           Plain(f), Plain(fs[Len(fs)]), Blocks(fs[Len(fs)]) <=> Blocks(f),
           NEW ts, NEW e, NEW d, d = e \/ Blocks(f), IsDue(fs, ts, e),
           (d = e /\ SameBut(fs[Len(fs)], f)) \/ Due(gs, ts, d, Len(fs))
    PROVE  IsDue(gs, ts, d)
<1>1. PICK n \in Nat : /\ Len(fs) = n /\ Len(gs) = n /\ n > 0 /\ gs[n] = f
                       /\ \A k \in 1 .. n : k # n => gs[k] = fs[k]
    BY DEF Retops
<1> SUFFICES ASSUME NEW b \in 1 .. n PROVE Due(gs, ts, d, b)
    BY <1>1 DEF IsDue
<1>2. b \in 1 .. Len(fs) /\ Due(fs, ts, e, b)
    BY <1>1 DEF IsDue
<1>3. Akin(fs[Len(fs)], f)
    BY DEF Akin
<1>4. d = e \/ b < Len(fs) =>
        Carried(Voice(fs, ts, e, b), Asked(fs), Voice(gs, ts, d, b), Asked(gs))
    BY <1>2, <1>3, RetopCarries
<1>5. CASE b # n
    <2>1. b < Len(fs) /\ gs[b] = fs[b]
        BY <1>1, <1>5
    <2>2. SameBut(fs[b], gs[b])
        BY <2>1 DEF SameBut
    <2> QED
        BY <1>2, <1>4, <2>1, <2>2, DueCarried
<1>6. CASE b = n /\ d = e /\ SameBut(fs[n], f)
    BY <1>1, <1>2, <1>4, <1>6, DueCarried
<1>7. CASE b = n /\ Due(gs, ts, d, n)
    BY <1>7
<1> QED
    BY <1>1, <1>5, <1>6, <1>7

LEMMA SkippingDue ==
    ASSUME OnStack, Quiet(frames, threads, err), IsDue(frames, threads, err), NEW f,
           Skipping(f) \/ Making(f)
    PROVE  NextDue
<1>1. /\ frames \in Seq(Frame) /\ frames' \in Seq(Frame) /\ Retops(frames, frames', f)
      /\ threads' = threads /\ err' = err
    BY DueFacts DEF Skipping, Making, DoesRetop
<1>2. /\ Plain(f) /\ Plain(frames[Len(frames)]) /\ SameBut(frames[Len(frames)], f)
      /\ Blocks(frames[Len(frames)]) <=> Blocks(f)
    BY DEF Skipping, Making, Topmost, Plain, Blocks, SameBut
<1> QED
    BY <1>1, <1>2, RetoppedDue DEF NextDue

LEMMA AdvancingDue ==
    ASSUME OnStack, Quiet(frames, threads, err), IsDue(frames, threads, err), NEW f,
           BodyOver(f) \/ WalkOver(f) \/ FilesOver(f) \/ Leaving(f)
    PROVE  NextDue
<1>1. Advancing(f)
    BY DEF BodyOver, WalkOver, FilesOver, Leaving
<1>2. /\ frames \in Seq(Frame) /\ frames' \in Seq(Frame) /\ Retops(frames, frames', f)
      /\ threads' = threads /\ f.owed = frames[Len(frames)].owed /\ Len(frames) \in Nat
    BY <1>1, DueFacts DEF Advancing, DoesRetop, Topmost
<1>3. f.kind = "call" /\ frames[Len(frames)].kind = "call"
    BY <1>1 DEF Advancing, Topmost, CallFrame
<1>4. Plain(f) /\ Plain(frames[Len(frames)]) /\ Blocks(f) /\ Blocks(frames[Len(frames)])
    BY <1>3 DEF Plain, Blocks
<1>5. PICK n \in Nat : Len(frames) = n /\ Len(frames') = n /\ n > 0 /\ frames'[n] = f
    BY <1>2 DEF Retops
<1>6. Due(frames, threads, err, n)
    BY <1>5 DEF IsDue
<1>7. f.phase # "run"
    BY DEF BodyOver, WalkOver, FilesOver, Leaving
<1>8. f.owed # None => f.result # None /\ ThrownFor(f.result) = f.owed
    <2> SUFFICES ASSUME f.owed # None PROVE f.result # None /\ ThrownFor(f.result) = f.owed
        OBVIOUS
    <2>1. CASE BodyOver(f)
        <3>1. frames[n].phase = "run" /\ f.result = err
            BY <1>5, <2>1 DEF BodyOver, Topmost
        <3>2. PICK V : V = Voice(frames, threads, err, n)
            OBVIOUS
        <3>3. PICK h \in Nat : Uncatchable(V[h]) /\ ThrownFor(V[h]) = f.owed
            BY <1>2, <1>3, <1>5, <1>6, <3>1, <3>2 DEF Due, Final
        <3>4. h = n + 1
            <4>1. \A i \in Nat : i > n + 1 \/ i <= n => V[i] = None
                BY <1>2, <1>5, <3>2, VoiceEnds
            <4> QED
                BY <3>3, <4>1, NoneIsSilent
        <3>5. V[n + 1] = err \/ V[n + 1] = None
            <4>1. V[n + 1] = IF n <= n /\ Reaches(frames, n, n + 1) THEN err ELSE None
                BY <1>2, <1>5, <3>2, VoiceEnds
            <4> QED
                BY <4>1
        <3> QED
            BY <3>1, <3>3, <3>4, <3>5, NoneIsSilent
    <2>2. CASE ~BodyOver(f)
        <3>1. frames[n].phase # "run"
            BY <1>5, <2>2 DEF WalkOver, FilesOver, Leaving, Topmost
        <3>2. frames[n].result # None /\ ThrownFor(frames[n].result) = f.owed
            BY <1>2, <1>3, <1>5, <1>6, <3>1 DEF Due
        <3>3. frames[n].result # None => f.result = frames[n].result
            BY <1>5, <2>2 DEF WalkOver, FilesOver, Leaving, Topmost
        <3> QED
            BY <3>2, <3>3
    <2> QED
        BY <2>1, <2>2
<1>9. Due(frames', threads, err', n)
    BY <1>5, <1>7, <1>8 DEF Due
<1> QED
    BY <1>2, <1>4, <1>5, <1>9, RetoppedDue DEF NextDue

LEMMA HandlingDue ==
    ASSUME OnStack, Quiet(frames, threads, err), IsDue(frames, threads, err), NEW f, NEW h,
           Handling(f, h)
    PROVE  NextDue
<1>1. frames \in Seq(Frame) /\ frames # <<>> /\ f \in Frame /\ h \in Frame
    BY DueFacts DEF Handling
<1>2. PICK us \in Seq(Frame) : us = Append(Front(frames), f) /\ Retops(frames, us, f)
    BY <1>1, Retopped
<1>3. /\ frames' \in Seq(Frame) /\ Pushes(us, frames', h) /\ threads' = threads /\ err' = None
      /\ h.kind = "handler" /\ h.over = err
    BY <1>1, <1>2, Pushed DEF Handling
<1>4. /\ Plain(f) /\ Plain(frames[Len(frames)]) /\ SameBut(frames[Len(frames)], f)
      /\ Blocks(frames[Len(frames)]) <=> Blocks(f)
    BY DEF Handling, Topmost, Plain, Blocks, SameBut
<1>5. IsDue(us, threads, err)
    BY <1>1, <1>2, <1>4, RetoppedDue
<1>6. Plain(us[Len(us)]) /\ Len(us) > 0
    BY <1>2, <1>4 DEF Retops
<1>7. \A b \in 1 .. Len(us) :
        Carried(Voice(us, threads, err, b), Asked(us),
                Voice(frames', threads, None, b), Asked(frames'))
    BY <1>2, <1>3, <1>6, HandleCarries
<1> QED
    BY <1>2, <1>3, <1>5, <1>7, PushedDue DEF NextDue

LEMMA HandlerBackDue ==
    ASSUME OnStack, Quiet(frames, threads, err), IsDue(frames, threads, err), HandlerBack
    PROVE  NextDue
<1>1. /\ frames \in Seq(Frame) /\ frames' \in Seq(Frame) /\ Pops(frames, frames')
      /\ threads' = threads /\ err = None
      /\ frames[Len(frames)].kind = "handler" /\ frames[Len(frames)].over = err'
    BY DueFacts DEF HandlerBack, DoesPop, Topmost
<1>2. Len(frames') > 0 /\ frames[Len(frames')].kind = "closing" =>
        threads[frames[Len(frames')].on].err = err'
    <2>1. PICK n \in Nat : Len(frames) = n + 1 /\ Len(frames') = n
        BY <1>1 DEF Pops
    <2> SUFFICES ASSUME n > 0, frames[n].kind = "closing" PROVE threads[frames[n].on].err = err'
        BY <2>1
    <2>2. n \in 1 .. Len(frames) /\ n < Len(frames)
        BY <2>1
    <2> QED
        BY <1>1, <2>1, <2>2, DueFacts DEF Bodies
<1>3. \A b \in 1 .. Len(frames') :
        Carried(Voice(frames, threads, None, b), Asked(frames),
                Voice(frames', threads, err', b), Asked(frames'))
    BY <1>1, <1>2, BackCarries
<1> QED
    BY <1>1, <1>3, PoppedDue DEF NextDue

LEMMA HandlerLostDue ==
    ASSUME OnStack, Quiet(frames, threads, err), IsDue(frames, threads, err), HandlerLost
    PROVE  NextDue
<1>1. frames \in Seq(Frame) /\ frames # <<>> /\ Built(frames)
    BY DueFacts DEF HandlerLost
<1>2. PICK us \in Seq(Frame) : us = Front(frames) /\ Pops(frames, us)
    BY <1>1, Popped
<1>3. PICK n \in Nat : Len(frames) = n + 1 /\ Len(us) = n /\ \A k \in 1 .. n : us[k] = frames[k]
    BY <1>2 DEF Pops
<1>4. PICK over : over = frames[Len(frames)].over
    OBVIOUS
<1>5. /\ frames[Len(frames)].kind = "handler" /\ err' = err /\ threads' = threads
      /\ frames' = Forgiving(us, over, err)
    BY <1>2, <1>4 DEF HandlerLost, Topmost
<1>6. /\ frames' \in Seq(Frame) /\ Likes(us, frames')
      /\ \A i \in 1 .. Len(us) : frames'[i] = us[i] \/ frames'[i].owed = None
      /\ Uncatchable(over) /\ ~Uncatchable(err) =>
            \A i \in 1 .. Len(us) :
                us[i].kind = "call" /\ Reaches(us, i, Len(us) + 1) => frames'[i].owed = None
    BY <1>5, ForgivingIs
<1>7. KeptUpTo(frames, threads, threads, Len(us))
    BY <1>3, DueFacts
<1>8. ~Blocks(frames[Len(frames)]) /\ ~Asks(frames, Len(frames))
    BY <1>5 DEF Blocks, Asks
<1>9. n > 0 /\ frames[n].kind = "closing" => threads[frames[n].on].err = over
    <2> SUFFICES ASSUME n > 0, frames[n].kind = "closing" PROVE threads[frames[n].on].err = over
        OBVIOUS
    <2>1. n \in 1 .. Len(frames) /\ n < Len(frames)
        BY <1>3
    <2> QED
        BY <1>3, <1>4, <2>1, DueFacts DEF Bodies
<1>10. Len(frames') = n
    BY <1>3, <1>6 DEF Likes
<1> SUFFICES ASSUME NEW b \in 1 .. n PROVE Due(frames', threads, err, b)
    BY <1>5, <1>10 DEF NextDue, IsDue
<1>11. b \in 1 .. Len(us) /\ b \in 1 .. Len(frames) /\ us[b] = frames[b]
    BY <1>3
<1>12. CASE frames'[b].owed = None
    BY <1>12 DEF Due
<1>13. CASE frames'[b].owed # None
    <2>1. frames'[b] = frames[b]
        BY <1>6, <1>11, <1>13
    <2>2. Due(frames, threads, err, b)
        BY <1>11 DEF IsDue
    <2>3. SameBut(frames[b], frames'[b])
        BY <2>1 DEF SameBut
    <2>4. ASSUME frames[b].kind = "call"
          PROVE  Carried(Voice(frames, threads, err, b), Asked(frames),
                         Voice(us, threads, err, b), Asked(us))
        <3>1. Uncatchable(err) \/ ~Uncatchable(over) \/ ~Reaches(us, b, Len(us) + 1)
            BY <1>6, <1>11, <1>13, <2>4
        <3>2. \/ Uncatchable(err)
              \/ Plain(frames[Len(frames)])
              \/ frames[Len(frames)].kind = "handler" /\ ~Uncatchable(frames[Len(frames)].over)
              \/ ~Reaches(us, b, Len(us) + 1)
            BY <1>4, <1>5, <3>1
        <3>3. \/ Uncatchable(err)
              \/ Len(us) = 0 \/ frames[Len(us)].kind # "closing"
              \/ ~Uncatchable(threads[frames[Len(us)].on].err)
              \/ ~Reaches(us, b, Len(us) + 1)
            BY <1>3, <1>9, <3>1
        <3> QED
            BY <1>1, <1>2, <1>7, <1>8, <1>11, <3>2, <3>3, UnwindCarries
    <2>5. /\ Voice(frames', threads, err, b) = Voice(us, threads, err, b)
          /\ Asked(frames') = Asked(us)
        BY <1>6, <1>11, LikeVoices
    <2> QED
        BY <2>2, <2>3, <2>4, <2>5, DueCarried
<1> QED
    BY <1>12, <1>13

LEMMA RestingDue ==
    ASSUME OnStack, Quiet(frames, threads, err), IsDue(frames, threads, err),
           Resting \/ (\E t : Collected(t))
    PROVE  NextDue
<1>1. CASE Resting
    BY <1>1 DEF Resting, NextDue
<1>2. CASE \E t : Collected(t)
    <2>1. PICK t : Collected(t)
        BY <1>2
    <2>2. /\ frames \in Seq(Frame) /\ OnlyChanges(threads, threads', t) /\ ~ClosedIn(frames, t)
          /\ frames' = frames /\ err = None /\ err' = None
        BY <2>1, DueFacts DEF Collected, ThreadSet
    <2>3. Len(frames) \in Nat
        BY <2>2
    <2>4. \A k \in 1 .. Len(frames) : ~(frames[k].kind = "closing" /\ frames[k].on = t)
        BY <2>2 DEF ClosedIn
    <2>5. KeptUpTo(frames, threads, threads', Len(frames))
        BY <2>2, <2>3, <2>4, KeptBut
    <2> QED
        BY <2>2, <2>5, SameDue DEF NextDue
<1> QED
    BY <1>1, <1>2

LEMMA StoredDue ==
    ASSUME NEW fs \in Seq(Frame), NEW gs \in Seq(Frame), NEW n \in Nat, Len(fs) = n, Len(gs) = n,
           \A k \in 1 .. n : k # n => gs[k] = fs[k],
           NEW ts, NEW us, \A l \in Nat : l < n => KeptUpTo(fs, ts, us, l), NEW e, e # None,
           n > 0, gs[n].kind = "closing", us[gs[n].on].err = e,
           Plain(fs[n]) \/ fs[n].kind = "closing", ~Blocks(fs[n]), Asks(fs, n) => Asks(gs, n),
           IsDue(fs, ts, e)
    PROVE  IsDue(gs, us, None)
<1> SUFFICES ASSUME NEW b \in 1 .. n PROVE Due(gs, us, None, b)
    BY DEF IsDue
<1>1. CASE b = n
    BY <1>1 DEF Due
<1>2. CASE b # n
    <2>1. b < n /\ Due(fs, ts, e, b) /\ gs[b] = fs[b]
        BY <1>2 DEF IsDue
    <2>2. Carried(Voice(fs, ts, e, b), Asked(fs), Voice(gs, us, None, b), Asked(gs))
        BY <2>1, StoreCarries
    <2>3. SameBut(fs[b], gs[b])
        BY <2>1 DEF SameBut
    <2> QED
        BY <2>1, <2>2, <2>3, DueCarried
<1> QED
    BY <1>1, <1>2

LEMMA WrapBrokenDue ==
    ASSUME OnStack, Quiet(frames, threads, err), IsDue(frames, threads, err), NEW f, NEW q,
           WrapBroken(f, q)
    PROVE  NextDue
<1>1. /\ frames \in Seq(Frame) /\ frames' \in Seq(Frame) /\ Retops(frames, frames', f)
      /\ err # None /\ err' = None
    BY DueFacts DEF WrapBroken, DoesRetop
<1>2. PICK n \in Nat : /\ Len(frames) = n /\ Len(frames') = n /\ n > 0 /\ frames'[n] = f
                       /\ \A k \in 1 .. n : k # n => frames'[k] = frames[k]
    BY <1>1 DEF Retops
<1>3. PICK t : t = f.on
    OBVIOUS
<1>4. /\ frames[n].kind = "wrap" /\ frames[n].on = t /\ f.kind = "closing"
      /\ t \in Threads /\ OnlyChanges(threads, threads', t)
      /\ threads'[t] = [threads[t] EXCEPT !.status = "failed", !.err = err]
    BY <1>2, <1>3 DEF WrapBroken, Topmost, ClosingFrame, ThreadSet
<1>5. threads'[t].err = err
    BY <1>4, DueFacts DEF ThreadState
<1>6. ~ClosedIn(frames, t)
    BY <1>1, <1>2, <1>4, ResumedOpen, DueFacts
<1>7. ASSUME NEW l \in Nat, l < n PROVE KeptUpTo(frames, threads, threads', l)
    <2>1. \A k \in 1 .. l : ~(frames[k].kind = "closing" /\ frames[k].on = t)
        BY <1>2, <1>6, <1>7 DEF ClosedIn
    <2> QED
        BY <1>1, <1>2, <1>4, <1>7, <2>1, KeptBut
<1>8. Plain(frames[n]) /\ ~Blocks(frames[n]) /\ ~Asks(frames, n)
    BY <1>4 DEF Plain, Blocks, Asks
<1> QED
    BY <1>1, <1>2, <1>3, <1>4, <1>5, <1>7, <1>8, StoredDue DEF NextDue

\* No other close on the stack ends the thread the top one ends.
LEMMA OnlyCloser ==
    ASSUME NEW fs \in Seq(Frame), NEW ts, Bodies(fs, ts), NEW n \in Nat, Len(fs) = n, n > 0,
           fs[n].kind = "closing", NEW us, OnlyChanges(ts, us, fs[n].on),
           NEW l \in Nat, l < n
    PROVE  KeptUpTo(fs, ts, us, l)
<1>1. ASSUME NEW k \in 1 .. l, fs[k].kind = "closing", fs[k].on = fs[n].on PROVE FALSE
    <2>1. k \in 1 .. Len(fs) /\ n \in 1 .. Len(fs) /\ k # n
        OBVIOUS
    <2> QED
        BY <1>1, <2>1 DEF Bodies
<1> QED
    BY <1>1, KeptBut

LEMMA HeardDue ==
    ASSUME OnStack, Quiet(frames, threads, err), IsDue(frames, threads, err), NEW q, Heard(q)
    PROVE  NextDue
<1>1. frames \in Seq(Frame) /\ frames # <<>> /\ err # None /\ err' = None /\ frames' = frames
    BY DueFacts DEF Heard
<1>2. PICK n \in Nat : Len(frames) = n /\ n > 0
    BY <1>1, TopIs
<1>3. PICK t : t = frames[n].on
    OBVIOUS
<1>4. /\ frames[n].kind = "closing" /\ t \in Threads /\ OnlyChanges(threads, threads', t)
      /\ threads'[t] = [threads[t] EXCEPT !.err = err]
    BY <1>2, <1>3 DEF Heard, Topmost, ClosingFrame, ThreadSet
<1>5. threads'[t].err = err
    BY <1>4, DueFacts DEF ThreadState
<1>6. \A l \in Nat : l < n => KeptUpTo(frames, threads, threads', l)
    BY <1>1, <1>2, <1>3, <1>4, OnlyCloser, DueFacts
<1>7. ~Blocks(frames[n])
    BY <1>4 DEF Blocks
<1> QED
    BY <1>1, <1>2, <1>3, <1>4, <1>5, <1>6, <1>7, StoredDue DEF NextDue

LEMMA ScopeEndsDue ==
    ASSUME OnStack, Quiet(frames, threads, err), IsDue(frames, threads, err), NEW h, NEW q,
           ScopeEnds(h, q)
    PROVE  NextDue
<1>1. /\ frames \in Seq(Frame) /\ frames' \in Seq(Frame) /\ Pushes(frames, frames', h)
      /\ err = None /\ err' = None /\ h.kind = "handler" /\ Len(frames) > 0
    BY DueFacts DEF ScopeEnds, DoesPush
<1>2. PICK t : t = Topmost.on
    OBVIOUS
<1>3. t \in Threads /\ OnlyChanges(threads, threads', t) /\ threads'[t] = [threads[t] EXCEPT !.open = FALSE]
    BY <1>2 DEF ScopeEnds, ThreadSet
<1>4. threads'[t].err = threads[t].err
    BY <1>3, DueFacts DEF ThreadState
<1>5. KeptUpTo(frames, threads, threads', Len(frames))
    <2>1. Len(frames) \in Nat /\ Len(frames) <= Len(frames)
        BY <1>1
    <2> QED
        BY <1>1, <1>3, <1>4, <2>1, KeptBut
<1>6. ASSUME NEW b \in 1 .. Len(frames), frames[b].kind = "call"
      PROVE  Carried(Voice(frames, threads, None, b), Asked(frames),
                     Voice(frames', threads', None, b), Asked(frames'))
    <2>1. CASE frames[Len(frames)].kind = "closing"
        <3>1. h.over = threads[frames[Len(frames)].on].err
            BY <2>1 DEF ScopeEnds, Topmost
        <3>2. Len(frames) > 1 => frames[Len(frames) - 1].kind # "closing"
            BY <1>1, <2>1, UnderOther, DueFacts
        <3>3. b < Len(frames)
            BY <1>1, <1>6, <2>1, DueFacts
        <3> QED
            BY <1>1, <1>5, <2>1, <3>1, <3>2, <3>3, ScopeCarries
    <2>2. CASE frames[Len(frames)].kind # "closing"
        <3>1. h.over = None
            BY <2>2 DEF ScopeEnds, Topmost
        <3>2. ~Uncatchable(h.over)
            BY <3>1, NoneIsSilent
        <3> QED
            BY <1>1, <1>5, <3>2, PushCarries
    <2> QED
        BY <2>1, <2>2
<1> QED
    BY <1>1, <1>6, PushedDue DEF NextDue

LEMMA ClosePushDue ==
    ASSUME OnStack, Quiet(frames, threads, err), IsDue(frames, threads, err), NEW f, ClosePush(f)
    PROVE  NextDue
<1>1. /\ frames \in Seq(Frame) /\ frames' \in Seq(Frame) /\ Pushes(frames, frames', f)
      /\ err = None /\ err' = None /\ threads' = threads /\ f.kind = "closing"
    BY DueFacts DEF ClosePush, DoesPush, ClosingFrame
<1>2. KeptUpTo(frames, threads, threads, Len(frames))
    BY DueFacts
<1>3. ASSUME NEW b \in 1 .. Len(frames), frames[b].kind = "call", frames[b].phase = "run"
      PROVE  f.who = "close" \/ ~Uncatchable(threads[f.on].err)
    <2>1. CASE f.who = "close"
        BY <2>1
    <2>2. CASE f.who = "self"
        <3>1. LuaOnTop /\ f.on = frames[Len(frames)].on /\ frames[Len(frames)].kind \in {"resume", "wrap"}
            BY <2>2 DEF ClosePush, Topmost
        <3>2. Len(frames) > 0
            BY <1>1, <3>1, LuaTop
        <3>3. /\ f.on \in Threads /\ threads[f.on].status = "active" /\ ~ClosedIn(frames, f.on)
            BY <1>1, <3>1, <3>2, ResumedOpen, DueFacts
        <3>4. threads[f.on].err = None
            BY <1>1, <3>3, DueFacts DEF Clear, Resumable
        <3> QED
            BY <3>4, NoneIsSilent
    <2>3. CASE f.who \notin {"close", "self"}
        <3>1. Topmost.kind = "call" /\ Topmost.phase = "walk" /\ Len(frames) > 0
            BY <2>3 DEF ClosePush
        <3>2. Len(frames) = 1
            BY <1>1, <3>1, WalkAlone, DueFacts DEF Topmost
        <3> QED
            BY <1>3, <3>1, <3>2 DEF Topmost
    <2> QED
        BY <2>1, <2>2, <2>3
<1>4. ASSUME NEW b \in 1 .. Len(frames), frames[b].kind = "call", frames[b].phase = "run"
      PROVE  Carried(Voice(frames, threads, None, b), Asked(frames),
                     Voice(frames', threads, None, b), Asked(frames'))
    <2>1. f.who = "close" \/ ~Uncatchable(threads[f.on].err)
        BY <1>3, <1>4
    <2> QED
        BY <1>1, <1>2, <2>1, PushCarries
<1> QED
    BY <1>1, <1>4, PushedDue DEF NextDue

\* What the end of a close throws again is what its entry owes.
LEMMA CloseEndsDue ==
    ASSUME NEW fs \in Seq(Frame), NEW us \in Seq(Frame), Pops(fs, us), fs[Len(fs)].kind = "closing",
           NEW ts, NEW ws, KeptUpTo(fs, ts, ws, Len(us)), IsDue(fs, ts, None),
           NEW d \in Errors, Uncatchable(d), NEW gs, gs = Owing(us, d),
           Len(us) > 0 => us[Len(us)].kind # "closing"
    PROVE  IsDue(gs, ws, d)
<1>1. PICK n \in Nat : Len(fs) = n + 1 /\ Len(us) = n /\ \A k \in 1 .. n : us[k] = fs[k]
    BY DEF Pops
<1>2. Len(gs) = Len(us)
    BY OwingIs DEF Likes
<1> SUFFICES ASSUME NEW b \in 1 .. Len(us) PROVE Due(gs, ws, d, b)
    BY <1>2 DEF IsDue
<1>3. b \in 1 .. Len(fs) /\ us[b] = fs[b]
    BY <1>1
<1>4. Due(fs, ts, None, b) /\ SameBut(fs[b], us[b])
    BY <1>3 DEF IsDue, SameBut
<1>5. CASE OwedWhen(us, d, b)
    BY <1>5, ThrowDue
<1>6. CASE ~OwedWhen(us, d, b)
    <2>1. ASSUME fs[b].kind = "call" /\ fs[b].phase = "run"
          PROVE  Carried(Voice(fs, ts, None, b), Asked(fs), Voice(us, ws, None, b), Asked(us))
        <3>1. ~Reaches(us, b, Len(us) + 1)
            BY <1>3, <1>6, <2>1 DEF OwedWhen
        <3> QED
            BY <3>1, PopCarries
    <2>2. Due(us, ws, None, b)
        BY <1>4, <2>1, DueCarried
    <2> QED
        BY <2>2, ThrowDue
<1> QED
    BY <1>5, <1>6

LEMMA OverDue ==
    ASSUME OnStack, Quiet(frames, threads, err), IsDue(frames, threads, err), NEW q, Over(q)
    PROVE  NextDue
<1>1. /\ frames \in Seq(Frame) /\ Built(frames) /\ Bodies(frames, threads) /\ frames # <<>>
      /\ err = None
    BY DueFacts DEF Over
<1>2. PICK us \in Seq(Frame) : us = Front(frames) /\ Pops(frames, us)
    BY <1>1, Popped
<1>3. PICK n \in Nat : Len(frames) = n + 1 /\ Len(us) = n /\ \A k \in 1 .. n : us[k] = frames[k]
    BY <1>2 DEF Pops
<1>4. PICK m \in Nat : m = n + 1
    OBVIOUS
<1>5. PICK t, x : t = frames[m].on /\ x = threads[t].err
    OBVIOUS
<1>6. /\ frames[m] \in ClosingFrame /\ frames[m].kind = "closing" /\ frames[m].who # "self"
      /\ t \in Threads /\ OnlyChanges(threads, threads', t)
    BY <1>3, <1>4, <1>5 DEF Over, Topmost, ClosingFrame, ThreadSet
<1>7. KeptUpTo(frames, threads, threads', Len(us))
    BY <1>1, <1>3, <1>4, <1>5, <1>6, OnlyCloser
<1>8. x \in Errors \cup {None}
    BY <1>5, <1>6, DueFacts DEF ThreadState
<1>9. Len(us) > 0 => us[Len(us)].kind # "closing" /\ frames[Len(us)].kind # "closing"
    <2> SUFFICES ASSUME n > 0 PROVE frames[n].kind # "closing"
        BY <1>3
    <2>1. Len(frames) > 1 /\ Len(frames) - 1 = n /\ frames[Len(frames)].kind # "handler"
        BY <1>3, <1>4, <1>6
    <2> QED
        BY <1>1, <2>1, UnderOther
<1>10. /\ frames[m].who = "sweep" => err' = None /\ frames' = us
       /\ frames[m].who = "wrap" => err' = (IF x = "nomem" THEN "fatal" ELSE x) /\ frames' = us
       /\ frames[m].who = "close" => /\ err' = Kept(x)
                                     /\ frames' = IF Kept(x) = None THEN us
                                                  ELSE Owing(us, Kept(x))
    BY <1>2, <1>3, <1>4, <1>5 DEF Over, Topmost
<1>11. CASE frames[m].who = "sweep"
    <2>1. m \in 1 .. Len(frames)
        BY <1>3, <1>4
    <2>2. m = 2 /\ frames[1].phase = "walk"
        BY <1>1, <1>6, <1>11, <2>1 DEF Built, Seat
    <2>3. \A b \in 1 .. Len(us) : ~(frames[b].kind = "call" /\ frames[b].phase = "run")
        BY <1>3, <1>4, <2>2
    <2> QED
        BY <1>1, <1>2, <1>10, <1>11, <2>3, PoppedDue DEF NextDue
<1>12. CASE frames[m].who = "wrap"
    <2>1. /\ Uncatchable(x) <=> Uncatchable(err')
          /\ Uncatchable(x) => ThrownFor(err') = ThrownFor(x)
        <3>1. CASE x = None
            BY <1>10, <1>12, <3>1, NoneIsSilent, CallsAssumption DEF Errors
        <3>2. CASE x # None
            BY <1>8, <1>10, <1>12, <3>2, KeptIs
        <3> QED
            BY <3>1, <3>2
    <2>2. /\ frames[Len(frames)].kind = "closing" /\ frames[Len(frames)].who # "close"
          /\ threads[frames[Len(frames)].on].err = x
        BY <1>3, <1>4, <1>5, <1>6, <1>12
    <2>3. \A b \in 1 .. Len(us) :
            Carried(Voice(frames, threads, None, b), Asked(frames),
                    Voice(us, threads', err', b), Asked(us))
        BY <1>1, <1>2, <1>7, <1>9, <2>1, <2>2, HandOverCarries
    <2> QED
        BY <1>1, <1>2, <1>10, <1>12, <2>3, PoppedDue DEF NextDue
<1>13. CASE frames[m].who = "close" /\ Kept(x) = None
    <2>1. ~Uncatchable(x)
        BY <1>8, <1>13, NoneIsSilent, KeptIs
    <2>2. frames[Len(frames)].kind = "closing" /\ ~Uncatchable(threads[frames[Len(frames)].on].err)
        BY <1>3, <1>4, <1>5, <1>6, <2>1
    <2>3. \A b \in 1 .. Len(us) :
            Carried(Voice(frames, threads, None, b), Asked(frames),
                    Voice(us, threads', None, b), Asked(us))
        BY <1>1, <1>2, <1>7, <2>2, PopCarries
    <2> QED
        BY <1>1, <1>2, <1>10, <1>13, <2>3, PoppedDue DEF NextDue
<1>14. CASE frames[m].who = "close" /\ Kept(x) # None
    <2>1. x \in Errors
        BY <1>8, <1>14, CallsAssumption DEF Kept, IsFatal, Errors
    <2>2. Kept(x) \in Errors /\ Uncatchable(Kept(x))
        BY <1>14, <2>1, CallsAssumption DEF Kept, IsFatal, Uncatchable, Errors
    <2>3. frames[Len(frames)].kind = "closing"
        BY <1>3, <1>4, <1>6
    <2>4. frames' = Owing(us, Kept(x)) /\ err' = Kept(x)
        BY <1>10, <1>14
    <2> QED
        BY <1>1, <1>2, <1>7, <1>9, <2>2, <2>3, <2>4, CloseEndsDue DEF NextDue
<1> QED
    BY <1>6, <1>11, <1>12, <1>13, <1>14 DEF ClosingFrame

LEMMA SelfOverDue ==
    ASSUME OnStack, Quiet(frames, threads, err), IsDue(frames, threads, err),
           NEW us, NEW f, NEW q, SelfOver(us, f, q)
    PROVE  NextDue
<1>1. /\ frames \in Seq(Frame) /\ Built(frames) /\ Bodies(frames, threads) /\ err = None
      /\ us \in Seq(Frame) /\ Pops(frames, us) /\ us # <<>>
    BY DueFacts DEF SelfOver
<1>2. PICK n \in Nat : /\ Len(frames) = n + 1 /\ Len(us) = n /\ n > 0
                       /\ \A k \in 1 .. n : us[k] = frames[k]
    BY <1>1, EmptySeq DEF Pops
<1>3. PICK t, x : t = f.on /\ x = threads[t].err
    OBVIOUS
<1>4. /\ frames[Len(frames)].kind = "closing" /\ frames[Len(frames)].who = "self"
      /\ frames[Len(frames)].on = t /\ t \in Threads
      /\ us[Len(us)] = f /\ f.kind \in {"resume", "wrap"}
    BY <1>3 DEF SelfOver, Topmost, ClosingFrame, ResumeFrame
<1>5. Len(us) > 0 => frames[Len(us)].kind # "closing"
    BY <1>2, <1>4
<1>6. CASE x = None /\ frames' \in Seq(Frame) /\ Pops(us, frames') /\ err' = None
           /\ ThreadSet(t, q) /\ q = [threads[t] EXCEPT !.status = "dead"]
    <2>1. OnlyChanges(threads, threads', t) /\ threads'[t].err = threads[t].err
        BY <1>6, <1>4, DueFacts DEF ThreadSet, ThreadState
    <2>2. n <= Len(frames) /\ KeptUpTo(frames, threads, threads', n)
        <3>1. n <= Len(frames)
            BY <1>2
        <3> QED
            BY <1>1, <2>1, <3>1, KeptBut
    <2>3. frames[Len(frames)].kind = "closing" /\ ~Uncatchable(threads[frames[Len(frames)].on].err)
        BY <1>3, <1>4, <1>6, NoneIsSilent
    <2>4. \A b \in 1 .. Len(us) :
            Carried(Voice(frames, threads, None, b), Asked(frames),
                    Voice(us, threads', None, b), Asked(us))
        BY <1>1, <1>2, <2>2, <2>3, PopCarries
    <2>5. IsDue(us, threads', None)
        BY <1>1, <2>4, PoppedDue
    <2>6. Plain(us[Len(us)]) /\ KeptUpTo(us, threads', threads', Len(frames'))
        BY <1>4 DEF Plain, KeptUpTo
    <2>7. \A b \in 1 .. Len(frames') :
            Carried(Voice(us, threads', None, b), Asked(us),
                    Voice(frames', threads', None, b), Asked(frames'))
        BY <1>1, <1>6, <2>6, PopCarries
    <2> QED
        BY <1>1, <1>6, <2>5, <2>7, PoppedDue DEF NextDue
<1>7. CASE frames' = us /\ err' = x /\ threads' = threads
    <2>1. KeptUpTo(frames, threads, threads, Len(us))
        BY DEF KeptUpTo
    <2>2. \A b \in 1 .. Len(us) :
            Carried(Voice(frames, threads, None, b), Asked(frames),
                    Voice(us, threads, x, b), Asked(us))
        BY <1>1, <1>3, <1>4, <1>5, <2>1, HandOverCarries
    <2> QED
        BY <1>1, <1>7, <2>2, PoppedDue DEF NextDue
<1> QED
    BY <1>3, <1>6, <1>7 DEF SelfOver

LEMMA StepDue ==
    ASSUME OnStack, Assumed, Quiet(frames, threads, err), IsDue(frames, threads, err),
           [CallsNext]_callsVars
    PROVE  NextDue
<1>1. StepKinds
    BY StepIs
<1>2. CASE Resting \/ Throwing \/ Popping \/ PopThrowing \/ Unwinding
    BY <1>2, RestingDue, ThrowingDue, PoppingDue, PopThrowingDue, UnwindingDue
<1>3. CASE HandlerBack \/ HandlerLost \/ Settled
    BY <1>3, HandlerBackDue, HandlerLostDue, PoppingDue
<1>4. ASSUME NEW f, \/ Pushing(f) \/ Skipping(f) \/ Making(f) \/ ClosePush(f) \/ Entering(f)
                    \/ BodyOver(f) \/ WalkOver(f) \/ FilesOver(f) \/ Leaving(f)
      PROVE  NextDue
    BY <1>4, PushingDue, SkippingDue, ClosePushDue, AdvancingDue
<1>5. ASSUME NEW f, NEW h, Handling(f, h)
      PROVE  NextDue
    BY <1>5, HandlingDue
<1>6. ASSUME NEW t, Collected(t)
      PROVE  NextDue
    BY <1>6, RestingDue
<1>7. ASSUME NEW q, Back(q) \/ Heard(q) \/ Over(q)
      PROVE  NextDue
    BY <1>7, PoppingDue, UnwindingDue, HeardDue, OverDue
<1>8. ASSUME NEW t, NEW q, Created(t, q) \/ Started(t, q) \/ ScopeEnds(t, q) \/ WrapBroken(t, q)
      PROVE  NextDue
    BY <1>8, PoppingDue, PushingDue, ScopeEndsDue, WrapBrokenDue
<1>9. ASSUME NEW us, NEW f, NEW q, SelfOver(us, f, q)
      PROVE  NextDue
    BY <1>9, SelfOverDue
<1> QED
    BY <1>1, <1>2, <1>3, <1>4, <1>5, <1>6, <1>7, <1>8, <1>9 DEF StepKinds

(* An uncatchable error raised under an entry arrives at that entry as what it  *)
(* was: no pcall, xpcall, resume, wrap or close between them keeps it, and only *)
(* a handler's own error may take its place.                                    *)
THEOREM UncatchableArrives ==
    ASSUME SettleCallsHost = FALSE
    PROVE  CallsSpec => []FatalArrives
<1> DEFINE Inv == CallsHold /\ IsDue(frames, threads, err)
<1>1. Assumed
    BY DEF Assumed
<1>2. CallsInit => Inv
    <2> SUFFICES ASSUME CallsInit PROVE IsDue(frames, threads, err)
        BY CallsHoldInit
    <2>1. Len(frames) = 0 /\ 1 .. 0 = {}
        BY DEF CallsInit
    <2> QED
        BY <2>1 DEF IsDue
<1>3. Inv /\ [CallsNext]_callsVars => Inv'
    <2> SUFFICES ASSUME CallsHold, IsDue(frames, threads, err), [CallsNext]_callsVars PROVE Inv'
        OBVIOUS
    <2>1. CallsHold'
        BY <1>1, CallsHoldStep
    <2>2. OnStack /\ Quiet(frames, threads, err)
        BY DEF CallsHold
    <2>3. NextDue
        BY <1>1, <2>2, StepDue
    <2> QED
        BY <2>1, <2>3 DEF NextDue
<1>4. Inv => FatalArrives
    <2> SUFFICES ASSUME CallsHold, IsDue(frames, threads, err) PROVE FatalArrives
        OBVIOUS
    <2>1. DOMAIN frames = 1 .. Len(frames)
        BY StackIs DEF CallsHold
    <2> QED
        BY <2>1 DEF IsDue, Due, FatalArrives
<1> QED
    BY <1>2, <1>3, <1>4, PTL DEF CallsSpec

====
