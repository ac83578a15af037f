---- MODULE SandboxProofs ----
(* Theorems about parts of a sandbox that share no state in the model, for any  *)
(* constants: the virtual filesystem's handles and quota (luaext_vfs.c,         *)
(* luaext_iolib.c), class records, tokens and proxies (luaext_proxy.c), and the *)
(* interrupt flag (luaext_irq.h).                                               *)
EXTENDS Files, Proxies, IrqFlag, SumTheorems, SequenceTheorems

--------------------------------------------------------------------------------
(* The virtual filesystem's counters and what they are made of (Files).  The     *)
(* inductive invariant says what the C stack may look like, that every frame     *)
(* that settles a handle when it returns is the only one to hold it, that what a *)
(* script can use is in the table or was in one that was replaced, and that each *)
(* open in progress may add one handle.  Every open is asked for by a script of  *)
(* its own (OpensWithin), a call into the interpreter or the one finaliser, so   *)
(* that when the next is asked for, below maxOpenHandles, those in progress are  *)
(* no more than the calls the stack has room for.                                *)

Releases  == {"table", "truncate", "size", "load", "close", "sweepclose"}
Openings  == {"table", "truncate", "size", "load"}
Holds     == {"table", "truncate", "size", "load", "close", "sweepclose", "flush"}
AboutFile == {"table", "truncate", "size", "load", "close", "sweepclose", "flush",
              "look", "writerange"}
Asking    == {"exists", "count", "make"}
Scripts   == {"lua", "gc"}
OfScript  == {"truncate", "size", "load", "close", "flush", "look", "writerange",
              "exists", "count", "make", "table", "delete", "rename"}
CallKinds == {"truncate", "size", "load", "close", "flush", "look", "writerange",
              "exists", "count", "make", "table", "delete", "rename",
              "lua", "gc", "sweep", "sweepclose"}

FileRecord ==
    [st : {"closed", "opening", "open"}, path : Paths \cup {NoFile}, mode : Modes,
     len : 0 .. MaxFileBytes, charged : Nat, dirty : BOOLEAN, unsent : BOOLEAN,
     listed : BOOLEAN]
FileFrame ==
    [k : CallKinds, f : FileSlots \cup {NoFile}, p : Paths \cup {NoFile}, m : Modes,
     fly : BOOLEAN, ran : BOOLEAN, found : BOOLEAN]
FileAccount ==
    [open : Nat, buffered : Int, ops : 0 .. MaxOperations + 1, count : 0 .. MaxFiles + 1,
     known : BOOLEAN, sweeping : BOOLEAN, table : BOOLEAN, ranged : BOOLEAN]
FileGhosts == [overlapped : SUBSET FileSlots, dropped : SUBSET FileSlots,
               ousted : SUBSET FileSlots, skipped : BOOLEAN, stray : BOOLEAN]
Trouble == [flying : BOOLEAN, exception : {"none", "host", "exit"}]

FramesOf(s, ks) == {n \in 1 .. Len(s) : s[n].k \in ks}
FramesWith(s, ks) == Cardinality(FramesOf(s, ks))

(* What may stand on what: a script's calls on a script, the interpreter on a    *)
(* backend it was called from, a finaliser on whatever allocates.                *)
Above(below, e) ==
    /\ e.k # "sweep"
    /\ e.k = "lua" => below.k \notin Scripts \cup Making \cup {"sweep"}
    /\ e.k = "gc" => below.k \in {"lua"} \cup Making
    /\ e.k \in OfScript => below.k \in Scripts /\ e.p \in Paths
    /\ e.k = "sweepclose" => below.k = "sweep" /\ e.p \in Paths
Stacked(s) ==
    /\ s # <<>> => s[1].k \in {"lua", "sweep"}
    /\ \A n \in 2 .. Len(s) : Above(s[n - 1], s[n])
    /\ \A n \in 1 .. Len(s) : s[n].k \in AboutFile => s[n].f \in FileSlots
Depth(s) == FramesWith(s, {"lua"}) <= MaxNesting /\ FramesWith(s, {"gc"}) <= 1

(* A frame that may settle its handle's state is the only one that counts on it. *)
NobodyHolds(s, f) == \A n \in 1 .. Len(s) : s[n].k \in Holds => s[n].f # f
Apart(s) ==
    \A n \in 1 .. Len(s) : s[n].k \in Releases =>
        \A m \in 1 .. n - 1 : s[m].k \in Holds => s[m].f # s[n].f

(* A handle a script can use is in the table, or was in one that was replaced.   *)
Known(fs, g, f) == fs[f].listed \/ f \in g.ousted
Counts(fs, g, e) ==
    /\ e.k \in Openings => fs[e.f].st = "opening"
    /\ e.k \in Holds \ Openings => fs[e.f].st = "open"
    /\ e.k \in Holds \ {"table"} => Known(fs, g, e.f)
Holding(fs, g, s) == \A n \in 1 .. Len(s) : Counts(fs, g, s[n])

(* Each open in progress may add one handle.                                     *)
HasRoom(s, a) == a.open + FramesWith(s, Asking) <= MaxOpenHandles + MaxNesting

HandleFits(h) ==
    /\ h.st = "closed" => h.charged = 0
    /\ h.st # "closed" => h.path \in Paths
    /\ h.dirty \/ h.unsent => h.st = "open"
Remembered(fs, g) ==
    /\ g.dropped \subseteq g.overlapped \cup g.ousted
    /\ \A f \in FileSlots : fs[f].unsent => fs[f].dirty \/ f \in g.overlapped
    /\ \A f \in FileSlots : fs[f].st = "open" => Known(fs, g, f)
Opened(fs) == {f \in FileSlots : fs[f].st # "closed"}
Enlisted(fs) == {f \in Opened(fs) : fs[f].listed}
Charges(fs) == [f \in FileSlots |-> fs[f].charged]
Counted(fs, a, g) ==
    /\ a.open <= Cardinality(Opened(fs))
    /\ ~g.stray => a.open = Cardinality(Opened(fs))
    /\ a.buffered = SumFunction(Charges(fs))
    /\ a.buffered <= MaxTotalBytes

StackFits(s) == s \in Seq(FileFrame) /\ Stacked(s) /\ Apart(s) /\ Depth(s)
HandlesFit(fs, a, g) ==
    /\ fs \in [FileSlots -> FileRecord] /\ a \in FileAccount /\ g \in FileGhosts
    /\ \A f \in FileSlots : HandleFits(fs[f])
    /\ Remembered(fs, g)
    /\ Counted(fs, a, g)
Sound(fs, s, a, g) ==
    /\ StackFits(s) /\ Holding(fs, g, s) /\ HasRoom(s, a)
    /\ HandlesFit(fs, a, g)
    /\ s = <<>> /\ ~g.skipped /\ ~g.stray => Enlisted(fs) = {}

FIInv ==
    /\ Sound(files, nest, account, ghosts)
    /\ trouble \in Trouble /\ disk \subseteq Paths

--------------------------------------------------------------------------------
(* Stacks.                                                                      *)

LEMMA CallAdded ==
    ASSUME NEW s \in Seq(FileFrame), NEW e \in FileFrame
    PROVE  /\ Append(s, e) \in Seq(FileFrame) /\ Append(s, e) # <<>>
           /\ Len(s) \in Nat /\ Len(Append(s, e)) = Len(s) + 1
           /\ Append(s, e)[Len(s) + 1] = e
           /\ \A n \in 1 .. Len(s) : Append(s, e)[n] = s[n]
    OBVIOUS

LEMMA CallTaken ==
    ASSUME NEW s \in Seq(FileFrame), s # <<>>
    PROVE  /\ Len(s) \in Nat /\ Len(s) > 0
           /\ Last(s) = s[Len(s)] /\ Last(s) \in FileFrame
           /\ Front(s) \in Seq(FileFrame) /\ Len(Front(s)) = Len(s) - 1
           /\ \A n \in 1 .. Len(s) - 1 : Front(s)[n] = s[n]
<1>1. Len(s) \in Nat /\ Len(s) > 0
    OBVIOUS
<1>2. Last(s) = s[Len(s)] /\ s[Len(s)] \in FileFrame
    BY <1>1 DEF Last
<1>3. /\ Front(s) \in Seq(FileFrame) /\ Len(Front(s)) = Len(s) - 1
      /\ \A n \in 1 .. Len(s) - 1 : Front(s)[n] = s[n]
    <2> DEFINE l == Len(s) - 1
    <2>1. l \in 0 .. Len(s) /\ Front(s) = SubSeq(s, 1, l)
        BY <1>1 DEF Front
    <2> HIDE DEF l
    <2>2. /\ SubSeq(s, 1, l) \in Seq(FileFrame) /\ Len(SubSeq(s, 1, l)) = l
          /\ \A n \in 1 .. l : SubSeq(s, 1, l)[n] = s[n]
        BY <1>1, <2>1
    <2> QED
        BY <2>1, <2>2 DEF l
<1> QED
    BY <1>1, <1>2, <1>3

(* A longer stack has the frames of the shorter one and perhaps its last.       *)
LEMMA FramesGrow ==
    ASSUME NEW s, NEW t, NEW e, NEW ks, Len(s) \in Nat, Len(t) = Len(s) + 1,
           t[Len(s) + 1] = e, \A n \in 1 .. Len(s) : t[n] = s[n]
    PROVE  /\ FramesWith(s, ks) \in Nat /\ FramesWith(t, ks) \in Nat
           /\ FramesWith(t, ks) = FramesWith(s, ks) + (IF e.k \in ks THEN 1 ELSE 0)
<1> DEFINE A == FramesOf(s, ks)
           B == FramesOf(t, ks)
           l == Len(s) + 1
<1>1. IsFiniteSet(A)
    <2>1. IsFiniteSet(1 .. Len(s)) /\ A \in SUBSET (1 .. Len(s))
        BY FS_Interval DEF FramesOf
    <2> QED
        BY <2>1, FS_Subset
<1>2. Cardinality(A) \in Nat
    BY <1>1, FS_CardinalityType
<1>3. l \notin A
    BY DEF FramesOf
<1>4. CASE e.k \in ks
    <2>1. B = A \cup {l}
        BY <1>4 DEF FramesOf
    <2>2. Cardinality(B) = Cardinality(A) + 1
        BY <1>1, <1>3, <2>1, FS_AddElement
    <2> QED
        BY <1>2, <1>4, <2>2 DEF FramesWith
<1>5. CASE e.k \notin ks
    <2>1. B = A
        BY <1>5 DEF FramesOf
    <2> QED
        BY <1>2, <1>5, <2>1 DEF FramesWith
<1> QED
    BY <1>4, <1>5

LEMMA NoFrames ==
    ASSUME NEW ks
    PROVE  FramesWith(<<>>, ks) = 0
<1>1. FramesOf(<<>>, ks) = {}
    BY DEF FramesOf
<1> QED
    BY <1>1, FS_EmptySet DEF FramesWith

LEMMA FramesNatural ==
    ASSUME NEW s \in Seq(FileFrame), NEW ks
    PROVE  IsFiniteSet(FramesOf(s, ks)) /\ FramesWith(s, ks) \in Nat
<1>1. IsFiniteSet(1 .. Len(s)) /\ FramesOf(s, ks) \in SUBSET (1 .. Len(s))
    BY FS_Interval DEF FramesOf
<1> QED
    BY <1>1, FS_Subset, FS_CardinalityType DEF FramesWith

(* While a script runs, every open in progress has a script of its own below     *)
(* it, and those are the calls into the interpreter and at most one finaliser.   *)
LEMMA OpensWithin ==
    ASSUME NEW s, StackFits(s), s # <<>>, Last(s).k \in Scripts
    PROVE  FramesWith(s, Asking) + 1 <= MaxNesting + 1
<1> DEFINE A == FramesOf(s, Asking)
           B == FramesOf(s, Scripts)
           L == FramesOf(s, {"lua"})
           G == FramesOf(s, {"gc"})
           l == Len(s)
           below == [n \in A |-> n - 1]
<1>1. /\ s \in Seq(FileFrame) /\ Stacked(s) /\ Depth(s) /\ l \in Nat /\ l > 0
      /\ Last(s) = s[l]
    BY CallTaken DEF StackFits
<1>2. IsFiniteSet(A) /\ IsFiniteSet(B) /\ IsFiniteSet(L) /\ IsFiniteSet(G)
    BY <1>1, FramesNatural
<1>3. l \in B
    BY <1>1 DEF FramesOf
<1>4. IsFiniteSet(B \ {l}) /\ Cardinality(B \ {l}) = Cardinality(B) - 1
    <2> HIDE DEF B, l
    <2> QED
        BY <1>2, <1>3, FS_RemoveElement
<1>5. \A n \in A : n - 1 \in B \ {l}
    <2> SUFFICES ASSUME NEW n \in A PROVE n - 1 \in B \ {l}
        OBVIOUS
    <2>1. n \in 1 .. l /\ s[n].k \in Asking
        BY DEF FramesOf
    <2>2. n # 1
        BY <2>1, <1>1 DEF Stacked, Asking
    <2>3. n \in 2 .. l /\ n - 1 \in 1 .. l /\ n - 1 # l
        BY <1>1, <2>1, <2>2
    <2>4. Above(s[n - 1], s[n])
        BY <1>1, <2>3 DEF Stacked
    <2>5. s[n - 1].k \in Scripts
        BY <2>1, <2>4 DEF Above, Asking, OfScript
    <2> QED
        BY <2>3, <2>5 DEF FramesOf
<1>6. below \in Injection(A, B \ {l})
    <2>1. below \in [A -> B \ {l}]
        BY <1>5
    <2>2. ASSUME NEW a \in A, NEW b \in A, below[a] = below[b] PROVE a = b
        <3>1. a \in Int /\ b \in Int /\ a - 1 = b - 1
            BY <2>2 DEF FramesOf
        <3> QED
            BY <3>1
    <2> HIDE DEF below, A, B, l
    <2> QED
        BY <2>1, <2>2 DEF Injection, IsInjective
<1>7. Cardinality(A) <= Cardinality(B) - 1
    <2> HIDE DEF below, A, B, l
    <2>1. Cardinality(A) <= Cardinality(B \ {l})
        BY <1>4, <1>6, FS_Injection
    <2> QED
        BY <1>4, <2>1
<1>8. B = L \cup G
    BY DEF FramesOf, Scripts
<1>9. /\ Cardinality(A) \in Nat /\ Cardinality(B) \in Nat /\ Cardinality(L) \in Nat
      /\ Cardinality(G) \in Nat /\ Cardinality(L \cap G) \in Nat
    <2>1. IsFiniteSet(L \cap G)
        <3> HIDE DEF L, G
        <3> QED
            BY <1>2, FS_Intersection
    <2> QED
        BY <1>2, <2>1, FS_CardinalityType
<1>10. Cardinality(L \cup G) = Cardinality(L) + Cardinality(G) - Cardinality(L \cap G)
    <2> HIDE DEF L, G
    <2> QED
        BY <1>2, FS_Union
<1>11. Cardinality(L) <= MaxNesting /\ Cardinality(G) <= 1 /\ MaxNesting \in Nat
    BY <1>1, FilesAssumption DEF Depth, FramesWith
<1>12. Cardinality(A) + 1 <= MaxNesting + 1
    <2> HIDE DEF A, B, L, G
    <2> QED
        BY <1>7, <1>8, <1>9, <1>10, <1>11
<1> QED
    BY <1>12 DEF FramesWith

LEMMA CallMade ==
    ASSUME NEW s, StackFits(s), s # <<>>, NEW e \in FileFrame, Above(Last(s), e),
           e.k \in AboutFile => e.f \in FileSlots,
           e.k \in Releases => NobodyHolds(s, e.f),
           e.k = "lua" => FramesWith(s, {"lua"}) < MaxNesting,
           e.k = "gc" => FramesWith(s, {"gc"}) = 0
    PROVE  StackFits(Append(s, e))
<1> DEFINE t == Append(s, e)
           l == Len(s)
<1>1. s \in Seq(FileFrame)
    BY DEF StackFits
<1>2. /\ t \in Seq(FileFrame) /\ t # <<>> /\ l \in Nat /\ l > 0 /\ Len(t) = l + 1
      /\ t[l + 1] = e /\ \A n \in 1 .. l : t[n] = s[n]
    BY <1>1, CallAdded
<1>3. Last(s) = s[l] /\ s[l] \in FileFrame
    BY <1>1, CallTaken
<1> HIDE DEF t, l
<1>4. Stacked(t)
    <2>1. t[1].k \in {"lua", "sweep"}
        BY <1>2 DEF StackFits, Stacked, l
    <2>2. ASSUME NEW n \in 2 .. Len(t) PROVE Above(t[n - 1], t[n])
        <3>1. CASE n = l + 1
            <4>1. t[n] = e /\ t[n - 1] = Last(s)
                BY <1>2, <1>3, <3>1
            <4> QED
                BY <4>1
        <3>2. CASE n # l + 1
            <4>1. n \in 2 .. l /\ n \in 1 .. l /\ n - 1 \in 1 .. l
                BY <1>2, <3>2
            <4>2. t[n] = s[n] /\ t[n - 1] = s[n - 1]
                BY <1>2, <4>1
            <4>3. Above(s[n - 1], s[n])
                BY <4>1 DEF StackFits, Stacked, l
            <4> QED
                BY <4>2, <4>3
        <3> QED
            BY <3>1, <3>2
    <2>3. ASSUME NEW n \in 1 .. Len(t), t[n].k \in AboutFile PROVE t[n].f \in FileSlots
        <3>1. n = l + 1 \/ n \in 1 .. l
            BY <1>2
        <3> QED
            BY <1>2, <2>3, <3>1 DEF StackFits, Stacked, l
    <2> QED
        BY <2>1, <2>2, <2>3 DEF Stacked
<1>5. Apart(t)
    <2> SUFFICES ASSUME NEW n \in 1 .. Len(t), t[n].k \in Releases,
                        NEW m \in 1 .. n - 1, t[m].k \in Holds
                 PROVE  t[m].f # t[n].f
        BY DEF Apart
    <2>1. m \in 1 .. l /\ t[m] = s[m]
        BY <1>2
    <2>2. CASE n = l + 1
        BY <1>2, <2>1, <2>2 DEF NobodyHolds, l
    <2>3. CASE n # l + 1
        <3>1. n \in 1 .. l /\ t[n] = s[n]
            BY <1>2, <2>3
        <3> QED
            BY <2>1, <3>1 DEF StackFits, Apart, l
    <2> QED
        BY <2>2, <2>3
<1>6. Depth(t)
    <2>1. \A ks : /\ FramesWith(s, ks) \in Nat
                  /\ FramesWith(t, ks) = FramesWith(s, ks) + (IF e.k \in ks THEN 1 ELSE 0)
        BY <1>2, FramesGrow DEF l
    <2>2. FramesWith(s, {"lua"}) <= MaxNesting /\ FramesWith(s, {"gc"}) <= 1 /\ MaxNesting \in Nat
        BY FilesAssumption DEF StackFits, Depth
    <2>3. FramesWith(t, {"lua"}) <= MaxNesting
        BY <2>1, <2>2
    <2>4. FramesWith(t, {"gc"}) <= 1
        BY <2>1, <2>2
    <2> QED
        BY <2>3, <2>4 DEF Depth
<1> QED
    BY <1>2, <1>4, <1>5, <1>6 DEF StackFits, t

(* It returns.                                                                  *)
LEMMA CallReturns ==
    ASSUME NEW s, StackFits(s), Len(s) > 1
    PROVE  /\ StackFits(Front(s)) /\ Front(s) # <<>>
           /\ Above(Last(Front(s)), Last(s))
           /\ Last(s).k \in AboutFile => Last(s).f \in FileSlots
           /\ Last(s).k \in Releases => NobodyHolds(Front(s), Last(s).f)
           /\ \A ks : /\ FramesWith(Front(s), ks) \in Nat
                      /\ FramesWith(s, ks) = FramesWith(Front(s), ks) + (IF Last(s).k \in ks THEN 1 ELSE 0)
<1> DEFINE t == Front(s)
           l == Len(t)
           e == Last(s)
<1>1. s \in Seq(FileFrame) /\ s # <<>>
    <2>1. s \in Seq(FileFrame)
        BY DEF StackFits
    <2> QED
        BY <2>1
<1>2. /\ t \in Seq(FileFrame) /\ Len(s) \in Nat /\ l = Len(s) - 1 /\ e = s[Len(s)] /\ e \in FileFrame
      /\ \A n \in 1 .. Len(s) - 1 : t[n] = s[n]
    BY <1>1, CallTaken
<1>3. l \in Nat /\ l > 0 /\ Len(s) = l + 1 /\ s[l + 1] = e /\ \A n \in 1 .. l : s[n] = t[n]
    BY <1>2
<1>4. t # <<>>
    BY <1>2, <1>3
<1>5. Last(t) = t[l]
    BY <1>2, <1>4, CallTaken
<1> HIDE DEF t, l, e
<1>6. Stacked(s) /\ Apart(s) /\ Depth(s)
    BY DEF StackFits
<1>7. Above(Last(t), e)
    <2>1. l + 1 \in 2 .. Len(s) /\ l + 1 - 1 = l /\ l \in 1 .. l
        BY <1>3
    <2>2. Above(s[l + 1 - 1], s[l + 1])
        BY <1>6, <2>1 DEF Stacked
    <2>3. s[l + 1 - 1] = t[l]
        BY <1>3, <2>1
    <2> QED
        BY <1>3, <1>5, <2>2, <2>3
<1>8. Stacked(t)
    <2>1. t[1].k \in {"lua", "sweep"}
        BY <1>1, <1>3, <1>6 DEF Stacked
    <2>2. ASSUME NEW n \in 2 .. l PROVE Above(t[n - 1], t[n])
        <3>1. n \in 2 .. Len(s) /\ n \in 1 .. l /\ n - 1 \in 1 .. l
            BY <1>3
        <3> QED
            BY <1>3, <1>6, <3>1 DEF Stacked
    <2>3. ASSUME NEW n \in 1 .. l, t[n].k \in AboutFile PROVE t[n].f \in FileSlots
        BY <1>3, <1>6, <2>3 DEF Stacked
    <2> QED
        BY <2>1, <2>2, <2>3 DEF Stacked, l
<1>9. Apart(t)
    <2> SUFFICES ASSUME NEW n \in 1 .. l, t[n].k \in Releases,
                        NEW m \in 1 .. n - 1, t[m].k \in Holds
                 PROVE  t[m].f # t[n].f
        BY DEF Apart, l
    <2>1. n \in 1 .. Len(s) /\ t[n] = s[n] /\ t[m] = s[m]
        BY <1>3
    <2> QED
        BY <1>6, <2>1 DEF Apart
<1>10. e.k \in AboutFile => e.f \in FileSlots
    <2>1. l + 1 \in 1 .. Len(s)
        BY <1>3
    <2> QED
        BY <1>3, <1>6, <2>1 DEF Stacked
<1>11. e.k \in Releases => NobodyHolds(t, e.f)
    <2> SUFFICES ASSUME e.k \in Releases, NEW m \in 1 .. l, t[m].k \in Holds PROVE t[m].f # e.f
        BY DEF NobodyHolds, l
    <2>1. l + 1 \in 1 .. Len(s) /\ m \in 1 .. l + 1 - 1 /\ t[m] = s[m]
        BY <1>3
    <2> QED
        BY <1>3, <1>6, <2>1 DEF Apart
<1>12. ASSUME NEW ks
       PROVE  /\ FramesWith(t, ks) \in Nat
              /\ FramesWith(s, ks) = FramesWith(t, ks) + (IF e.k \in ks THEN 1 ELSE 0)
    BY <1>3, FramesGrow DEF l
<1>13. Depth(t)
    <2>1. FramesWith(s, {"lua"}) <= MaxNesting /\ FramesWith(s, {"gc"}) <= 1 /\ MaxNesting \in Nat
        BY <1>6, FilesAssumption DEF Depth
    <2>2. FramesWith(t, {"lua"}) <= MaxNesting
        BY <1>12, <2>1
    <2>3. FramesWith(t, {"gc"}) <= 1
        BY <1>12, <2>1
    <2> QED
        BY <2>2, <2>3 DEF Depth
<1> QED
    BY <1>2, <1>4, <1>7, <1>8, <1>9, <1>10, <1>11, <1>12, <1>13 DEF StackFits, t, e

--------------------------------------------------------------------------------
(* Handles.                                                                     *)

(* The bytes charged follow the handle that is charged.                          *)
LEMMA ChargesUpdated ==
    ASSUME NEW fs \in [FileSlots -> FileRecord], NEW gs \in [FileSlots -> FileRecord],
           NEW f \in FileSlots, \A x \in FileSlots : x # f => gs[x] = fs[x]
    PROVE  /\ SumFunction(Charges(fs)) \in Int
           /\ SumFunction(Charges(gs)) = SumFunction(Charges(fs)) - fs[f].charged + gs[f].charged
<1>1. \A x \in FileSlots : fs[x].charged \in Int /\ gs[x].charged \in Int
    BY DEF FileRecord
<1>2. /\ \A x \in FileSlots : Charges(fs)[x] = fs[x].charged /\ Charges(gs)[x] = gs[x].charged
      /\ DOMAIN Charges(gs) = FileSlots /\ DOMAIN Charges(fs) = FileSlots
    BY DEF Charges
<1>3. \A x \in FileSlots : Charges(fs)[x] \in Int /\ Charges(gs)[x] \in Int
    BY <1>1, <1>2
<1>4. \A x \in FileSlots : x # f => Charges(gs)[x] = Charges(fs)[x]
    BY <1>2
<1>5. IsFiniteSet(FileSlots)
    BY FilesAssumption
<1> HIDE DEF Charges
<1>6. /\ SumFunctionOnSet(Charges(fs), FileSlots) \in Int
      /\ SumFunctionOnSet(Charges(gs), FileSlots)
            = SumFunctionOnSet(Charges(fs), FileSlots) - Charges(fs)[f] + Charges(gs)[f]
    BY <1>3, <1>4, <1>5, SumUpdated
<1> QED
    BY <1>2, <1>6, SumOfAll

(* The count of open handles, as it follows one of them.                         *)
Recount(o, was, is) ==
    CASE was = "closed" /\ is # "closed" -> o + 1
      [] was # "closed" /\ is = "closed" -> IF o > 0 THEN o - 1 ELSE 0
      [] OTHER                           -> o

(* The history keeps what it says of the other handles.                          *)
Continues(g, w, f) ==
    /\ w.dropped \subseteq w.overlapped \cup w.ousted
    /\ \A x \in FileSlots : x # f /\ x \in g.overlapped => x \in w.overlapped
    /\ \A x \in FileSlots : x # f /\ x \in g.ousted => x \in w.ousted
    /\ w.stray = g.stray
(* What a handle keeps and the history forgets nothing of.                       *)
Minded(h, w, f) ==
    /\ h.unsent => h.dirty \/ f \in w.overlapped
    /\ h.st = "open" => h.listed \/ f \in w.ousted

(* One handle becomes another: what the counters must do for it.                 *)
LEMMA HandleEdited ==
    ASSUME NEW fs, NEW a, NEW g, HandlesFit(fs, a, g), NEW f \in FileSlots,
           NEW h \in FileRecord, HandleFits(h),
           NEW b \in FileAccount, NEW w \in FileGhosts,
           Continues(g, w, f), Minded(h, w, f),
           b.open = Recount(a.open, fs[f].st, h.st),
           b.buffered = a.buffered + h.charged - fs[f].charged,
           b.buffered <= MaxTotalBytes
    PROVE  HandlesFit([fs EXCEPT ![f] = h], b, w)
<1> DEFINE gs == [fs EXCEPT ![f] = h]
<1>1. fs \in [FileSlots -> FileRecord] /\ a \in FileAccount
    BY DEF HandlesFit
<1>2. gs \in [FileSlots -> FileRecord] /\ gs[f] = h /\ \A x \in FileSlots : x # f => gs[x] = fs[x]
    BY <1>1
<1> HIDE DEF gs
<1>3. \A x \in FileSlots : HandleFits(gs[x])
    BY <1>2 DEF HandlesFit
<1>4. Remembered(gs, w)
    <2>1. Remembered(fs, g)
        BY DEF HandlesFit
    <2>2. ASSUME NEW x \in FileSlots
          PROVE  /\ gs[x].unsent => gs[x].dirty \/ x \in w.overlapped
                 /\ gs[x].st = "open" => gs[x].listed \/ x \in w.ousted
        <3>1. CASE x = f
            BY <1>2, <3>1 DEF Minded
        <3>2. CASE x # f
            BY <1>2, <2>1, <3>2 DEF Remembered, Continues, Known
        <3> QED
            BY <3>1, <3>2
    <2> QED
        BY <2>2 DEF Remembered, Known, Continues
<1>5. /\ b.open <= Cardinality(Opened(gs))
      /\ ~w.stray => b.open = Cardinality(Opened(gs))
    <2>1. /\ a.open <= Cardinality(Opened(fs)) /\ a.open \in Nat
          /\ ~w.stray => a.open = Cardinality(Opened(fs))
        BY <1>1 DEF HandlesFit, Counted, Continues, FileAccount
    <2>2. IsFiniteSet(Opened(fs)) /\ Opened(fs) \in SUBSET FileSlots
        BY FilesAssumption, FS_Subset DEF Opened
    <2>3. Cardinality(Opened(fs)) \in Nat
        BY <2>2, FS_CardinalityType
    <2>4. CASE fs[f].st = "closed" /\ h.st # "closed"
        <3>1. Opened(gs) = Opened(fs) \cup {f} /\ f \notin Opened(fs)
            BY <1>2, <2>4 DEF Opened
        <3>2. Cardinality(Opened(gs)) = Cardinality(Opened(fs)) + 1
            BY <2>2, <3>1, FS_AddElement
        <3>3. b.open = a.open + 1
            BY <2>4 DEF Recount
        <3> QED
            BY <2>1, <2>3, <3>2, <3>3
    <2>5. CASE fs[f].st # "closed" /\ h.st = "closed"
        <3>1. Opened(gs) = Opened(fs) \ {f} /\ f \in Opened(fs)
            BY <1>2, <2>5 DEF Opened
        <3>2. Cardinality(Opened(fs) \ {f}) = Cardinality(Opened(fs)) - 1
            <4> DEFINE O == Opened(fs)
            <4>1. IsFiniteSet(O) /\ f \in O
                BY <2>2, <3>1
            <4> HIDE DEF O
            <4>2. Cardinality(O \ {f}) = Cardinality(O) - 1
                BY <4>1, FS_RemoveElement
            <4> QED
                BY <4>2 DEF O
        <3>3. Cardinality(Opened(gs)) \in Nat
            <4>1. IsFiniteSet(Opened(gs))
                BY FilesAssumption, FS_Subset DEF Opened
            <4> QED
                BY <4>1, FS_CardinalityType
        <3>4. b.open = IF a.open > 0 THEN a.open - 1 ELSE 0
            BY <2>5 DEF Recount
        <3> QED
            BY <2>1, <2>3, <3>1, <3>2, <3>3, <3>4
    <2>6. CASE fs[f].st = "closed" <=> h.st = "closed"
        <3>1. Opened(gs) = Opened(fs)
            BY <1>2, <2>6 DEF Opened
        <3>2. b.open = a.open
            BY <2>6 DEF Recount
        <3> QED
            BY <2>1, <2>3, <3>1, <3>2
    <2> QED
        BY <2>4, <2>5, <2>6
<1>6. b.buffered = SumFunction(Charges(gs))
    <2>1. a.buffered = SumFunction(Charges(fs)) /\ a.buffered \in Int
        BY <1>1 DEF HandlesFit, Counted, FileAccount
    <2>2. /\ SumFunction(Charges(fs)) \in Int
          /\ SumFunction(Charges(gs)) = SumFunction(Charges(fs)) - fs[f].charged + gs[f].charged
        BY <1>1, <1>2, ChargesUpdated
    <2>3. fs[f].charged \in Int /\ h.charged \in Int
        BY <1>1 DEF FileRecord
    <2> QED
        BY <1>2, <2>1, <2>2, <2>3
<1> QED
    BY <1>2, <1>3, <1>4, <1>5, <1>6 DEF HandlesFit, Counted, gs

(* The counters bound every handle's own charge.                                 *)
LEMMA ChargedWithin ==
    ASSUME NEW fs, NEW a, NEW g, HandlesFit(fs, a, g)
    PROVE  /\ a.open \in 0 .. Cardinality(FileSlots) /\ a.buffered \in 0 .. MaxTotalBytes
           /\ \A f \in FileSlots : fs[f].charged \in 0 .. MaxTotalBytes /\ fs[f].charged <= a.buffered
<1>1. fs \in [FileSlots -> FileRecord] /\ Counted(fs, a, g) /\ a.open \in Nat
    BY DEF HandlesFit, FileAccount
<1>2. \A f \in FileSlots : Charges(fs)[f] = fs[f].charged /\ Charges(fs)[f] \in Nat
    BY <1>1 DEF Charges, FileRecord
<1>3. IsFiniteSet(FileSlots) /\ MaxTotalBytes \in Nat
    BY FilesAssumption
<1>4. a.buffered = SumFunctionOnSet(Charges(fs), FileSlots)
    BY <1>1, SumOfAll DEF Counted, Charges
<1> HIDE DEF Charges
<1>5. a.buffered \in Nat
    BY <1>2, <1>3, <1>4, SumNatural
<1>6. \A f \in FileSlots : Charges(fs)[f] <= a.buffered
    BY <1>2, <1>3, <1>4, TermWithinSum
<1>7. a.buffered <= MaxTotalBytes /\ a.open <= Cardinality(Opened(fs))
    BY <1>1 DEF Counted
<1>8. a.open \in 0 .. Cardinality(FileSlots)
    <2>1. Opened(fs) \in SUBSET FileSlots
        BY DEF Opened
    <2>2. /\ IsFiniteSet(Opened(fs))
          /\ Cardinality(Opened(fs)) <= Cardinality(FileSlots)
        BY <1>3, <2>1, FS_Subset
    <2>3. Cardinality(Opened(fs)) \in Nat /\ Cardinality(FileSlots) \in Nat
        BY <1>3, <2>2, FS_CardinalityType
    <2> QED
        BY <1>1, <1>7, <2>2, <2>3
<1> QED
    BY <1>2, <1>3, <1>5, <1>6, <1>7, <1>8

(* The calls on the stack still count on what they counted on.                   *)
LEMMA HoldersKeepFaith ==
    ASSUME NEW fs \in [FileSlots -> FileRecord], NEW s, NEW g, StackFits(s), Holding(fs, g, s),
           NEW f \in FileSlots, NEW h, NEW w, Continues(g, w, f),
           \/ NobodyHolds(s, f)
           \/ h.st = fs[f].st /\ (Known(fs, g, f) => h.listed \/ f \in w.ousted)
    PROVE  Holding([fs EXCEPT ![f] = h], w, s)
<1> SUFFICES ASSUME NEW n \in 1 .. Len(s) PROVE Counts([fs EXCEPT ![f] = h], w, s[n])
    BY DEF Holding
<1>1. Counts(fs, g, s[n])
    BY DEF Holding
<1>2. CASE s[n].k \in Holds /\ s[n].f # f
    <2>1. s[n].f \in FileSlots
        BY <1>2 DEF StackFits, Stacked, Holds, AboutFile
    <2>2. [fs EXCEPT ![f] = h][s[n].f] = fs[s[n].f]
        BY <1>2, <2>1
    <2>3. Known(fs, g, s[n].f) => Known([fs EXCEPT ![f] = h], w, s[n].f)
        BY <1>2, <2>1, <2>2 DEF Known, Continues
    <2> QED
        BY <1>1, <2>2, <2>3 DEF Counts, Openings, Holds
<1>3. CASE s[n].k \in Holds /\ s[n].f = f
    <2>1. h.st = fs[f].st /\ (Known(fs, g, f) => h.listed \/ f \in w.ousted)
        BY <1>3 DEF NobodyHolds
    <2>2. [fs EXCEPT ![f] = h][f] = h
        OBVIOUS
    <2> QED
        BY <1>1, <1>3, <2>1, <2>2 DEF Counts, Known, Openings, Holds
<1>4. CASE s[n].k \notin Holds
    BY <1>4 DEF Counts, Openings, Holds
<1> QED
    BY <1>2, <1>3, <1>4

--------------------------------------------------------------------------------
(* The two together.                                                            *)

LEMMA SoundCall ==
    ASSUME NEW fs, NEW s, NEW a, NEW g, Sound(fs, s, a, g), s # <<>>,
           NEW e \in FileFrame, Above(Last(s), e),
           e.k \in AboutFile => e.f \in FileSlots,
           e.k \in Releases => NobodyHolds(s, e.f),
           e.k = "lua" => FramesWith(s, {"lua"}) < MaxNesting,
           e.k = "gc" => FramesWith(s, {"gc"}) = 0,
           Counts(fs, g, e),
           e.k \in Asking => a.open + FramesWith(s, Asking) + 1 <= MaxOpenHandles + MaxNesting
    PROVE  Sound(fs, Append(s, e), a, g)
<1> DEFINE t == Append(s, e)
<1>1. StackFits(s) /\ Holding(fs, g, s) /\ HasRoom(s, a) /\ HandlesFit(fs, a, g) /\ s \in Seq(FileFrame)
    BY DEF Sound, StackFits
<1>2. StackFits(t)
    BY <1>1, CallMade
<1>3. /\ t \in Seq(FileFrame) /\ t # <<>> /\ Len(s) \in Nat /\ Len(t) = Len(s) + 1
      /\ t[Len(s) + 1] = e /\ \A n \in 1 .. Len(s) : t[n] = s[n]
    BY <1>1, CallAdded
<1> HIDE DEF t
<1>4. Holding(fs, g, t)
    <2> SUFFICES ASSUME NEW n \in 1 .. Len(t) PROVE Counts(fs, g, t[n])
        BY DEF Holding
    <2>1. n = Len(s) + 1 \/ n \in 1 .. Len(s)
        BY <1>3
    <2> QED
        BY <1>1, <1>3, <2>1 DEF Holding
<1>5. HasRoom(t, a)
    <2>1. /\ FramesWith(s, Asking) \in Nat
          /\ FramesWith(t, Asking) = FramesWith(s, Asking) + (IF e.k \in Asking THEN 1 ELSE 0)
        BY <1>3, FramesGrow
    <2>2. a.open \in Int
        BY <1>1 DEF HandlesFit, FileAccount
    <2>3. a.open + FramesWith(s, Asking) <= MaxOpenHandles + MaxNesting
        BY <1>1 DEF HasRoom
    <2> QED
        BY <2>1, <2>2, <2>3 DEF HasRoom
<1> QED
    BY <1>1, <1>2, <1>3, <1>4, <1>5 DEF Sound, t

LEMMA SoundReturn ==
    ASSUME NEW fs, NEW s, NEW a, NEW g, Sound(fs, s, a, g), Len(s) > 1
    PROVE  /\ Sound(fs, Front(s), a, g) /\ Front(s) # <<>>
           /\ Last(s) \in FileFrame /\ Above(Last(Front(s)), Last(s))
           /\ Last(s).k \in AboutFile => Last(s).f \in FileSlots
           /\ Last(s).k \in Releases => NobodyHolds(Front(s), Last(s).f)
           /\ Counts(fs, g, Last(s))
           /\ Last(s).k \in Asking =>
                a.open + 1 + FramesWith(Front(s), Asking) <= MaxOpenHandles + MaxNesting
<1>1. StackFits(s) /\ Holding(fs, g, s) /\ HasRoom(s, a) /\ HandlesFit(fs, a, g) /\ s \in Seq(FileFrame)
    BY DEF Sound, StackFits
<1>2. s # <<>>
    BY <1>1
<1>3. /\ Len(s) \in Nat /\ Len(s) > 0 /\ Last(s) = s[Len(s)] /\ Last(s) \in FileFrame
      /\ Len(Front(s)) = Len(s) - 1 /\ \A n \in 1 .. Len(s) - 1 : Front(s)[n] = s[n]
    BY <1>1, <1>2, CallTaken
<1>4. /\ StackFits(Front(s)) /\ Front(s) # <<>> /\ Above(Last(Front(s)), Last(s))
      /\ Last(s).k \in AboutFile => Last(s).f \in FileSlots
      /\ Last(s).k \in Releases => NobodyHolds(Front(s), Last(s).f)
      /\ \A ks : /\ FramesWith(Front(s), ks) \in Nat
                 /\ FramesWith(s, ks) = FramesWith(Front(s), ks) + (IF Last(s).k \in ks THEN 1 ELSE 0)
    BY <1>1, CallReturns
<1>5. Holding(fs, g, Front(s)) /\ Counts(fs, g, Last(s))
    <2>1. \A n \in 1 .. Len(s) : Counts(fs, g, s[n])
        BY <1>1 DEF Holding
    <2> QED
        BY <1>3, <2>1 DEF Holding
<1>6. a.open \in Int /\ MaxOpenHandles \in Nat /\ MaxNesting \in Nat
    BY <1>1, FilesAssumption DEF HandlesFit, FileAccount
<1>7. a.open + FramesWith(s, Asking) <= MaxOpenHandles + MaxNesting
    BY <1>1 DEF HasRoom
<1>8. HasRoom(Front(s), a)
    BY <1>4, <1>6, <1>7 DEF HasRoom
<1>9. Last(s).k \in Asking =>
            a.open + 1 + FramesWith(Front(s), Asking) <= MaxOpenHandles + MaxNesting
    BY <1>4, <1>6, <1>7
<1> QED
    BY <1>1, <1>3, <1>4, <1>5, <1>8, <1>9 DEF Sound

LEMMA SoundEdit ==
    ASSUME NEW fs, NEW s, NEW a, NEW g, Sound(fs, s, a, g), s # <<>>,
           NEW f \in FileSlots, NEW h \in FileRecord, HandleFits(h),
           NEW b \in FileAccount, HasRoom(s, b), NEW w \in FileGhosts,
           Continues(g, w, f), Minded(h, w, f),
           \/ NobodyHolds(s, f)
           \/ h.st = fs[f].st /\ (Known(fs, g, f) => h.listed \/ f \in w.ousted),
           b.open = Recount(a.open, fs[f].st, h.st),
           b.buffered = a.buffered + h.charged - fs[f].charged,
           b.buffered <= MaxTotalBytes
    PROVE  Sound([fs EXCEPT ![f] = h], s, b, w)
<1>1. StackFits(s) /\ Holding(fs, g, s) /\ HandlesFit(fs, a, g)
    BY DEF Sound
<1>2. fs \in [FileSlots -> FileRecord]
    BY <1>1 DEF HandlesFit
<1>3. HandlesFit([fs EXCEPT ![f] = h], b, w)
    BY <1>1, HandleEdited
<1>4. Holding([fs EXCEPT ![f] = h], w, s)
    BY <1>1, <1>2, HoldersKeepFaith
<1> QED
    BY <1>1, <1>3, <1>4 DEF Sound

LEMMA SoundAccount ==
    ASSUME NEW fs, NEW s, NEW a, NEW g, Sound(fs, s, a, g),
           NEW b \in FileAccount, b.open = a.open, b.buffered = a.buffered
    PROVE  Sound(fs, s, b, g)
<1>1. HasRoom(s, b)
    BY DEF Sound, HasRoom
<1>2. HandlesFit(fs, b, g)
    BY DEF Sound, HandlesFit, Counted
<1> QED
    BY <1>1, <1>2 DEF Sound

LEMMA BlankTyped ==
    /\ Blank \in FileRecord /\ HandleFits(Blank)
    /\ Blank.st = "closed" /\ Blank.charged = 0 /\ ~Blank.unsent /\ ~Blank.dirty
<1>1. MaxFileBytes \in Nat
    BY FilesAssumption
<1>2. Blank.st = "closed" /\ Blank.charged = 0 /\ Blank.unsent = FALSE /\ Blank.dirty = FALSE
    BY DEF Blank
<1> QED
    BY <1>1, <1>2 DEF Blank, FileRecord, HandleFits, Modes

(* The same history goes on.                                                     *)
LEMMA SameHistory ==
    ASSUME NEW fs, NEW a, NEW g, HandlesFit(fs, a, g), NEW f
    PROVE  Continues(g, g, f)
BY DEF HandlesFit, Remembered, Continues

(* luaext_vfs_handle_release, of a handle no call on the stack counts on.        *)
LEMMA ReleaseSound ==
    ASSUME NEW s, NEW asked, Sound(files, s, account, ghosts), s # <<>>,
           NEW f \in FileSlots, files[f].st # "closed", NobodyHolds(s, f),
           files[f].unsent /\ ~asked => f \in ghosts.overlapped \cup ghosts.ousted,
           Release(f, account, asked)
    PROVE  Sound(files', s, account', ghosts')
<1>1. /\ files \in [FileSlots -> FileRecord] /\ account \in FileAccount /\ ghosts \in FileGhosts
      /\ HandlesFit(files, account, ghosts) /\ HasRoom(s, account) /\ s \in Seq(FileFrame)
    BY DEF Sound, HandlesFit, StackFits
<1>2. files[f].charged \in Nat /\ account.open \in Nat /\ account.buffered \in Int
    BY <1>1 DEF FileRecord, FileAccount
<1> DEFINE o == IF account.open > 0 THEN account.open - 1 ELSE 0
           u == account.buffered - files[f].charged
<1>3. account' = [account EXCEPT !.open = o, !.buffered = u] /\ o \in Nat /\ u \in Int
    BY <1>2 DEF Release
<1>4. o <= account.open
    BY <1>2
<1>5. o = Recount(account.open, files[f].st, "closed")
    BY <1>2 DEF Recount
<1> HIDE DEF o, u
<1>6. account' \in FileAccount /\ account'.open = o /\ account'.buffered = u
    BY <1>1, <1>3 DEF FileAccount
<1>7. account.buffered <= MaxTotalBytes /\ MaxTotalBytes \in Nat
    BY <1>1, FilesAssumption DEF HandlesFit, Counted
<1>8. u <= MaxTotalBytes
    BY <1>2, <1>7 DEF u
<1>9. HasRoom(s, account')
    <2>1. FramesWith(s, Asking) \in Nat /\ MaxOpenHandles \in Nat /\ MaxNesting \in Nat
        BY <1>1, FramesNatural, FilesAssumption
    <2> QED
        BY <1>1, <1>2, <1>3, <1>4, <1>6, <2>1 DEF HasRoom
<1>10. ghosts' \in FileGhosts /\ Continues(ghosts, ghosts', f)
    <2>1. ghosts.dropped \subseteq ghosts.overlapped \cup ghosts.ousted
        BY <1>1 DEF HandlesFit, Remembered
    <2>2. CASE files[f].unsent /\ ~asked
        <3> DEFINE D == ghosts.dropped \cup {f}
        <3>1. ghosts' = [ghosts EXCEPT !.dropped = D]
            BY <2>2 DEF Release
        <3>2. D \in SUBSET FileSlots /\ D \subseteq ghosts.overlapped \cup ghosts.ousted
            BY <1>1, <2>1, <2>2 DEF FileGhosts
        <3> HIDE DEF D
        <3>3. /\ ghosts' \in FileGhosts /\ ghosts'.overlapped = ghosts.overlapped
              /\ ghosts'.ousted = ghosts.ousted /\ ghosts'.dropped = D
              /\ ghosts'.stray = ghosts.stray
            BY <1>1, <3>1, <3>2 DEF FileGhosts
        <3> QED
            BY <3>2, <3>3 DEF Continues
    <2>3. CASE ~(files[f].unsent /\ ~asked)
        <3>1. ghosts' = ghosts
            BY <2>3 DEF Release
        <3> QED
            BY <1>1, <3>1, SameHistory
    <2> QED
        BY <2>2, <2>3
<1>11. files' = [files EXCEPT ![f] = Blank]
    BY DEF Release
<1>12. /\ account'.buffered = account.buffered + Blank.charged - files[f].charged
       /\ account'.open = Recount(account.open, files[f].st, Blank.st)
    BY <1>2, <1>5, <1>6, BlankTyped DEF u
<1>13. Minded(Blank, ghosts', f)
    BY BlankTyped DEF Minded
<1>14. Sound([files EXCEPT ![f] = Blank], s, account', ghosts')
    BY <1>6, <1>8, <1>9, <1>10, <1>12, <1>13, BlankTyped, SoundEdit
<1> QED
    BY <1>11, <1>14

(* luaext_vfs_charge_operation, then the call.                                   *)
LEMMA ChargeSound ==
    ASSUME NEW fs, NEW s, NEW a, NEW g, Sound(fs, s, a, g), s # <<>>, trouble \in Trouble,
           NEW e \in FileFrame, Above(Last(s), e), e.k \notin Scripts,
           e.k \in AboutFile => e.f \in FileSlots,
           e.k \in Releases => NobodyHolds(s, e.f),
           Counts(fs, g, e),
           e.k \in Asking => a.open + FramesWith(s, Asking) + 1 <= MaxOpenHandles + MaxNesting,
           Charge(a, s, e)
    PROVE  Sound(fs, nest', account', g) /\ trouble' \in Trouble
<1>1. a \in FileAccount
    BY DEF Sound, HandlesFit
<1> DEFINE n == IF a.ops > MaxOperations THEN a.ops ELSE a.ops + 1
<1>2. account' = [a EXCEPT !.ops = n]
    BY DEF Charge
<1>3. n \in 0 .. MaxOperations + 1
    <2>1. a.ops \in 0 .. MaxOperations + 1 /\ MaxOperations \in Nat
        BY <1>1, FilesAssumption DEF FileAccount
    <2> QED
        BY <2>1
<1> HIDE DEF n
<1>4. account' \in FileAccount /\ account'.open = a.open /\ account'.buffered = a.buffered
    BY <1>1, <1>2, <1>3 DEF FileAccount
<1>5. Sound(fs, s, account', g)
    BY <1>4, SoundAccount
<1>6. trouble' \in Trouble
    BY DEF Charge, Raised, Calm, Trouble
<1>7. CASE nest' = s
    BY <1>5, <1>6, <1>7
<1>8. CASE nest' = Append(s, e)
    <2>1. e.k \in Asking => account'.open + FramesWith(s, Asking) + 1 <= MaxOpenHandles + MaxNesting
        BY <1>4
    <2>2. Sound(fs, Append(s, e), account', g)
        BY <1>5, <2>1, SoundCall DEF Scripts
    <2> QED
        BY <1>6, <1>8, <2>2
<1> QED
    BY <1>7, <1>8 DEF Charge

LEMMA RequestTyped ==
    ASSUME trouble \in Trouble, NEW k \in CallKinds, NEW f \in FileSlots \cup {NoFile},
           NEW p \in Paths, NEW m \in Modes
    PROVE  /\ Request(k, f, p, m) \in FileFrame
           /\ Request(k, f, p, m).k = k /\ Request(k, f, p, m).f = f /\ Request(k, f, p, m).p = p
           /\ Request(k, f, p, m).m = m
    BY DEF Request, FileFrame, Trouble

LEMMA BareTyped ==
    ASSUME NEW k \in CallKinds, NEW b \in BOOLEAN
    PROVE  Bare(k) \in FileFrame /\ Bare(k).k = k
           /\ [Bare(k) EXCEPT !.ran = b] \in FileFrame /\ [Bare(k) EXCEPT !.ran = b].k = k
    BY DEF Bare, FileFrame, Modes

--------------------------------------------------------------------------------
(* What an action may count on.                                                  *)

LEMMA InvParts ==
    ASSUME FIInv
    PROVE  /\ Sound(files, nest, account, ghosts) /\ StackFits(nest) /\ nest \in Seq(FileFrame)
           /\ HandlesFit(files, account, ghosts)
           /\ files \in [FileSlots -> FileRecord] /\ account \in FileAccount /\ ghosts \in FileGhosts
           /\ trouble \in Trouble /\ disk \subseteq Paths
           /\ \A f \in FileSlots : files[f] \in FileRecord /\ HandleFits(files[f])
BY DEF FIInv, Sound, StackFits, HandlesFit

LEMMA ScriptFacts ==
    ASSUME FIInv, InLua
    PROVE  /\ nest # <<>> /\ Last(nest).k \in Scripts
           /\ FramesWith(nest, Asking) \in Nat /\ FramesWith(nest, Asking) <= MaxNesting
<1>1. nest \in Seq(FileFrame) /\ StackFits(nest) /\ nest # <<>> /\ Last(nest).k \in Scripts
    BY InvParts DEF StackFits, InLua, InnerIs, Inner, Scripts
<1>2. FramesWith(nest, Asking) + 1 <= MaxNesting + 1
    BY <1>1, OpensWithin
<1>3. FramesWith(nest, Asking) \in Nat /\ MaxNesting \in Nat
    BY <1>1, FramesNatural, FilesAssumption
<1> QED
    BY <1>1, <1>2, <1>3

LEMMA CallFacts ==
    ASSUME FIInv, nest # <<>>, Inner.k \notin {"lua", "gc", "sweep"}
    PROVE  /\ Len(nest) > 1 /\ Sound(files, Outer, account, ghosts) /\ Outer # <<>>
           /\ Outer \in Seq(FileFrame)
           /\ Inner \in FileFrame /\ Inner.k \in CallKinds \ {"lua", "gc", "sweep"}
           /\ Inner.p \in Paths /\ Inner.m \in Modes /\ Inner.fly \in BOOLEAN
           /\ Inner.found \in BOOLEAN
           /\ Inner.k \in AboutFile => Inner.f \in FileSlots
           /\ Inner.k \in Releases => NobodyHolds(Outer, Inner.f)
           /\ Counts(files, ghosts, Inner)
           /\ Inner.k # "sweepclose" => Last(Outer).k \in Scripts
           /\ Inner.k \in Asking =>
                account.open + 1 + FramesWith(Outer, Asking) <= MaxOpenHandles + MaxNesting
<1>1. /\ nest \in Seq(FileFrame) /\ Stacked(nest) /\ nest # <<>>
      /\ Last(nest).k \notin {"lua", "gc", "sweep"}
    BY InvParts DEF StackFits, Inner
<1>2. Last(nest) = nest[Len(nest)] /\ Len(nest) \in Nat /\ Len(nest) > 0
    BY <1>1, CallTaken
<1>3. Len(nest) > 1
    BY <1>1, <1>2 DEF Stacked
<1>4. Sound(files, nest, account, ghosts)
    BY InvParts
<1>5. /\ Sound(files, Outer, account, ghosts) /\ Outer # <<>>
      /\ Inner \in FileFrame /\ Above(Last(Outer), Inner)
      /\ Inner.k \in AboutFile => Inner.f \in FileSlots
      /\ Inner.k \in Releases => NobodyHolds(Outer, Inner.f)
      /\ Counts(files, ghosts, Inner)
      /\ Inner.k \in Asking =>
            account.open + 1 + FramesWith(Outer, Asking) <= MaxOpenHandles + MaxNesting
    BY <1>3, <1>4, SoundReturn DEF Inner, Outer
<1>6. Inner.k \in CallKinds \ {"lua", "gc", "sweep"}
    BY <1>1, <1>5 DEF FileFrame, Inner
<1>7. Inner.p \in Paths /\ (Inner.k # "sweepclose" => Last(Outer).k \in Scripts)
    BY <1>5, <1>6 DEF Above, CallKinds, OfScript
<1>8. Outer \in Seq(FileFrame)
    BY <1>5 DEF Sound, StackFits
<1> QED
    BY <1>3, <1>5, <1>6, <1>7, <1>8 DEF FileFrame

LEMMA BackendIsACall ==
    ASSUME Backend
    PROVE  nest # <<>> /\ Inner.k \notin {"lua", "gc", "sweep"} /\ Inner.k \notin Making
BY DEF Backend, Making

LEMMA ResumesTyped ==
    ASSUME FIInv, Backend, Resumes
    PROVE  nest' = Outer /\ trouble' \in Trouble
<1>1. Inner.fly \in BOOLEAN /\ trouble \in Trouble
    BY BackendIsACall, CallFacts, InvParts
<1> QED
    BY <1>1 DEF Resumes, Trouble

LEMMA InvNext ==
    ASSUME Sound(files', nest', account', ghosts'), trouble' \in Trouble, disk' \subseteq Paths
    PROVE  FIInv'
BY DEF FIInv

LEMMA TroubleTyped ==
    ASSUME trouble \in Trouble, Raised \/ Calm \/ UNCHANGED trouble
    PROVE  trouble' \in Trouble
BY DEF Raised, Calm, Trouble

--------------------------------------------------------------------------------
(* Entering, re-entering and leaving.                                            *)

LEMMA FilesStart == ASSUME FilesInit PROVE FIInv
<1>1. nest = <<>> /\ nest \in Seq(FileFrame) /\ Len(nest) = 0
    BY DEF FilesInit
<1>2. files = [f \in FileSlots |-> Blank] /\ files \in [FileSlots -> FileRecord]
    BY BlankTyped DEF FilesInit
<1>3. \A ks : FramesWith(nest, ks) = 0
    BY <1>1, NoFrames
<1>4. /\ MaxNesting \in Nat /\ MaxOpenHandles \in Nat /\ MaxTotalBytes \in Nat
      /\ MaxOperations \in Nat /\ MaxFiles \in Nat
    BY FilesAssumption
<1>5. StackFits(nest)
    BY <1>1, <1>3, <1>4 DEF StackFits, Stacked, Apart, Depth
<1>6. account \in FileAccount /\ account.open = 0 /\ account.buffered = 0
    BY <1>4 DEF FilesInit, FileAccount
<1>7. ghosts \in FileGhosts /\ ghosts.dropped = {}
    BY DEF FilesInit, NoGhosts, FileGhosts
<1>8. Opened(files) = {}
    BY <1>2, BlankTyped DEF Opened
<1>9. Counted(files, account, ghosts)
    <2>1. IsFiniteSet(FileSlots)
        BY FilesAssumption
    <2>2. \A f \in FileSlots : Charges(files)[f] = 0
        BY <1>2, BlankTyped DEF Charges
    <2>3. DOMAIN Charges(files) = FileSlots
        BY DEF Charges
    <2>4. SumFunction(Charges(files)) = 0
        BY <2>1, <2>2, <2>3, SumOfZeros, SumOfAll
    <2> QED
        BY <1>4, <1>6, <1>8, <2>4, FS_EmptySet DEF Counted
<1>10. (\A f \in FileSlots : HandleFits(files[f])) /\ Remembered(files, ghosts)
    BY <1>2, <1>7, BlankTyped DEF Remembered
<1>11. HandlesFit(files, account, ghosts)
    BY <1>2, <1>6, <1>7, <1>9, <1>10 DEF HandlesFit
<1>12. HasRoom(nest, account)
    BY <1>3, <1>4, <1>6 DEF HasRoom
<1>13. Holding(files, ghosts, nest)
    BY <1>1 DEF Holding
<1>14. Sound(files, nest, account, ghosts)
    BY <1>5, <1>8, <1>11, <1>12, <1>13 DEF Sound, Enlisted
<1>15. trouble \in Trouble /\ disk \subseteq Paths
    BY DEF FilesInit, Trouble
<1> QED
    BY <1>14, <1>15 DEF FIInv

(* A stack of one call into the interpreter, or of the sweep alone.              *)
LEMMA OneFrame ==
    ASSUME NEW e \in FileFrame, e.k \in {"lua", "sweep"}
    PROVE  /\ StackFits(<<e>>) /\ <<e>> # <<>> /\ FramesWith(<<e>>, Asking) = 0
           /\ \A fs, g : Holding(fs, g, <<e>>)
<1> DEFINE t == <<e>>
<1>1. t \in Seq(FileFrame) /\ Len(t) = 1 /\ t[1] = e /\ t # <<>>
    OBVIOUS
<1>2. Len(<<>>) = 0 /\ Len(t) = Len(<<>>) + 1 /\ t[Len(<<>>) + 1] = e
    BY <1>1
<1> HIDE DEF t
<1>3. \A ks : FramesWith(t, ks) = FramesWith(<<>>, ks) + (IF e.k \in ks THEN 1 ELSE 0)
    <2> SUFFICES ASSUME NEW ks
                 PROVE  FramesWith(t, ks) = FramesWith(<<>>, ks) + (IF e.k \in ks THEN 1 ELSE 0)
        OBVIOUS
    <2>1. \E s : s = <<>>
        OBVIOUS
    <2>2. PICK s : s = <<>>
        BY <2>1
    <2>3. Len(s) \in Nat /\ Len(t) = Len(s) + 1 /\ t[Len(s) + 1] = e
        BY <1>2, <2>2
    <2>4. \A n \in 1 .. Len(s) : t[n] = s[n]
        BY <1>2, <2>2
    <2>5. FramesWith(t, ks) = FramesWith(s, ks) + (IF e.k \in ks THEN 1 ELSE 0)
        BY <2>3, <2>4, FramesGrow
    <2> QED
        BY <2>2, <2>5
<1>4. \A ks : FramesWith(t, ks) = (IF e.k \in ks THEN 1 ELSE 0)
    BY <1>3, NoFrames
<1>5. Stacked(t)
    BY <1>1 DEF Stacked, AboutFile
<1>6. Apart(t)
    BY <1>1 DEF Apart, Releases
<1>7. Depth(t)
    <2>1. MaxNesting \in Nat \ {0}
        BY FilesAssumption
    <2>2. FramesWith(t, {"lua"}) <= 1 /\ FramesWith(t, {"gc"}) <= 1
        BY <1>4
    <2>3. FramesWith(t, {"lua"}) \in Nat
        BY <1>4
    <2> QED
        BY <2>1, <2>2, <2>3 DEF Depth
<1>8. FramesWith(t, Asking) = 0
    BY <1>4 DEF Asking
<1>9. \A fs, g : Holding(fs, g, t)
    BY <1>1 DEF Holding, Counts, Openings, Holds
<1> QED
    BY <1>1, <1>5, <1>6, <1>7, <1>8, <1>9 DEF StackFits, t

LEMMA BeginCallKeeps == ASSUME FIInv, BeginCall PROVE FIInv'
<1> USE InvParts
<1>1. nest' = <<Bare("lua")>> /\ Bare("lua") \in FileFrame /\ Bare("lua").k = "lua"
    BY BareTyped DEF BeginCall, CallKinds
<1>2. /\ StackFits(nest') /\ nest' # <<>> /\ FramesWith(nest', Asking) = 0
      /\ Holding(files, ghosts', nest')
    BY <1>1, OneFrame
<1>3. account' \in FileAccount /\ account'.open = account.open /\ account'.buffered = account.buffered
    <2>1. MaxOperations \in Nat
        BY FilesAssumption
    <2> QED
        BY <2>1 DEF BeginCall, FileAccount
<1> DEFINE lost == ghosts.stray /\ OpenFiles # {}
<1>4. /\ ghosts'.overlapped = ghosts.overlapped \cap OpenFiles /\ ghosts'.dropped = {}
      /\ ghosts'.ousted = ghosts.ousted \cap OpenFiles
      /\ ghosts' \in FileGhosts /\ ghosts'.stray = lost
    <2>1. lost \in BOOLEAN /\ OpenFiles \subseteq FileSlots
        BY DEF FileGhosts, OpenFiles
    <2> QED
        BY <2>1 DEF BeginCall, FileGhosts
<1>5. Remembered(files, ghosts')
    <2>1. Remembered(files, ghosts)
        BY DEF HandlesFit
    <2>2. ASSUME NEW f \in FileSlots
          PROVE  /\ files[f].unsent => files[f].dirty \/ f \in ghosts'.overlapped
                 /\ files[f].st = "open" => files[f].listed \/ f \in ghosts'.ousted
        BY <1>4, <2>1 DEF Remembered, Known, OpenFiles, HandleFits
    <2> QED
        BY <1>4, <2>2 DEF Remembered, Known
<1>6. Counted(files, account', ghosts')
    <2>1. Counted(files, account, ghosts) /\ account.open \in Nat
        BY DEF HandlesFit, FileAccount
    <2>2. OpenFiles = {} => Cardinality(Opened(files)) = 0
        <3>1. OpenFiles = Opened(files)
            BY DEF OpenFiles, Opened
        <3> QED
            BY <3>1, FS_EmptySet
    <2>3. ~lost => account.open = Cardinality(Opened(files))
        BY <2>1, <2>2 DEF Counted
    <2> QED
        BY <1>3, <1>4, <2>1, <2>3 DEF Counted
<1>7. HandlesFit(files, account', ghosts')
    BY <1>3, <1>4, <1>5, <1>6 DEF HandlesFit
<1>8. HasRoom(nest', account')
    <2>1. nest = <<>> /\ HasRoom(nest, account)
        BY DEF BeginCall, Sound
    <2> QED
        BY <1>2, <1>3, <2>1, NoFrames DEF HasRoom
<1>9. Sound(files', nest', account', ghosts')
    BY <1>2, <1>7, <1>8 DEF Sound, BeginCall
<1> QED
    BY <1>9, InvNext DEF BeginCall

LEMMA ReenterKeeps == ASSUME FIInv, Reenter PROVE FIInv'
<1>1. Backend /\ Sound(files, nest, account, ghosts) /\ nest # <<>>
    BY InvParts DEF Reenter, Backend
<1>2. Bare("lua") \in FileFrame /\ Bare("lua").k = "lua"
    BY BareTyped DEF CallKinds
<1>3. Above(Last(nest), Bare("lua"))
    BY <1>1, <1>2, BackendIsACall DEF Above, Inner, Scripts, OfScript, Making
<1>4. FramesWith(nest, {"lua"}) < MaxNesting
    <2>1. Nested = FramesOf(nest, {"lua"})
        BY InvParts DEF Nested, FramesOf
    <2> QED
        BY <2>1 DEF Reenter, FramesWith
<1>5. Counts(files, ghosts, Bare("lua"))
    BY <1>2 DEF Counts, Openings, Holds
<1>6. Sound(files, Append(nest, Bare("lua")), account, ghosts)
    BY <1>1, <1>2, <1>3, <1>4, <1>5, SoundCall DEF AboutFile, Releases, Asking
<1> QED
    BY <1>6, InvParts, InvNext DEF Reenter

(* Whatever allocates may run a finaliser.                                       *)
LEMMA GcRunsKeeps == ASSUME FIInv, GcRuns PROVE FIInv'
<1>1. /\ nest # <<>> /\ Last(nest).k \in {"lua"} \cup Making
      /\ \A n \in 1 .. Len(nest) : nest[n].k # "gc"
    <2>1. nest # <<>> /\ Last(nest).k \in Scripts \cup Making
        BY DEF GcRuns, Script, InLua, InnerIs, Inner, Scripts
    <2>2. \A n \in 1 .. Len(nest) : nest[n].k # "gc"
        BY InvParts DEF GcRuns
    <2>3. Last(nest) = nest[Len(nest)] /\ Len(nest) \in 1 .. Len(nest)
        BY <2>1, InvParts, CallTaken
    <2> QED
        BY <2>1, <2>2, <2>3 DEF Scripts
<1>2. Bare("gc") \in FileFrame /\ Bare("gc").k = "gc"
    BY BareTyped DEF CallKinds
<1>3. Above(Last(nest), Bare("gc"))
    BY <1>1, <1>2 DEF Above, OfScript
<1>4. FramesWith(nest, {"gc"}) = 0
    <2>1. FramesOf(nest, {"gc"}) = {}
        BY <1>1 DEF FramesOf
    <2> QED
        BY <2>1, FS_EmptySet DEF FramesWith
<1>5. Counts(files, ghosts, Bare("gc"))
    BY <1>2 DEF Counts, Openings, Holds
<1>6. Sound(files, Append(nest, Bare("gc")), account, ghosts)
    BY <1>1, <1>2, <1>3, <1>4, <1>5, InvParts, SoundCall DEF AboutFile, Releases, Asking
<1> QED
    BY <1>6, InvParts, InvNext DEF GcRuns

LEMMA GcEndsKeeps == ASSUME FIInv, GcEnds PROVE FIInv'
<1>1. /\ nest \in Seq(FileFrame) /\ Stacked(nest) /\ nest # <<>> /\ Last(nest).k = "gc"
      /\ Sound(files, nest, account, ghosts)
    BY InvParts DEF StackFits, GcEnds, InnerIs, Inner
<1>2. Last(nest) = nest[Len(nest)] /\ Len(nest) \in Nat /\ Len(nest) > 0
    BY <1>1, CallTaken
<1>3. Len(nest) > 1
    BY <1>1, <1>2 DEF Stacked
<1>4. Sound(files, Outer, account, ghosts) /\ Outer # <<>>
    BY <1>1, <1>3, SoundReturn DEF Outer
<1>5. ASSUME Last(Outer).k \in Making PROVE Sound(files, Front(Outer), account, ghosts)
    <2>1. Outer \in Seq(FileFrame) /\ Stacked(Outer)
        BY <1>4 DEF Sound, StackFits
    <2>2. Last(Outer) = Outer[Len(Outer)] /\ Len(Outer) \in Nat /\ Len(Outer) > 0
        BY <1>4, <2>1, CallTaken
    <2>3. Len(Outer) > 1
        BY <1>4, <1>5, <2>1, <2>2 DEF Stacked, Making
    <2> QED
        BY <1>4, <2>3, SoundReturn
<1>6. trouble' \in Trouble
    BY InvParts, TroubleTyped DEF GcEnds
<1>7. Sound(files, nest', account, ghosts)
    BY <1>4, <1>5 DEF GcEnds
<1> QED
    BY <1>6, <1>7, InvParts, InvNext DEF GcEnds

LEMMA NestedReturnsKeeps == ASSUME FIInv, NestedReturns PROVE FIInv'
<1>1. Sound(files, Outer, account, ghosts)
    BY InvParts, SoundReturn DEF NestedReturns, Outer
<1>2. trouble' \in Trouble
    BY InvParts, TroubleTyped DEF NestedReturns
<1> QED
    BY <1>1, <1>2, InvParts, InvNext DEF NestedReturns

LEMMA BackendCatchesKeeps == ASSUME FIInv, BackendCatches PROVE FIInv'
<1>1. trouble' \in Trouble
    BY InvParts DEF BackendCatches, Trouble
<1> QED
    BY <1>1, InvParts, InvNext DEF BackendCatches

LEMMA EmptyStack ==
    /\ StackFits(<<>>) /\ FramesWith(<<>>, Asking) = 0 /\ \A fs, g : Holding(fs, g, <<>>)
<1>1. <<>> \in Seq(FileFrame) /\ Len(<<>>) = 0
    OBVIOUS
<1>2. MaxNesting \in Nat
    BY FilesAssumption
<1> QED
    BY <1>1, <1>2, NoFrames DEF StackFits, Stacked, Apart, Depth, Holding

(* The call is over: what is counted open is what is, or a sweep left one.       *)
LEMMA StackCleared ==
    ASSUME NEW a, NEW g, HandlesFit(files, a, g), a.open <= MaxOpenHandles + MaxNesting,
           ~g.skipped /\ ~g.stray => Enlisted(files) = {}
    PROVE  Sound(files, <<>>, a, g)
<1>1. HasRoom(<<>>, a)
    BY EmptyStack, FilesAssumption DEF HasRoom, HandlesFit, FileAccount
<1> QED
    BY <1>1, EmptyStack DEF Sound

LEMMA OpenWithin ==
    ASSUME FIInv
    PROVE  account.open <= MaxOpenHandles + MaxNesting /\ account.open \in Nat
<1>1. HasRoom(nest, account) /\ account.open \in Nat
    BY InvParts DEF Sound, FileAccount
<1>2. FramesWith(nest, Asking) \in Nat /\ MaxNesting \in Nat /\ MaxOpenHandles \in Nat
    BY InvParts, FramesNatural, FilesAssumption
<1> QED
    BY <1>1, <1>2 DEF HasRoom

LEMMA NothingOpened ==
    ASSUME Cardinality(Opened(files)) = 0
    PROVE  Opened(files) = {} /\ Enlisted(files) = {}
<1>1. IsFiniteSet(Opened(files))
    BY FilesAssumption, FS_Subset DEF Opened
<1>2. Opened(files) = {}
    BY <1>1, FS_EmptySet
<1> QED
    BY <1>2 DEF Enlisted

(* What is left open is left uncounted, and the history says so.                 *)
LEMMA MiscountNoted ==
    ASSUME FIInv, NEW b \in FileAccount, b.open = 0, b.buffered = account.buffered,
           ghosts' = [ghosts EXCEPT !.stray = OpenFiles # {}]
    PROVE  Sound(files, <<>>, b, ghosts')
<1> USE InvParts
<1> DEFINE lost == OpenFiles # {}
<1>1. /\ ghosts' \in FileGhosts /\ ghosts'.overlapped = ghosts.overlapped
      /\ ghosts'.dropped = ghosts.dropped /\ ghosts'.ousted = ghosts.ousted
      /\ ghosts'.stray = lost
    BY DEF FileGhosts
<1>2. OpenFiles = Opened(files)
    BY DEF OpenFiles, Opened
<1>3. ~lost => Cardinality(Opened(files)) = 0 /\ Enlisted(files) = {}
    BY <1>2, FS_EmptySet DEF Enlisted
<1>4. Cardinality(Opened(files)) \in Nat
    <2>1. IsFiniteSet(Opened(files))
        BY FilesAssumption, FS_Subset DEF Opened
    <2> QED
        BY <2>1, FS_CardinalityType
<1> HIDE DEF lost
<1>5. HandlesFit(files, b, ghosts')
    BY <1>1, <1>3, <1>4 DEF HandlesFit, Remembered, Known, Counted
<1>6. b.open <= MaxOpenHandles + MaxNesting
    BY FilesAssumption
<1> QED
    BY <1>1, <1>3, <1>5, <1>6, StackCleared

LEMMA OutermostReturnsKeeps == ASSUME FIInv, OutermostReturns PROVE FIInv'
<1> USE InvParts
<1>1. files' = files /\ disk' = disk
    BY DEF OutermostReturns
<1>2. CASE nest' = <<>>
    <2>1. trouble' \in Trouble
        <3>1. \A x : <<x>> # <<>>
            OBVIOUS
        <3>2. trouble' = [flying |-> FALSE, exception |-> "none"]
            BY <1>2, <3>1 DEF OutermostReturns
        <3> QED
            BY <3>2 DEF Trouble
    <2>2. CASE account.open = 0 /\ account' = account /\ ghosts' = ghosts
        <3>1. HandlesFit(files, account, ghosts) /\ Counted(files, account, ghosts)
            BY DEF HandlesFit
        <3>2. ~ghosts.stray => Enlisted(files) = {}
            BY <2>2, <3>1, NothingOpened DEF Counted
        <3>3. Sound(files, <<>>, account, ghosts)
            BY <3>1, <3>2, OpenWithin, StackCleared
        <3>4. Sound(files', nest', account', ghosts')
            BY <1>1, <1>2, <2>2, <3>3
        <3> QED
            BY <1>1, <2>1, <3>4, InvNext
    <2>3. CASE ghosts' = [ghosts EXCEPT !.skipped = TRUE] /\ account' = account
        <3>1. /\ ghosts' \in FileGhosts /\ ghosts'.overlapped = ghosts.overlapped
              /\ ghosts'.dropped = ghosts.dropped /\ ghosts'.ousted = ghosts.ousted
              /\ ghosts'.skipped = TRUE /\ ghosts'.stray = ghosts.stray
            BY <2>3 DEF FileGhosts
        <3>2. HandlesFit(files, account, ghosts')
            BY <3>1 DEF HandlesFit, Remembered, Counted, Known
        <3>3. Sound(files, <<>>, account, ghosts')
            BY <3>1, <3>2, OpenWithin, StackCleared
        <3>4. Sound(files', nest', account', ghosts')
            BY <1>1, <1>2, <2>3, <3>3
        <3> QED
            BY <1>1, <2>1, <3>4, InvNext
    <2>4. CASE /\ account' = [account EXCEPT !.open = 0]
               /\ ghosts' = [ghosts EXCEPT !.stray = OpenFiles # {}]
        <3>1. account' \in FileAccount /\ account'.open = 0 /\ account'.buffered = account.buffered
            BY <2>4 DEF FileAccount
        <3>2. ghosts' = [ghosts EXCEPT !.stray = OpenFiles # {}]
            BY <2>4
        <3>3. Sound(files, <<>>, account', ghosts')
            BY <3>1, <3>2, MiscountNoted
        <3>4. Sound(files', nest', account', ghosts')
            BY <1>1, <1>2, <3>3
        <3> QED
            BY <1>1, <2>1, <3>4, InvNext
    <2> QED
        BY <1>2, <2>2, <2>3, <2>4 DEF OutermostReturns
<1>3. CASE nest' # <<>>
    <2> DEFINE e == [Bare("sweep") EXCEPT !.ran = trouble.exception = "none"]
    <2>1. /\ nest' = <<e>> /\ account' = [account EXCEPT !.sweeping = TRUE, !.table = FALSE]
          /\ Calm /\ ghosts' = ghosts
        BY <1>3 DEF OutermostReturns
    <2>2. (trouble.exception = "none") \in BOOLEAN
        OBVIOUS
    <2>3. e \in FileFrame /\ e.k = "sweep"
        BY <2>2, BareTyped DEF CallKinds
    <2> HIDE DEF e
    <2>4. /\ StackFits(nest') /\ nest' # <<>> /\ FramesWith(nest', Asking) = 0
          /\ Holding(files, ghosts, nest')
        BY <2>1, <2>3, OneFrame
    <2>5. /\ account' \in FileAccount /\ account'.open = account.open
          /\ account'.buffered = account.buffered
        BY <2>1 DEF FileAccount
    <2>6. HasRoom(nest', account')
        BY <2>4, <2>5, OpenWithin DEF HasRoom
    <2>7. HandlesFit(files, account', ghosts)
        BY <2>5 DEF HandlesFit, Counted
    <2>8. Sound(files', nest', account', ghosts')
        BY <1>1, <2>1, <2>4, <2>6, <2>7 DEF Sound
    <2>9. trouble' \in Trouble
        BY <2>1, TroubleTyped
    <2> QED
        BY <1>1, <2>8, <2>9, InvNext
<1> QED
    BY <1>2, <1>3

--------------------------------------------------------------------------------
(* Opening.                                                                     *)

LEMMA OpenRefusedKeeps == ASSUME FIInv, OpenRefused PROVE FIInv'
<1>1. trouble' \in Trouble
    BY InvParts, TroubleTyped DEF OpenRefused
<1> QED
    BY <1>1, InvParts, InvNext DEF OpenRefused

LEMMA OpenAsksKeeps == ASSUME FIInv, OpenAsks PROVE FIInv'
<1>1. InLua /\ account.open < MaxOpenHandles
    BY DEF OpenAsks, Script
<1>2. PICK p \in Paths, m \in Modes : Charge(account, nest, Request("exists", NoFile, p, m))
    BY FilesAssumption DEF OpenAsks, Modes
<1> DEFINE e == Request("exists", NoFile, p, m)
<1>3. e \in FileFrame /\ e.k = "exists" /\ e.p = p
    <2>1. "exists" \in CallKinds /\ NoFile \in FileSlots \cup {NoFile} /\ trouble \in Trouble
        BY InvParts DEF CallKinds
    <2> QED
        BY <2>1, RequestTyped
<1>4. Charge(account, nest, e)
    BY <1>2
<1> HIDE DEF e
<1>5. Sound(files, nest, account, ghosts) /\ trouble \in Trouble
    BY InvParts
<1>6. nest # <<>> /\ Last(nest).k \in Scripts /\ FramesWith(nest, Asking) \in Nat /\ FramesWith(nest, Asking) <= MaxNesting
    BY <1>1, ScriptFacts
<1>7. account.open + FramesWith(nest, Asking) + 1 <= MaxOpenHandles + MaxNesting
    <2>1. account.open \in Int /\ MaxNesting \in Nat /\ MaxOpenHandles \in Nat
        BY InvParts, FilesAssumption DEF FileAccount
    <2> QED
        BY <1>1, <1>6, <2>1
<1>8. Above(Last(nest), e) /\ Counts(files, ghosts, e) /\ e.k \notin Scripts
    BY <1>3, <1>6 DEF Above, Counts, Openings, Holds, Scripts
<1>9. Sound(files, nest', account', ghosts) /\ trouble' \in Trouble
    BY <1>3, <1>4, <1>5, <1>6, <1>7, <1>8, ChargeSound DEF AboutFile, Releases
<1> QED
    BY <1>9, InvParts, InvNext DEF OpenAsks

LEMMA ClosedUnheld ==
    ASSUME NEW fs, NEW s, NEW g, Holding(fs, g, s), NEW f, fs[f].st = "closed"
    PROVE  NobodyHolds(s, f)
BY DEF Holding, NobodyHolds, Counts, Openings, Holds

(* The handle is in the table; what its opening still asks is asked.             *)
LEMMA OpenGoesOnSound ==
    ASSUME FIInv, NEW s, s = Outer, s # <<>>, Last(s).k \in Scripts,
           NEW fs, NEW a, NEW g, Sound(fs, s, a, g),
           NEW f \in FileSlots, fs[f].st = "opening", NobodyHolds(s, f),
           NEW p \in Paths, NEW m \in Modes, NEW exists \in BOOLEAN,
           OpenGoesOn(a, fs, f, p, m, exists)
    PROVE  Sound(files', nest', account', g) /\ trouble' \in Trouble
<1> DEFINE k == NextQuestion(a.ranged, m, exists)
           d == ~a.ranged /\ m = "w" /\ exists
           st == IF k = "none" THEN "open" ELSE "opening"
           h == [fs[f] EXCEPT !.dirty = d, !.st = st, !.listed = TRUE]
           e == Request(k, f, p, m)
<1>1. /\ fs \in [FileSlots -> FileRecord] /\ a \in FileAccount /\ g \in FileGhosts
      /\ HandleFits(fs[f]) /\ fs[f] \in FileRecord /\ HandlesFit(fs, a, g) /\ HasRoom(s, a)
      /\ a.buffered <= MaxTotalBytes
    BY DEF Sound, HandlesFit, Counted
<1>2. files' = [fs EXCEPT ![f] = h]
    BY <1>1 DEF OpenGoesOn
<1>3. \/ k = "none" /\ nest' = s /\ account' = a /\ Calm
      \/ k # "none" /\ Charge(a, s, e)
    BY DEF OpenGoesOn
<1>4. k \in {"truncate", "size", "load", "none"} /\ (k # "none" => ~d) /\ d \in BOOLEAN
    BY DEF NextQuestion
<1>5. st \in {"opening", "open"} /\ (k # "none" => st = "opening") /\ (d => st = "open")
    BY <1>4
<1> HIDE DEF d, st, k
<1>6. /\ h \in FileRecord /\ h.st = st /\ h.dirty = d /\ h.listed = TRUE
      /\ h.path = fs[f].path /\ h.unsent = fs[f].unsent /\ h.charged = fs[f].charged
    BY <1>1, <1>4, <1>5 DEF FileRecord
<1> HIDE DEF h
<1>7. HandleFits(h) /\ ~h.unsent
    BY <1>1, <1>5, <1>6 DEF HandleFits, FileRecord
<1>8. Minded(h, g, f) /\ Continues(g, g, f)
    BY <1>1, <1>6, <1>7, SameHistory DEF Minded
<1>9. /\ a.open = Recount(a.open, fs[f].st, h.st)
      /\ a.buffered = a.buffered + h.charged - fs[f].charged
    BY <1>1, <1>5, <1>6 DEF Recount, FileAccount, FileRecord
<1>10. Sound([fs EXCEPT ![f] = h], s, a, g)
    BY <1>1, <1>6, <1>7, <1>8, <1>9, SoundEdit
<1>11. Sound(files', s, a, g) /\ trouble \in Trouble
    BY <1>2, <1>10, InvParts
<1>12. CASE k = "none"
    <2>1. nest' = s /\ account' = a /\ Calm
        BY <1>3, <1>12
    <2>2. trouble' \in Trouble
        BY <1>11, <2>1, TroubleTyped
    <2> QED
        BY <1>11, <2>1, <2>2
<1>13. CASE k # "none"
    <2>1. Charge(a, s, e)
        BY <1>3, <1>13
    <2>2. k \in CallKinds /\ k \in Openings /\ k \in OfScript /\ k \notin Scripts /\ k \notin Asking
          /\ f \in FileSlots \cup {NoFile}
        BY <1>4, <1>13 DEF CallKinds, Openings, OfScript, Scripts, Asking
    <2>3. e \in FileFrame /\ e.k = k /\ e.f = f /\ e.p = p
        BY <1>11, <2>2, RequestTyped
    <2> HIDE DEF e
    <2>4. Above(Last(s), e)
        BY <2>2, <2>3 DEF Above, OfScript, Scripts
    <2>5. files'[f] = h
        BY <1>1, <1>2
    <2>6. Counts(files', g, e)
        BY <1>5, <1>6, <1>13, <2>2, <2>3, <2>5 DEF Counts, Known
    <2>7. /\ e.k \in AboutFile => e.f \in FileSlots
          /\ e.k \in Releases => NobodyHolds(s, e.f)
        BY <2>3
    <2> QED
        BY <1>11, <2>1, <2>2, <2>3, <2>4, <2>6, <2>7, ChargeSound
<1> QED
    BY <1>12, <1>13

(* The handle is about to be made.                                               *)
LEMMA MakesSound ==
    ASSUME FIInv, NEW s, s = Outer, s # <<>>, Last(s).k \in Scripts,
           NEW a, Sound(files, s, a, ghosts),
           a.open + 1 + FramesWith(s, Asking) <= MaxOpenHandles + MaxNesting,
           NEW p \in Paths, NEW m \in Modes, NEW exists \in BOOLEAN, Makes(p, m, exists)
    PROVE  Sound(files, nest', a, ghosts)
<1> DEFINE r == Request("make", NoFile, p, m)
           e == [r EXCEPT !.found = exists]
<1>1. r \in FileFrame /\ r.k = "make" /\ r.p = p
    <2>1. "make" \in CallKinds /\ NoFile \in FileSlots \cup {NoFile} /\ trouble \in Trouble
        BY InvParts DEF CallKinds
    <2> QED
        BY <2>1, RequestTyped
<1>2. nest' = Append(s, e)
    BY DEF Makes
<1> HIDE DEF r
<1>3. e \in FileFrame /\ e.k = "make" /\ e.p = p
    BY <1>1 DEF FileFrame
<1> HIDE DEF e
<1>4. Above(Last(s), e) /\ Counts(files, ghosts, e)
    BY <1>3 DEF Above, Counts, Openings, Holds, Scripts, OfScript
<1>5. a.open + FramesWith(s, Asking) + 1 <= MaxOpenHandles + MaxNesting
    <2>1. a.open \in Nat /\ s \in Seq(FileFrame)
        BY DEF Sound, StackFits, HandlesFit, FileAccount
    <2>2. FramesWith(s, Asking) \in Nat
        BY <2>1, FramesNatural
    <2> QED
        BY <2>1, <2>2
<1>6. Sound(files, Append(s, e), a, ghosts)
    BY <1>3, <1>4, <1>5, SoundCall DEF AboutFile, Releases
<1> QED
    BY <1>2, <1>6

LEMMA NewFileSound ==
    ASSUME FIInv, NEW s, s = Outer, s # <<>>, Last(s).k \in Scripts,
           Sound(files, s, account, ghosts),
           account.open + 1 + FramesWith(s, Asking) <= MaxOpenHandles + MaxNesting,
           NEW a \in FileAccount, a.open = account.open, a.buffered = account.buffered,
           NEW p \in Paths, NEW m \in Modes, NewFile(a, p, m)
    PROVE  Sound(files, nest', account', ghosts) /\ trouble' \in Trouble
<1>1. CASE nest' = s /\ account' = a /\ Raised
    <2>1. Sound(files, s, a, ghosts) /\ trouble' \in Trouble
        BY <1>1, SoundAccount, InvParts, TroubleTyped
    <2> QED
        BY <1>1, <2>1
<1>2. CASE /\ a.count < MaxFiles /\ account' = [a EXCEPT !.count = @ + 1]
           /\ Makes(p, m, FALSE) /\ Calm
    <2> DEFINE c == a.count + 1
    <2>1. c \in 0 .. MaxFiles + 1 /\ account' = [a EXCEPT !.count = c]
        BY <1>2, FilesAssumption DEF FileAccount
    <2> HIDE DEF c
    <2>2. /\ account' \in FileAccount /\ account'.open = account.open
          /\ account'.buffered = account.buffered
        BY <2>1 DEF FileAccount
    <2>3. Sound(files, s, account', ghosts)
        BY <2>2, SoundAccount
    <2>4. account'.open + 1 + FramesWith(s, Asking) <= MaxOpenHandles + MaxNesting
        BY <2>2
    <2>5. Makes(p, m, FALSE) /\ FALSE \in BOOLEAN
        BY <1>2
    <2>6. Sound(files, nest', account', ghosts)
        BY <2>3, <2>4, <2>5, MakesSound
    <2>7. trouble' \in Trouble
        BY <1>2, InvParts, TroubleTyped
    <2> QED
        BY <2>6, <2>7
<1> QED
    BY <1>1, <1>2 DEF NewFile

LEMMA OpenHearsKeeps == ASSUME FIInv, OpenHears PROVE FIInv'
<1>1. Backend /\ Inner.k = "exists" /\ Inner.k \in Asking
    BY DEF OpenHears, Answered, Asking
<1>2. /\ account \in FileAccount /\ trouble \in Trouble
      /\ UNCHANGED <<files, disk, ghosts>>
    BY InvParts DEF OpenHears
<1>3. /\ Inner.p \in Paths /\ Inner.m \in Modes /\ Sound(files, Outer, account, ghosts)
      /\ Outer # <<>> /\ Last(Outer).k \in Scripts
      /\ account.open + 1 + FramesWith(Outer, Asking) <= MaxOpenHandles + MaxNesting
    BY <1>1, BackendIsACall, CallFacts
<1>4. PICK p \in Paths, m \in Modes : p = Inner.p /\ m = Inner.m
    BY <1>3
<1>5. Sound(files, nest', account', ghosts) /\ trouble' \in Trouble
    <2>1. CASE Makes(p, m, TRUE) /\ UNCHANGED <<account, trouble>>
        <3>1. Makes(p, m, TRUE) /\ TRUE \in BOOLEAN
            BY <2>1
        <3>2. Sound(files, nest', account, ghosts)
            BY <1>3, <3>1, MakesSound
        <3> QED
            BY <1>2, <2>1, <3>2
    <2>2. CASE Resumes /\ UNCHANGED account
        BY <1>1, <1>3, <2>2, ResumesTyped
    <2>3. CASE NewFile(account, p, m)
        BY <1>2, <1>3, <2>3, NewFileSound
    <2>4. CASE /\ nest' = Append(Outer, Request("count", NoFile, p, m))
               /\ UNCHANGED <<account, trouble>>
        <3> DEFINE e == Request("count", NoFile, p, m)
        <3>1. e \in FileFrame /\ e.k = "count" /\ e.p = p
            <4>1. "count" \in CallKinds /\ NoFile \in FileSlots \cup {NoFile}
                BY DEF CallKinds
            <4> QED
                BY <1>2, <4>1, RequestTyped
        <3> HIDE DEF e
        <3>2. Above(Last(Outer), e) /\ Counts(files, ghosts, e)
            BY <1>3, <3>1 DEF Above, Counts, Openings, Holds, Scripts, OfScript
        <3>3. account.open + FramesWith(Outer, Asking) + 1 <= MaxOpenHandles + MaxNesting
            <4>1. account.open \in Nat /\ Outer \in Seq(FileFrame)
                BY <1>2, <1>3 DEF FileAccount, Sound, StackFits
            <4>2. FramesWith(Outer, Asking) \in Nat
                BY <4>1, FramesNatural
            <4> QED
                BY <1>3, <4>1, <4>2
        <3>4. Sound(files, Append(Outer, e), account, ghosts)
            BY <1>3, <3>1, <3>2, <3>3, SoundCall DEF AboutFile, Releases
        <3> QED
            BY <1>2, <2>4, <3>4 DEF e
    <2> QED
        BY <1>4, <2>1, <2>2, <2>3, <2>4 DEF OpenHears
<1> QED
    BY <1>2, <1>5, InvParts, InvNext

LEMMA CountHearsKeeps == ASSUME FIInv, CountHears PROVE FIInv'
<1>1. Backend /\ Inner.k = "count" /\ Inner.k \in Asking
    BY DEF CountHears, Answered, Asking
<1>2. PICK n \in 0 .. Cardinality(disk) :
        /\ n <= MaxFiles + 1
        /\ NewFile([account EXCEPT !.count = n, !.known = TRUE], Inner.p, Inner.m)
    BY DEF CountHears
<1> DEFINE a == [account EXCEPT !.count = n, !.known = TRUE]
<1>3. n \in 0 .. MaxFiles + 1
    BY <1>2, FilesAssumption
<1>4. a \in FileAccount /\ a.open = account.open /\ a.buffered = account.buffered
    BY <1>3, InvParts DEF FileAccount
<1>5. NewFile(a, Inner.p, Inner.m)
    BY <1>2
<1> HIDE DEF a
<1>6. /\ Inner.p \in Paths /\ Inner.m \in Modes /\ Sound(files, Outer, account, ghosts)
      /\ Outer # <<>> /\ Last(Outer).k \in Scripts
      /\ account.open + 1 + FramesWith(Outer, Asking) <= MaxOpenHandles + MaxNesting
    BY <1>1, BackendIsACall, CallFacts
<1>7. PICK p \in Paths, m \in Modes : p = Inner.p /\ m = Inner.m
    BY <1>6
<1>8. Sound(files, nest', account', ghosts) /\ trouble' \in Trouble
    <2>1. NewFile(a, p, m)
        BY <1>5, <1>7
    <2> QED
        BY <1>4, <1>6, <2>1, NewFileSound
<1> QED
    BY <1>8, InvParts, InvNext DEF CountHears

LEMMA MakingFacts ==
    ASSUME FIInv, InnerIs(Making)
    PROVE  /\ Sound(files, Outer, account, ghosts) /\ Outer # <<>> /\ Last(Outer).k \in Scripts
           /\ Inner.p \in Paths /\ Inner.m \in Modes /\ Inner.found \in BOOLEAN
           /\ Inner \in FileFrame
           /\ Inner.k = "make" =>
                account.open + 1 + FramesWith(Outer, Asking) <= MaxOpenHandles + MaxNesting
           /\ Inner.k = "table" =>
                /\ Inner.f \in FileSlots /\ NobodyHolds(Outer, Inner.f)
                /\ files[Inner.f].st = "opening"
<1>1. nest # <<>> /\ Inner.k \in {"make", "table"}
    BY DEF InnerIs, Making
<1> QED
    BY <1>1, CallFacts DEF Asking, AboutFile, Releases, Counts, Openings

(* The handle, built and counted, is entered in the table, or is not.            *)
LEMMA RegistersSound ==
    ASSUME FIInv, InnerIs(Making), NEW fs, NEW a, NEW g, Sound(fs, Outer, a, g),
           NEW f \in FileSlots, fs[f].st = "opening", NobodyHolds(Outer, f),
           Registers(a, fs, f)
    PROVE  Sound(files', nest', account', g) /\ trouble' \in Trouble
<1>1. /\ Outer # <<>> /\ Last(Outer).k \in Scripts
      /\ Inner.p \in Paths /\ Inner.m \in Modes /\ Inner.found \in BOOLEAN
    BY MakingFacts
<1>2. CASE OpenGoesOn(a, fs, f, Inner.p, Inner.m, Inner.found)
    <2>1. PICK p \in Paths, m \in Modes, exists \in BOOLEAN :
            p = Inner.p /\ m = Inner.m /\ exists = Inner.found
        BY <1>1
    <2>2. OpenGoesOn(a, fs, f, p, m, exists)
        BY <1>2, <2>1
    <2> QED
        BY <1>1, <2>2, OpenGoesOnSound
<1>3. CASE files' = fs /\ account' = a /\ nest' = Outer /\ Raised
    BY <1>3, InvParts, TroubleTyped
<1> QED
    BY <1>2, <1>3 DEF Registers

LEMMA OpenCountsKeeps == ASSUME FIInv, OpenCounts PROVE FIInv'
<1>1. /\ InnerIs({"make"}) /\ InnerIs(Making) /\ Inner.k = "make" /\ disk' = disk
    BY DEF OpenCounts, InnerIs, Making
<1>2. /\ Sound(files, Outer, account, ghosts) /\ Outer # <<>> /\ Last(Outer).k \in Scripts
      /\ Inner.p \in Paths /\ Inner.m \in Modes /\ Inner \in FileFrame
      /\ account.open + 1 + FramesWith(Outer, Asking) <= MaxOpenHandles + MaxNesting
    BY <1>1, MakingFacts
<1>3. PICK f \in FileSlots :
        LET handle  == [Blank EXCEPT !.path = Inner.p, !.mode = Inner.m, !.st = "opening"]
            built   == [files EXCEPT ![f] = handle]
            counted == [account EXCEPT !.open = @ + 1]
        IN  /\ files[f].st = "closed"
            /\ ghosts' = [ghosts EXCEPT !.overlapped = @ \ {f}, !.dropped = @ \ {f},
                                        !.ousted = @ \ {f}]
            /\ \/ account.table /\ Registers(counted, built, f)
               \/ /\ ~account.table
                  /\ files' = built /\ account' = counted
                  /\ nest' = Append(Outer, [Inner EXCEPT !.k = "table", !.f = f])
                  /\ UNCHANGED trouble
    BY <1>1 DEF OpenCounts
<1> DEFINE handle  == [Blank EXCEPT !.path = Inner.p, !.mode = Inner.m, !.st = "opening"]
           built   == [files EXCEPT ![f] = handle]
           o       == account.open + 1
           counted == [account EXCEPT !.open = o]
           e       == [Inner EXCEPT !.k = "table", !.f = f]
<1>4. /\ files[f].st = "closed"
      /\ ghosts' = [ghosts EXCEPT !.overlapped = @ \ {f}, !.dropped = @ \ {f}, !.ousted = @ \ {f}]
      /\ \/ Registers(counted, built, f)
         \/ files' = built /\ account' = counted /\ nest' = Append(Outer, e) /\ UNCHANGED trouble
    BY <1>3
<1>5. /\ handle \in FileRecord /\ handle.st = "opening" /\ handle.path = Inner.p
      /\ handle.charged = 0 /\ ~handle.unsent /\ ~handle.dirty
    <2>1. /\ handle \in FileRecord /\ handle.st = "opening" /\ handle.path = Inner.p
          /\ handle.charged = Blank.charged /\ handle.unsent = Blank.unsent
          /\ handle.dirty = Blank.dirty
        BY <1>2, BlankTyped DEF FileRecord
    <2> QED
        BY <2>1, BlankTyped
<1>6. account \in FileAccount /\ account.open \in Nat /\ o \in Nat
    BY InvParts DEF FileAccount
<1> HIDE DEF handle, o
<1>7. counted \in FileAccount /\ counted.open = o /\ counted.buffered = account.buffered
    BY <1>6 DEF FileAccount
<1> HIDE DEF counted
<1>8. HandleFits(handle) /\ Minded(handle, ghosts', f)
    BY <1>2, <1>5 DEF HandleFits, Minded
<1>9. NobodyHolds(Outer, f)
    BY <1>2, <1>4, ClosedUnheld DEF Sound
<1>10. ghosts' \in FileGhosts /\ Continues(ghosts, ghosts', f)
    <2>1. ghosts \in FileGhosts /\ ghosts.dropped \subseteq ghosts.overlapped \cup ghosts.ousted
        BY InvParts DEF HandlesFit, Remembered
    <2> DEFINE O == ghosts.overlapped \ {f}
               D == ghosts.dropped \ {f}
               T == ghosts.ousted \ {f}
    <2>2. ghosts' = [ghosts EXCEPT !.overlapped = O, !.dropped = D, !.ousted = T]
        BY <1>4
    <2>3. O \in SUBSET FileSlots /\ D \in SUBSET FileSlots /\ T \in SUBSET FileSlots /\ D \subseteq O \cup T
        BY <2>1 DEF FileGhosts
    <2>4. /\ \A x \in FileSlots : x # f /\ x \in ghosts.overlapped => x \in O
          /\ \A x \in FileSlots : x # f /\ x \in ghosts.ousted => x \in T
        OBVIOUS
    <2> HIDE DEF O, D, T
    <2>5. /\ ghosts' \in FileGhosts /\ ghosts'.overlapped = O /\ ghosts'.dropped = D
          /\ ghosts'.ousted = T /\ ghosts'.stray = ghosts.stray
        BY <2>1, <2>2, <2>3 DEF FileGhosts
    <2> QED
        BY <2>3, <2>4, <2>5 DEF Continues
<1>11. HasRoom(Outer, counted)
    BY <1>2, <1>7 DEF HasRoom, o
<1>12. /\ counted.open = Recount(account.open, files[f].st, handle.st)
       /\ counted.buffered = account.buffered + handle.charged - files[f].charged
       /\ counted.buffered <= MaxTotalBytes
    <2>1. files[f].charged = 0
        BY <1>4, InvParts DEF HandleFits
    <2>2. account.buffered \in Int /\ account.buffered <= MaxTotalBytes
        BY InvParts DEF FileAccount, HandlesFit, Counted
    <2> QED
        BY <1>4, <1>5, <1>7, <2>1, <2>2 DEF o, Recount
<1>13. Sound(built, Outer, counted, ghosts')
    BY <1>2, <1>5, <1>7, <1>8, <1>9, <1>10, <1>11, <1>12, SoundEdit
<1>14. built[f] = handle
    BY InvParts
<1> HIDE DEF built
<1>15. CASE Registers(counted, built, f)
    <2>1. Sound(files', nest', account', ghosts') /\ trouble' \in Trouble
        <3>1. PICK g : g = ghosts'
            OBVIOUS
        <3>2. Sound(built, Outer, counted, g) /\ built[f].st = "opening"
            BY <1>5, <1>13, <1>14, <3>1
        <3>3. Sound(files', nest', account', g) /\ trouble' \in Trouble
            BY <1>1, <1>9, <1>15, <3>2, RegistersSound
        <3> QED
            BY <3>1, <3>3
    <2> QED
        BY <1>1, <2>1, InvParts, InvNext
<1>16. CASE files' = built /\ account' = counted /\ nest' = Append(Outer, e) /\ UNCHANGED trouble
    <2>1. e \in FileFrame /\ e.k = "table" /\ e.f = f /\ e.p = Inner.p
        <3>1. "table" \in CallKinds
            BY DEF CallKinds
        <3> QED
            BY <1>2, <3>1 DEF FileFrame
    <2> HIDE DEF e
    <2>2. Above(Last(Outer), e) /\ Counts(built, ghosts', e)
        BY <1>2, <1>5, <1>14, <2>1 DEF Above, Counts, Openings, Holds, Scripts, OfScript
    <2>3. Sound(built, Append(Outer, e), counted, ghosts')
        BY <1>2, <1>9, <1>13, <2>1, <2>2, SoundCall DEF Asking
    <2>4. Sound(files', nest', account', ghosts')
        BY <1>16, <2>3
    <2> QED
        BY <1>1, <1>16, <2>4, InvParts, InvNext
<1> QED
    BY <1>4, <1>15, <1>16

(* A table takes the place of another: whatever was listed is listed no more.     *)
LEMMA TableReplaced ==
    ASSUME NEW s, Sound(files, s, account, ghosts), s # <<>>,
           ghosts' = [ghosts EXCEPT !.ousted = @ \cup Listed]
    PROVE  Sound([f \in FileSlots |-> [files[f] EXCEPT !.listed = FALSE]], s,
                 [account EXCEPT !.table = TRUE], ghosts')
<1> DEFINE fs == [f \in FileSlots |-> [files[f] EXCEPT !.listed = FALSE]]
           a  == [account EXCEPT !.table = TRUE]
           T  == ghosts.ousted \cup Listed
<1>1. /\ StackFits(s) /\ Holding(files, ghosts, s) /\ HasRoom(s, account)
      /\ HandlesFit(files, account, ghosts) /\ files \in [FileSlots -> FileRecord]
      /\ account \in FileAccount /\ ghosts \in FileGhosts
    BY DEF Sound, HandlesFit
<1>2. \A f \in FileSlots :
        /\ fs[f] \in FileRecord /\ fs[f].st = files[f].st /\ fs[f].path = files[f].path
        /\ fs[f].dirty = files[f].dirty /\ fs[f].unsent = files[f].unsent
        /\ fs[f].charged = files[f].charged /\ fs[f].listed = FALSE
    BY <1>1 DEF FileRecord
<1>3. fs \in [FileSlots -> FileRecord]
    BY <1>2
<1>4. a \in FileAccount /\ a.open = account.open /\ a.buffered = account.buffered
    BY <1>1 DEF FileAccount
<1>5. /\ ghosts' \in FileGhosts /\ ghosts'.overlapped = ghosts.overlapped
      /\ ghosts'.dropped = ghosts.dropped /\ ghosts'.ousted = T /\ ghosts'.stray = ghosts.stray
    <2>1. T \in SUBSET FileSlots
        BY <1>1 DEF FileGhosts, Listed, OpenFiles
    <2> QED
        BY <1>1, <2>1 DEF FileGhosts
<1>6. \A f \in FileSlots : files[f].st # "closed" /\ Known(files, ghosts, f) => f \in T
    BY DEF Known, Listed, OpenFiles
<1>7. ghosts.ousted \subseteq T
    OBVIOUS
<1>8. Charges(fs) = Charges(files) /\ Opened(fs) = Opened(files)
    BY <1>2 DEF Charges, Opened
<1> HIDE DEF fs, a, T
<1>9. \A f \in FileSlots : HandleFits(fs[f])
    BY <1>1, <1>2 DEF HandlesFit, HandleFits
<1>10. Remembered(fs, ghosts')
    BY <1>1, <1>2, <1>5, <1>6, <1>7 DEF HandlesFit, Remembered, Known
<1>11. Counted(fs, a, ghosts')
    BY <1>1, <1>4, <1>5, <1>8 DEF HandlesFit, Counted
<1>12. HandlesFit(fs, a, ghosts')
    BY <1>3, <1>4, <1>5, <1>9, <1>10, <1>11 DEF HandlesFit
<1>13. Holding(fs, ghosts', s)
    <2> SUFFICES ASSUME NEW n \in 1 .. Len(s) PROVE Counts(fs, ghosts', s[n])
        BY DEF Holding
    <2>1. Counts(files, ghosts, s[n])
        BY <1>1 DEF Holding
    <2>2. CASE s[n].k \in Holds
        <3>1. s[n].f \in FileSlots
            BY <1>1, <2>2 DEF StackFits, Stacked, Holds, AboutFile
        <3> QED
            BY <1>2, <1>5, <1>6, <2>1, <2>2, <3>1 DEF Counts, Known, Openings, Holds
    <2>3. CASE s[n].k \notin Holds
        BY <2>3 DEF Counts, Openings, Holds
    <2> QED
        BY <2>2, <2>3
<1>14. HasRoom(s, a)
    BY <1>1, <1>4 DEF HasRoom
<1>15. Sound(fs, s, a, ghosts')
    BY <1>1, <1>12, <1>13, <1>14 DEF Sound
<1> QED
    BY <1>15 DEF fs, a

LEMMA OpenListsKeeps == ASSUME FIInv, OpenLists PROVE FIInv'
<1>1. InnerIs(Making) /\ Inner.k = "table" /\ disk' = disk
    BY DEF OpenLists, InnerIs, Making
<1>2. /\ Sound(files, Outer, account, ghosts) /\ Outer # <<>>
      /\ Inner.f \in FileSlots /\ NobodyHolds(Outer, Inner.f) /\ files[Inner.f].st = "opening"
    BY <1>1, MakingFacts
<1>3. PICK f \in FileSlots : f = Inner.f
    BY <1>2
<1> DEFINE fs == [x \in FileSlots |-> [files[x] EXCEPT !.listed = FALSE]]
           a  == [account EXCEPT !.table = TRUE]
<1>4. Registers(a, fs, f) /\ ghosts' = [ghosts EXCEPT !.ousted = @ \cup Listed]
    BY <1>3 DEF OpenLists
<1>5. PICK g : g = ghosts'
    OBVIOUS
<1>6. Sound(fs, Outer, a, g)
    BY <1>2, <1>4, <1>5, TableReplaced
<1>7. fs[f].st = "opening" /\ NobodyHolds(Outer, f)
    BY <1>2, <1>3, InvParts DEF FileRecord
<1> HIDE DEF fs, a
<1>8. Sound(files', nest', account', g) /\ trouble' \in Trouble
    BY <1>1, <1>4, <1>6, <1>7, RegistersSound
<1> QED
    BY <1>1, <1>5, <1>8, InvParts, InvNext

LEMMA OpenStarvesKeeps == ASSUME FIInv, OpenStarves PROVE FIInv'
<1>1. Sound(files, Outer, account, ghosts)
    BY MakingFacts DEF OpenStarves
<1>2. trouble' \in Trouble
    BY InvParts, TroubleTyped DEF OpenStarves
<1> QED
    BY <1>1, <1>2, InvParts, InvNext DEF OpenStarves

(* The size is known, or the contents are gone: the handle is open.               *)
LEMMA OpenSizedKeeps == ASSUME FIInv, OpenSized PROVE FIInv'
<1>1. Backend /\ Inner.k \in {"truncate", "size"}
    BY DEF OpenSized, Answered
<1> DEFINE f == Inner.f
<1>2. /\ f \in FileSlots /\ NobodyHolds(Outer, f) /\ files[f].st = "opening"
      /\ Known(files, ghosts, f)
      /\ Sound(files, Outer, account, ghosts) /\ Outer # <<>>
    BY <1>1, BackendIsACall, CallFacts DEF AboutFile, Releases, Counts, Openings, Holds
<1> DEFINE h == [files[f] EXCEPT !.st = "open"]
<1>3. files' = [files EXCEPT ![f] = h]
    BY <1>2, InvParts DEF OpenSized
<1> HIDE DEF f
<1>4. files[f] \in FileRecord /\ HandleFits(files[f])
    BY <1>2, InvParts
<1>5. /\ h \in FileRecord /\ h.st = "open" /\ h.path = files[f].path /\ h.dirty = files[f].dirty
      /\ h.unsent = files[f].unsent /\ h.charged = files[f].charged /\ h.listed = files[f].listed
    BY <1>4 DEF FileRecord
<1> HIDE DEF h
<1>6. HandleFits(h)
    BY <1>2, <1>4, <1>5 DEF HandleFits
<1>7. /\ account \in FileAccount /\ ghosts \in FileGhosts /\ HasRoom(Outer, account)
      /\ HandlesFit(files, account, ghosts) /\ account.buffered <= MaxTotalBytes
    BY <1>2 DEF Sound, HandlesFit, Counted
<1>8. Minded(h, ghosts, f) /\ Continues(ghosts, ghosts, f)
    BY <1>2, <1>5, <1>7, SameHistory DEF HandlesFit, Remembered, Minded, Known
<1>9. /\ account.open = Recount(account.open, files[f].st, h.st)
      /\ account.buffered = account.buffered + h.charged - files[f].charged
    BY <1>2, <1>4, <1>5, <1>7 DEF FileAccount, FileRecord, Recount
<1>10. Sound([files EXCEPT ![f] = h], Outer, account, ghosts)
    BY <1>2, <1>5, <1>6, <1>7, <1>8, <1>9, SoundEdit
<1>11. nest' = Outer /\ trouble' \in Trouble
    BY <1>1, ResumesTyped DEF OpenSized
<1>12. account' = account /\ ghosts' = ghosts /\ disk' = disk
    BY DEF OpenSized
<1>13. Sound(files', nest', account', ghosts')
    BY <1>3, <1>10, <1>11, <1>12
<1> QED
    BY <1>11, <1>12, <1>13, InvParts, InvNext

(* luaext_vfs_charge_buffer_public granted: the handle and the ledger move alike. *)
LEMMA BilledSound ==
    ASSUME NEW s, Sound(files, s, account, ghosts), s # <<>>,
           NEW f \in FileSlots, files[f].st # "closed",
           NEW h \in FileRecord, h.st # "closed", HandleFits(h), h.charged = files[f].charged,
           NEW w \in FileGhosts, Continues(ghosts, w, f), Minded(h, w, f),
           \/ NobodyHolds(s, f)
           \/ h.st = files[f].st /\ (Known(files, ghosts, f) => h.listed \/ f \in w.ousted),
           NEW more \in Nat, Fits(more), Billed(f, more, h)
    PROVE  Sound(files', s, account', w)
<1>1. /\ files \in [FileSlots -> FileRecord] /\ account \in FileAccount /\ HasRoom(s, account)
    BY DEF Sound, HandlesFit
<1> DEFINE c == h.charged + more
           u == account.buffered + more
           k == [h EXCEPT !.charged = c]
<1>2. files' = [files EXCEPT ![f] = k] /\ account' = [account EXCEPT !.buffered = u]
    BY DEF Billed
<1>3. h.charged \in Nat /\ account.buffered \in Int /\ account.open \in Int
    BY <1>1 DEF FileRecord, FileAccount
<1>4. c \in Nat /\ u \in Int /\ u <= MaxTotalBytes
    BY <1>3 DEF Fits
<1>5. u = account.buffered + c - files[f].charged
    BY <1>3
<1> HIDE DEF c, u
<1>6. /\ k \in FileRecord /\ k.st = h.st /\ k.path = h.path /\ k.dirty = h.dirty
      /\ k.unsent = h.unsent /\ k.charged = c /\ k.listed = h.listed
    BY <1>4 DEF FileRecord
<1>7. account' \in FileAccount /\ account'.open = account.open /\ account'.buffered = u
    BY <1>1, <1>2, <1>4 DEF FileAccount
<1> HIDE DEF k
<1>8. HandleFits(k)
    BY <1>6 DEF HandleFits
<1>9. HasRoom(s, account')
    BY <1>1, <1>7 DEF HasRoom
<1>10. /\ account'.open = Recount(account.open, files[f].st, k.st)
       /\ account'.buffered = account.buffered + k.charged - files[f].charged
       /\ account'.buffered <= MaxTotalBytes
    BY <1>3, <1>4, <1>5, <1>6, <1>7 DEF Recount
<1>11. /\ \/ NobodyHolds(s, f)
          \/ k.st = files[f].st /\ (Known(files, ghosts, f) => k.listed \/ f \in w.ousted)
       /\ Minded(k, w, f)
    BY <1>6 DEF Minded
<1>12. Sound([files EXCEPT ![f] = k], s, account', w)
    BY <1>6, <1>7, <1>8, <1>9, <1>10, <1>11, SoundEdit
<1> QED
    BY <1>2, <1>12

(* An edit that neither opens, closes nor bills.                                 *)
LEMMA TouchedSound ==
    ASSUME NEW s, Sound(files, s, account, ghosts), s # <<>>,
           NEW f \in FileSlots, NEW h \in FileRecord, HandleFits(h),
           h.st = files[f].st, h.charged = files[f].charged, h.listed = files[f].listed,
           h.unsent => h.dirty \/ f \in ghosts.overlapped
    PROVE  Sound([files EXCEPT ![f] = h], s, account, ghosts)
<1>1. /\ account \in FileAccount /\ HasRoom(s, account) /\ ghosts \in FileGhosts
      /\ HandlesFit(files, account, ghosts) /\ account.buffered <= MaxTotalBytes
    BY DEF Sound, HandlesFit, Counted
<1>2. h.charged \in Int /\ account.open \in Int /\ account.buffered \in Int
    BY <1>1 DEF FileRecord, FileAccount
<1>3. /\ account.open = Recount(account.open, files[f].st, h.st)
      /\ account.buffered = account.buffered + h.charged - files[f].charged
    BY <1>2 DEF Recount
<1>4. Minded(h, ghosts, f) /\ Continues(ghosts, ghosts, f)
    BY <1>1, SameHistory DEF HandlesFit, Remembered, Minded, Known
<1>5. Known(files, ghosts, f) => h.listed \/ f \in ghosts.ousted
    BY DEF Known
<1> QED
    BY <1>1, <1>3, <1>4, <1>5, SoundEdit

LEMMA OpenLoadsKeeps == ASSUME FIInv, OpenLoads PROVE FIInv'
<1>1. Backend /\ Inner.k = "load"
    BY DEF OpenLoads, Answered
<1> DEFINE f == Inner.f
<1>2. /\ f \in FileSlots /\ NobodyHolds(Outer, f) /\ files[f].st = "opening"
      /\ Known(files, ghosts, f)
      /\ Sound(files, Outer, account, ghosts) /\ Outer # <<>>
    BY <1>1, BackendIsACall, CallFacts DEF AboutFile, Releases, Counts, Openings, Holds
<1>3. PICK n \in 0 .. MaxFileBytes :
        LET filled == [files[f] EXCEPT !.len = n]
        IN  \/ /\ Fits(n)
               /\ Billed(f, n, [filled EXCEPT !.st = "open"])
               /\ Resumes
            \/ /\ n > 0
               /\ files' = [files EXCEPT ![f] = filled]
               /\ nest' = Outer /\ Raised
               /\ UNCHANGED account
    BY DEF OpenLoads
<1>4. disk' = disk /\ ghosts' = ghosts
    BY DEF OpenLoads
<1> HIDE DEF f
<1> DEFINE filled == [files[f] EXCEPT !.len = n]
           h == [filled EXCEPT !.st = "open"]
<1>5. \/ Fits(n) /\ Billed(f, n, h) /\ Resumes
      \/ files' = [files EXCEPT ![f] = filled] /\ nest' = Outer /\ Raised /\ UNCHANGED account
    BY <1>3
<1>6. files[f] \in FileRecord /\ HandleFits(files[f]) /\ n \in Nat
    BY <1>2, <1>3, InvParts, FilesAssumption
<1>7. /\ filled \in FileRecord /\ filled.st = files[f].st /\ filled.path = files[f].path
      /\ filled.dirty = files[f].dirty /\ filled.unsent = files[f].unsent
      /\ filled.charged = files[f].charged /\ filled.listed = files[f].listed
    BY <1>6 DEF FileRecord
<1> HIDE DEF filled
<1>8. /\ h \in FileRecord /\ h.st = "open" /\ h.path = files[f].path
      /\ h.dirty = files[f].dirty /\ h.unsent = files[f].unsent
      /\ h.charged = files[f].charged /\ h.listed = files[f].listed
    BY <1>7 DEF FileRecord
<1> HIDE DEF h
<1>9. HandleFits(h) /\ HandleFits(filled)
    BY <1>2, <1>6, <1>7, <1>8 DEF HandleFits
<1>10. /\ ghosts \in FileGhosts /\ Minded(h, ghosts, f) /\ Continues(ghosts, ghosts, f)
       /\ filled.unsent => filled.dirty \/ f \in ghosts.overlapped
    <2>1. Remembered(files, ghosts) /\ ghosts \in FileGhosts /\ HandlesFit(files, account, ghosts)
        BY <1>2 DEF Sound, HandlesFit
    <2> QED
        BY <1>2, <1>7, <1>8, <2>1, SameHistory DEF Remembered, Minded, Known
<1>11. CASE Fits(n) /\ Billed(f, n, h) /\ Resumes
    <2>1. Sound(files', Outer, account', ghosts)
        BY <1>2, <1>6, <1>8, <1>9, <1>10, <1>11, BilledSound
    <2>2. nest' = Outer /\ trouble' \in Trouble
        BY <1>1, <1>11, ResumesTyped
    <2> QED
        BY <1>4, <2>1, <2>2, InvParts, InvNext
<1>12. CASE files' = [files EXCEPT ![f] = filled] /\ nest' = Outer /\ Raised /\ UNCHANGED account
    <2>1. Sound([files EXCEPT ![f] = filled], Outer, account, ghosts)
        BY <1>2, <1>7, <1>9, <1>10, TouchedSound
    <2>2. trouble' \in Trouble
        BY <1>12, InvParts, TroubleTyped
    <2>3. Sound(files', nest', account', ghosts')
        BY <1>4, <1>12, <2>1
    <2> QED
        BY <1>4, <2>2, <2>3, InvParts, InvNext
<1> QED
    BY <1>5, <1>11, <1>12

--------------------------------------------------------------------------------
(* The other operations of io and os.                                            *)

LEMMA WriteKeeps == ASSUME FIInv, NEW f \in FileSlots, Write(f) PROVE FIInv'
<1>1. PICK end \in 1 .. MaxFileBytes :
        LET more == IF end > files[f].len THEN end - files[f].len ELSE 0
        IN  \/ /\ Fits(more)
               /\ Billed(f, more, [files[f] EXCEPT !.len = @ + more, !.dirty = TRUE,
                                                   !.unsent = TRUE])
               /\ ghosts' = IF Flushing(f) THEN [ghosts EXCEPT !.overlapped = @ \cup {f}]
                            ELSE ghosts
               /\ UNCHANGED trouble
            \/ more > 0 /\ Raised /\ UNCHANGED <<files, account, ghosts>>
    BY DEF Write
<1>2. nest' = nest /\ disk' = disk /\ InLua /\ files[f].st = "open"
    BY DEF Write, Script
<1> DEFINE more == IF end > files[f].len THEN end - files[f].len ELSE 0
           len  == files[f].len + more
           h    == [files[f] EXCEPT !.len = len, !.dirty = TRUE, !.unsent = TRUE]
<1>3. CASE Raised /\ UNCHANGED <<files, account, ghosts>>
    <2>1. trouble' \in Trouble
        BY <1>3, InvParts, TroubleTyped
    <2> QED
        BY <1>2, <1>3, <2>1, InvParts, InvNext
<1>4. CASE /\ Fits(more) /\ Billed(f, more, h) /\ UNCHANGED trouble
           /\ ghosts' = IF Flushing(f) THEN [ghosts EXCEPT !.overlapped = @ \cup {f}] ELSE ghosts
    <2>1. files[f] \in FileRecord /\ HandleFits(files[f]) /\ MaxFileBytes \in Nat
        BY InvParts, FilesAssumption
    <2>2. more \in Nat /\ len \in 0 .. MaxFileBytes
        BY <2>1 DEF FileRecord
    <2>3. Fits(more) /\ Billed(f, more, h)
        BY <1>4
    <2> HIDE DEF more, len
    <2>4. /\ h \in FileRecord /\ h.st = "open" /\ h.path = files[f].path /\ h.dirty = TRUE
          /\ h.charged = files[f].charged /\ h.listed = files[f].listed
        BY <1>2, <2>1, <2>2 DEF FileRecord
    <2> HIDE DEF h
    <2>5. HandleFits(h)
        BY <1>2, <2>1, <2>4 DEF HandleFits
    <2>6. /\ ghosts' \in FileGhosts /\ Continues(ghosts, ghosts', f)
          /\ ghosts.ousted \subseteq ghosts'.ousted
        <3>1. /\ ghosts \in FileGhosts /\ Continues(ghosts, ghosts, f)
              /\ ghosts.dropped \subseteq ghosts.overlapped \cup ghosts.ousted
            BY InvParts, SameHistory DEF HandlesFit, Remembered
        <3>2. CASE ghosts' = ghosts
            BY <3>1, <3>2
        <3>3. CASE ghosts' = [ghosts EXCEPT !.overlapped = @ \cup {f}]
            <4> DEFINE O == ghosts.overlapped \cup {f}
            <4>1. ghosts' = [ghosts EXCEPT !.overlapped = O] /\ O \in SUBSET FileSlots
                BY <3>1, <3>3 DEF FileGhosts
            <4>2. ghosts.overlapped \subseteq O
                OBVIOUS
            <4> HIDE DEF O
            <4>3. /\ ghosts' \in FileGhosts /\ ghosts'.overlapped = O
                  /\ ghosts'.dropped = ghosts.dropped /\ ghosts'.ousted = ghosts.ousted
                  /\ ghosts'.stray = ghosts.stray
                BY <3>1, <4>1 DEF FileGhosts
            <4> QED
                BY <3>1, <4>2, <4>3 DEF Continues
        <3> QED
            BY <1>4, <3>2, <3>3
    <2>7. Sound(files, nest, account, ghosts) /\ nest # <<>>
        BY <1>2, InvParts DEF InLua, InnerIs
    <2>8. /\ Minded(h, ghosts', f)
          /\ Known(files, ghosts, f) => h.listed \/ f \in ghosts'.ousted
        <3>1. Known(files, ghosts, f)
            BY <1>2, InvParts DEF HandlesFit, Remembered
        <3> QED
            BY <2>4, <2>6, <3>1 DEF Minded, Known
    <2>9. Sound(files', nest, account', ghosts')
        BY <1>2, <2>2, <2>3, <2>4, <2>5, <2>6, <2>7, <2>8, BilledSound
    <2>10. trouble' \in Trouble
        BY <1>4, InvParts
    <2> QED
        BY <1>2, <2>9, <2>10, InvParts, InvNext
<1> QED
    BY <1>1, <1>3, <1>4

(* What a script asks about a handle it has, or about no handle.                 *)
Uses == {"close", "flush", "look", "writerange", "delete", "rename"}

LEMMA ScriptCharges ==
    ASSUME FIInv, InLua, NEW k \in Uses,
           NEW f \in FileSlots \cup {NoFile}, NEW p \in Paths, NEW m \in Modes,
           k \in AboutFile => f \in FileSlots /\ files[f].st = "open",
           k \in Releases => NobodyHolds(nest, f),
           Charge(account, nest, Request(k, f, p, m))
    PROVE  Sound(files, nest', account', ghosts) /\ trouble' \in Trouble
<1> DEFINE e == Request(k, f, p, m)
<1>1. k \in CallKinds /\ k \in OfScript /\ trouble \in Trouble
    BY InvParts DEF CallKinds, OfScript, Uses
<1>2. e \in FileFrame /\ e.k = k /\ e.f = f /\ e.p = p
    BY <1>1, RequestTyped
<1>3. Charge(account, nest, e)
    OBVIOUS
<1> HIDE DEF e
<1>4. nest # <<>> /\ Last(nest).k \in Scripts
    BY ScriptFacts
<1>5. Above(Last(nest), e) /\ e.k \notin Scripts /\ e.k \notin Asking
    BY <1>2, <1>4 DEF Above, Uses, Asking, Scripts
<1>6. Counts(files, ghosts, e)
    <2>1. k \in Holds => /\ k \notin Openings /\ f \in FileSlots /\ files[f].st = "open"
                         /\ Known(files, ghosts, f)
        BY InvParts DEF HandlesFit, Remembered, Openings, Holds, AboutFile, Uses
    <2> QED
        BY <1>2, <2>1 DEF Counts, Openings, Holds
<1>7. (e.k \in AboutFile => e.f \in FileSlots) /\ (e.k \in Releases => NobodyHolds(nest, e.f))
    BY <1>2
<1>8. Sound(files, nest, account, ghosts)
    BY InvParts
<1> QED
    BY <1>1, <1>2, <1>3, <1>4, <1>5, <1>6, <1>7, <1>8, ChargeSound

LEMMA OpenHandle ==
    ASSUME FIInv, NEW f \in FileSlots, files[f].st # "closed"
    PROVE  files[f].path \in Paths /\ files[f].mode \in Modes
BY InvParts DEF HandleFits, FileRecord

LEMMA RangeIOKeeps == ASSUME FIInv, NEW f \in FileSlots, RangeIO(f) PROVE FIInv'
<1>1. PICK k \in {"look", "writerange"} :
        Charge(account, nest, Request(k, f, files[f].path, files[f].mode))
    BY DEF RangeIO
<1>2. InLua /\ files[f].st = "open" /\ UNCHANGED <<files, disk, ghosts>>
    BY DEF RangeIO, Script
<1>3. /\ k \in Uses /\ k \notin Releases
      /\ f \in FileSlots \cup {NoFile}
    BY DEF Uses, Releases
<1>4. files[f].path \in Paths /\ files[f].mode \in Modes
    BY <1>2, OpenHandle
<1>5. Sound(files, nest', account', ghosts) /\ trouble' \in Trouble
    BY <1>1, <1>2, <1>3, <1>4, ScriptCharges
<1> QED
    BY <1>2, <1>5, InvParts, InvNext

LEMMA FlushKeeps == ASSUME FIInv, NEW f \in FileSlots, Flush(f) PROVE FIInv'
<1>1. Charge(account, nest, Request("flush", f, files[f].path, files[f].mode))
    BY DEF Flush
<1>2. InLua /\ files[f].st = "open" /\ UNCHANGED <<files, disk, ghosts>>
    BY DEF Flush, Script
<1>3. /\ "flush" \in Uses
      /\ "flush" \notin Releases /\ f \in FileSlots \cup {NoFile}
    BY DEF Uses, Releases
<1>4. files[f].path \in Paths /\ files[f].mode \in Modes
    BY <1>2, OpenHandle
<1>5. Sound(files, nest', account', ghosts) /\ trouble' \in Trouble
    BY <1>1, <1>2, <1>3, <1>4, ScriptCharges
<1> QED
    BY <1>2, <1>5, InvParts, InvNext

LEMMA UnflushedUnheld ==
    ASSUME FIInv, NEW f \in FileSlots, files[f].st = "open", ~Flushing(f)
    PROVE  NobodyHolds(nest, f)
<1> SUFFICES ASSUME NEW n \in 1 .. Len(nest), nest[n].k \in Holds, nest[n].f = f PROVE FALSE
    BY DEF NobodyHolds
<1>1. n \in DOMAIN nest
    BY InvParts
<1>2. nest[n].k \notin {"flush", "close", "sweepclose"}
    BY <1>1 DEF Flushing, Crossing
<1>3. nest[n].k \in Openings
    BY <1>2 DEF Holds, Openings
<1>4. Counts(files, ghosts, nest[n])
    BY InvParts DEF Sound, Holding
<1> QED
    BY <1>3, <1>4 DEF Counts

LEMMA CloseFileKeeps == ASSUME FIInv, NEW f \in FileSlots, CloseFile(f) PROVE FIInv'
<1>1. InLua /\ files[f].st = "open" /\ disk' = disk
    BY DEF CloseFile, Script, Unwinding
<1>2. NobodyHolds(nest, f)
    BY <1>1, UnflushedUnheld DEF CloseFile
<1>3. CASE /\ Charge(account, nest, Request("close", f, files[f].path, files[f].mode))
           /\ UNCHANGED <<files, ghosts>>
    <2>1. /\ "close" \in Uses
          /\ f \in FileSlots \cup {NoFile}
        BY DEF Uses
    <2>2. files[f].path \in Paths /\ files[f].mode \in Modes
        BY <1>1, OpenHandle
    <2>3. Charge(account, nest, Request("close", f, files[f].path, files[f].mode))
        BY <1>3
    <2>4. Sound(files, nest', account', ghosts) /\ trouble' \in Trouble
        BY <1>1, <1>2, <2>1, <2>2, <2>3, ScriptCharges
    <2> QED
        BY <1>1, <1>3, <2>4, InvParts, InvNext
<1>4. CASE ~files[f].dirty /\ Release(f, account, FALSE) /\ UNCHANGED <<nest, trouble>>
    <2>1. Sound(files, nest, account, ghosts) /\ nest # <<>>
        BY <1>1, InvParts DEF InLua, InnerIs
    <2>2. files[f].unsent => f \in ghosts.overlapped
        BY <1>4, InvParts DEF HandlesFit, Remembered
    <2>3. Sound(files', nest, account', ghosts')
        BY <1>1, <1>2, <1>4, <2>1, <2>2, ReleaseSound
    <2> QED
        BY <1>1, <1>4, <2>3, InvParts, InvNext
<1> QED
    BY <1>3, <1>4 DEF CloseFile

LEMMA CloseInFlightKeeps == ASSUME FIInv, NEW f \in FileSlots, CloseInFlight(f) PROVE FIInv'
<1>1. InLua /\ files[f].st = "open" /\ UNCHANGED <<nest, disk, trouble>> /\ Release(f, account, TRUE)
    BY DEF CloseInFlight
<1>2. NobodyHolds(nest, f)
    BY <1>1, UnflushedUnheld DEF CloseInFlight
<1>3. Sound(files, nest, account, ghosts) /\ nest # <<>>
    BY <1>1, InvParts DEF InLua, InnerIs
<1>4. Sound(files', nest, account', ghosts')
    BY <1>1, <1>2, <1>3, ReleaseSound
<1> QED
    BY <1>1, <1>4, InvParts, InvNext

(* __gc of a handle no table holds: what it held was lost with the table.        *)
LEMMA CollectHandleKeeps == ASSUME FIInv, NEW f \in FileSlots, CollectHandle(f) PROVE FIInv'
<1>1. /\ files[f].st # "closed" /\ ~files[f].listed
      /\ UNCHANGED <<nest, disk, trouble>> /\ Release(f, account, FALSE)
    BY DEF CollectHandle, OpenFiles, Listed
<1>2. nest # <<>>
    BY DEF CollectHandle, Script, InLua, InnerIs
<1>3. NobodyHolds(nest, f)
    BY InvParts DEF CollectHandle, NobodyHolds
<1>4. files[f].unsent => f \in ghosts.overlapped \cup ghosts.ousted
    BY <1>1, InvParts DEF HandleFits, HandlesFit, Remembered, Known
<1>5. Sound(files', nest, account', ghosts')
    BY <1>1, <1>2, <1>3, <1>4, InvParts, ReleaseSound
<1> QED
    BY <1>1, <1>5, InvParts, InvNext

LEMMA AsksOsKeeps == ASSUME FIInv, AsksOs PROVE FIInv'
<1>1. PICK p \in Paths, k \in {"delete", "rename"} :
        Charge(account, nest, Request(k, NoFile, p, "r"))
    BY DEF AsksOs
<1>2. InLua /\ UNCHANGED <<files, disk, ghosts>>
    BY DEF AsksOs, Script
<1>3. /\ k \in Uses
      /\ k \notin Releases /\ k \notin AboutFile
      /\ NoFile \in FileSlots \cup {NoFile} /\ "r" \in Modes
    BY DEF Uses, Releases, AboutFile, Modes
<1>4. Sound(files, nest', account', ghosts) /\ trouble' \in Trouble
    BY <1>1, <1>2, <1>3, ScriptCharges
<1> QED
    BY <1>2, <1>4, InvParts, InvNext

--------------------------------------------------------------------------------
(* The backend answers.                                                          *)

LEMMA FlushHearsKeeps == ASSUME FIInv, FlushHears PROVE FIInv'
<1>1. Backend /\ Inner.k = "flush"
    BY DEF FlushHears, Answered
<1> DEFINE f == Inner.f
           h == Written(f)
<1>2. /\ f \in FileSlots /\ files[f].st = "open" /\ Inner.p \in Paths
      /\ Sound(files, Outer, account, ghosts) /\ Outer # <<>>
    BY <1>1, BackendIsACall, CallFacts DEF AboutFile, Counts, Openings, Holds
<1>3. files' = [files EXCEPT ![f] = h] /\ UNCHANGED <<account, ghosts>> /\ disk' = disk \cup {Inner.p}
    BY DEF FlushHears
<1> HIDE DEF f
<1>4. files[f] \in FileRecord /\ HandleFits(files[f])
    BY <1>2, InvParts
<1>5. (f \in ghosts.overlapped) \in BOOLEAN
    OBVIOUS
<1>6. /\ h \in FileRecord /\ h.st = files[f].st /\ h.path = files[f].path /\ h.dirty = FALSE
      /\ h.charged = files[f].charged /\ h.unsent = (f \in ghosts.overlapped)
      /\ h.listed = files[f].listed
    BY <1>4, <1>5 DEF FileRecord, Written
<1> HIDE DEF h
<1>7. HandleFits(h)
    BY <1>2, <1>4, <1>6 DEF HandleFits
<1>8. Sound([files EXCEPT ![f] = h], Outer, account, ghosts)
    BY <1>2, <1>6, <1>7, TouchedSound
<1>9. nest' = Outer /\ trouble' \in Trouble
    BY <1>1, ResumesTyped DEF FlushHears
<1>10. Sound(files', nest', account', ghosts')
    BY <1>3, <1>8, <1>9
<1>11. disk' \subseteq Paths
    BY <1>2, <1>3, InvParts
<1> QED
    BY <1>9, <1>10, <1>11, InvNext

(* The handle a call into the backend was about goes with it.                    *)
LEMMA GivenUpSound ==
    ASSUME FIInv, Backend, GivenUp
    PROVE  Sound(files', Outer, account', ghosts')
<1>1. Sound(files, Outer, account, ghosts) /\ Outer # <<>>
    BY BackendIsACall, CallFacts
<1>2. CASE Inner.k \in Releases
    <2>1. /\ Inner.f \in FileSlots /\ NobodyHolds(Outer, Inner.f)
          /\ files[Inner.f].st # "closed"
        BY <1>2, BackendIsACall, CallFacts DEF AboutFile, Releases, Holds, Openings, Counts
    <2>2. Release(Inner.f, account, TRUE)
        BY <1>2, BackendIsACall DEF GivenUp, Releases, Making
    <2>3. PICK f : f = Inner.f
        OBVIOUS
    <2>4. /\ f \in FileSlots /\ NobodyHolds(Outer, f) /\ files[f].st # "closed"
          /\ Release(f, account, TRUE)
        BY <2>1, <2>2, <2>3
    <2> QED
        BY <1>1, <2>4, ReleaseSound
<1>3. CASE Inner.k \notin Releases
    <2>1. UNCHANGED <<files, account, ghosts>>
        BY <1>3 DEF GivenUp, Releases
    <2> QED
        BY <1>1, <2>1
<1> QED
    BY <1>2, <1>3

LEMMA CloseHearsKeeps == ASSUME FIInv, CloseHears PROVE FIInv'
<1>1. Backend /\ Inner.k \in {"close", "sweepclose"} /\ Release(Inner.f, account, TRUE)
    BY DEF CloseHears, Answered
<1>2. GivenUp
    BY <1>1 DEF GivenUp
<1>3. Sound(files', Outer, account', ghosts')
    BY <1>1, <1>2, GivenUpSound
<1>4. nest' = Outer /\ trouble' \in Trouble
    BY <1>1, ResumesTyped DEF CloseHears
<1>5. disk' \subseteq Paths
    BY <1>1, BackendIsACall, CallFacts, InvParts DEF CloseHears
<1>6. Sound(files', nest', account', ghosts')
    BY <1>3, <1>4
<1> QED
    BY <1>4, <1>5, <1>6, InvNext

LEMMA RangeHearsKeeps == ASSUME FIInv, RangeHears PROVE FIInv'
<1>1. Backend
    BY DEF RangeHears, Answered
<1>2. nest' = Outer /\ trouble' \in Trouble
    BY <1>1, ResumesTyped DEF RangeHears
<1>3. disk' \subseteq Paths
    BY <1>1, BackendIsACall, CallFacts, InvParts DEF RangeHears
<1>4. Sound(files', nest', account', ghosts')
    BY <1>1, <1>2, BackendIsACall, CallFacts DEF RangeHears
<1> QED
    BY <1>2, <1>3, <1>4, InvNext

LEMMA OsHearsKeeps == ASSUME FIInv, OsHears PROVE FIInv'
<1>1. Backend /\ UNCHANGED <<files, ghosts>>
    BY DEF OsHears, Answered
<1>2. nest' = Outer /\ trouble' \in Trouble
    BY <1>1, ResumesTyped DEF OsHears
<1>3. Sound(files, Outer, account, ghosts)
    BY <1>1, BackendIsACall, CallFacts
<1>4. disk' \subseteq Paths
    BY InvParts DEF OsHears
<1>5. Sound(files, Outer, account', ghosts)
    <2>1. CASE account' = account
        BY <1>3, <2>1
    <2>2. CASE account.known /\ account.count > 0 /\ account' = [account EXCEPT !.count = @ - 1]
        <3> DEFINE c == account.count - 1
        <3>1. account' = [account EXCEPT !.count = c] /\ account \in FileAccount
            BY <2>2, InvParts
        <3>2. c \in 0 .. MaxFiles + 1
            BY <2>2, <3>1, FilesAssumption DEF FileAccount
        <3> HIDE DEF c
        <3>3. /\ account' \in FileAccount /\ account'.open = account.open
              /\ account'.buffered = account.buffered
            BY <3>1, <3>2 DEF FileAccount
        <3> QED
            BY <1>3, <3>3, SoundAccount
    <2> QED
        BY <2>1, <2>2 DEF OsHears
<1>6. Sound(files', nest', account', ghosts')
    BY <1>1, <1>2, <1>5
<1> QED
    BY <1>2, <1>4, <1>6, InvNext

LEMMA BackendRefusesKeeps == ASSUME FIInv, BackendRefuses PROVE FIInv'
<1>1. Backend /\ GivenUp /\ disk' = disk
    BY DEF BackendRefuses
<1>2. nest' = Outer /\ trouble' \in Trouble
    BY <1>1, ResumesTyped DEF BackendRefuses
<1>3. Sound(files', nest', account', ghosts')
    BY <1>1, <1>2, GivenUpSound
<1> QED
    BY <1>1, <1>2, <1>3, InvParts, InvNext

LEMMA BackendFailsKeeps == ASSUME FIInv, BackendFails PROVE FIInv'
<1>1. Backend /\ GivenUp /\ disk' = disk /\ nest' = Outer
    BY DEF BackendFails
<1>2. PICK e \in {"host", "exit"} : Raises(e)
    <2>1. trouble.exception \in {"none", "host", "exit"}
        BY InvParts DEF Trouble
    <2> QED
        BY <2>1 DEF BackendFails
<1>3. trouble' \in Trouble
    <2>1. Inner.fly \in BOOLEAN
        BY <1>1, BackendIsACall, CallFacts
    <2>2. \E fly \in BOOLEAN, x \in {"none", "host", "exit"} :
            trouble' = [flying |-> fly, exception |-> x]
        <3>1. \/ trouble' = [flying |-> FALSE, exception |-> "none"]
              \/ trouble' = [flying |-> Inner.fly, exception |-> e]
              \/ trouble' = [flying |-> TRUE, exception |-> e]
              \/ trouble' = [flying |-> Inner.fly, exception |-> "none"]
              \/ trouble' = [flying |-> TRUE, exception |-> "none"]
            BY <1>2, Zenon DEF Raises
        <3> QED
            BY <2>1, <3>1
    <2> QED
        BY <2>2 DEF Trouble
<1>4. Sound(files', nest', account', ghosts')
    BY <1>1, GivenUpSound
<1> QED
    BY <1>1, <1>3, <1>4, InvParts, InvNext

--------------------------------------------------------------------------------
(* luaext_vfs_sweep.                                                            *)

LEMMA SweepAlone ==
    ASSUME FIInv, InnerIs({"sweep"})
    PROVE  /\ nest # <<>> /\ Last(nest).k = "sweep" /\ FramesWith(nest, Asking) = 0
           /\ \A f : NobodyHolds(nest, f)
<1>1. /\ nest \in Seq(FileFrame) /\ Stacked(nest) /\ nest # <<>> /\ Last(nest).k = "sweep"
      /\ Sound(files, nest, account, ghosts)
    BY InvParts DEF StackFits, InnerIs, Inner
<1>2. Last(nest) = nest[Len(nest)] /\ Len(nest) \in Nat /\ Len(nest) > 0
    BY <1>1, CallTaken
<1>3. Len(nest) = 1
    <2> SUFFICES ASSUME Len(nest) # 1 PROVE FALSE
        OBVIOUS
    <2>1. Len(nest) \in 2 .. Len(nest)
        BY <1>2
    <2>2. Above(nest[Len(nest) - 1], nest[Len(nest)])
        BY <1>1, <2>1 DEF Stacked
    <2> QED
        BY <1>1, <1>2, <2>2 DEF Above
<1>4. nest[1].k = "sweep"
    BY <1>1, <1>2, <1>3
<1>5. \A f : NobodyHolds(nest, f)
    BY <1>3, <1>4 DEF NobodyHolds, Holds
<1>6. FramesOf(nest, Asking) = {}
    BY <1>3, <1>4 DEF FramesOf, Asking
<1> QED
    BY <1>1, <1>5, <1>6, FS_EmptySet DEF FramesWith

LEMMA SweepHandleKeeps == ASSUME FIInv, NEW f \in FileSlots, SweepHandle(f) PROVE FIInv'
<1>1. /\ InnerIs({"sweep"}) /\ files[f].st # "closed" /\ files[f].listed
      /\ UNCHANGED <<disk, trouble>>
    BY DEF SweepHandle, Listed, OpenFiles
<1>2. /\ nest # <<>> /\ Last(nest).k = "sweep" /\ NobodyHolds(nest, f)
      /\ Sound(files, nest, account, ghosts)
    BY <1>1, SweepAlone, InvParts
<1>3. CASE /\ Inner.ran /\ files[f].dirty
           /\ nest' = Append(nest, Request("sweepclose", f, files[f].path, files[f].mode))
           /\ UNCHANGED <<files, account, ghosts>>
    <2>1. "sweepclose" \in CallKinds /\ f \in FileSlots \cup {NoFile} /\ trouble \in Trouble
        BY InvParts DEF CallKinds
    <2>2. PICK p \in Paths, m \in Modes : p = files[f].path /\ m = files[f].mode
        BY <1>1, OpenHandle
    <2> DEFINE e == Request("sweepclose", f, p, m)
    <2>3. e \in FileFrame /\ e.k = "sweepclose" /\ e.f = f /\ e.p = p
        BY <2>1, RequestTyped
    <2> HIDE DEF e
    <2>4. files[f].st = "open"
        BY <1>3, InvParts DEF HandleFits
    <2>5. Above(Last(nest), e) /\ Counts(files, ghosts, e)
        BY <1>1, <1>2, <2>3, <2>4 DEF Above, Counts, Openings, OfScript, Known
    <2>6. Sound(files, Append(nest, e), account, ghosts)
        BY <1>2, <2>3, <2>5, SoundCall DEF Asking
    <2>7. Sound(files', nest', account', ghosts')
        BY <1>3, <2>2, <2>6 DEF e
    <2> QED
        BY <1>1, <2>7, InvParts, InvNext
<1>4. CASE ~(Inner.ran /\ files[f].dirty) /\ Release(f, account, ~Inner.ran) /\ UNCHANGED nest
    <2>1. PICK asked : asked = ~Inner.ran
        OBVIOUS
    <2>2. files[f].unsent /\ ~asked => f \in ghosts.overlapped \cup ghosts.ousted
        BY <1>4, <2>1, InvParts DEF HandlesFit, Remembered
    <2>3. Release(f, account, asked)
        BY <1>4, <2>1
    <2>4. Sound(files', nest, account', ghosts')
        BY <1>1, <1>2, <2>2, <2>3, ReleaseSound
    <2> QED
        BY <1>1, <1>4, <2>4, InvParts, InvNext
<1> QED
    BY <1>3, <1>4 DEF SweepHandle

LEMMA FileSweepEndsKeeps == ASSUME FIInv, FileSweepEnds PROVE FIInv'
<1>1. /\ nest' = <<>> /\ UNCHANGED <<files, disk>>
      /\ account' = [account EXCEPT !.open = 0, !.sweeping = FALSE]
      /\ ghosts' = [ghosts EXCEPT !.stray = OpenFiles # {}]
    BY DEF FileSweepEnds
<1>2. account' \in FileAccount /\ account'.open = 0 /\ account'.buffered = account.buffered
    BY <1>1, InvParts DEF FileAccount
<1>3. Sound(files, <<>>, account', ghosts')
    BY <1>1, <1>2, MiscountNoted
<1>4. Sound(files', nest', account', ghosts')
    BY <1>1, <1>3
<1>5. trouble' \in Trouble
    BY InvParts DEF FileSweepEnds, Trouble
<1> QED
    BY <1>1, <1>4, <1>5, InvParts, InvNext

--------------------------------------------------------------------------------
(* What holds always.                                                           *)

LEMMA FilesStep == FIInv /\ [FilesNext]_filesVars => FIInv'
<1> SUFFICES ASSUME FIInv, [FilesNext]_filesVars PROVE FIInv'
    OBVIOUS
<1>1. CASE UNCHANGED filesVars
    <2>1. /\ files' = files /\ nest' = nest /\ account' = account /\ ghosts' = ghosts
          /\ trouble' = trouble /\ disk' = disk
        BY <1>1 DEF filesVars
    <2> QED
        BY <2>1, InvParts, InvNext
<1>2. CASE \/ BeginCall \/ Reenter \/ NestedReturns \/ BackendCatches \/ OutermostReturns
           \/ GcRuns \/ GcEnds
    BY <1>2, BeginCallKeeps, ReenterKeeps, NestedReturnsKeeps, BackendCatchesKeeps,
       OutermostReturnsKeeps, GcRunsKeeps, GcEndsKeeps
<1>3. CASE \/ OpenRefused \/ OpenAsks \/ OpenHears \/ CountHears
           \/ OpenCounts \/ OpenLists \/ OpenStarves \/ OpenSized \/ OpenLoads
    BY <1>3, OpenRefusedKeeps, OpenAsksKeeps, OpenHearsKeeps, CountHearsKeeps,
       OpenCountsKeeps, OpenListsKeeps, OpenStarvesKeeps, OpenSizedKeeps, OpenLoadsKeeps
<1>4. CASE \E f \in FileSlots : \/ Write(f) \/ RangeIO(f) \/ Flush(f) \/ CloseFile(f)
                                \/ CloseInFlight(f) \/ CollectHandle(f) \/ SweepHandle(f)
    BY <1>4, WriteKeeps, RangeIOKeeps, FlushKeeps, CloseFileKeeps, CloseInFlightKeeps,
       CollectHandleKeeps, SweepHandleKeeps
<1>5. CASE AsksOs \/ FlushHears \/ CloseHears \/ RangeHears \/ OsHears
    BY <1>5, AsksOsKeeps, FlushHearsKeeps, CloseHearsKeeps, RangeHearsKeeps, OsHearsKeeps
<1>6. CASE BackendRefuses \/ BackendFails \/ FileSweepEnds
    BY <1>6, BackendRefusesKeeps, BackendFailsKeeps, FileSweepEndsKeeps
<1> QED
    BY <1>1, <1>2, <1>3, <1>4, <1>5, <1>6 DEF FilesNext

(* The stack of calls into the backend and back, the handles they hold and the   *)
(* two counters fit each other in every state.                                   *)
THEOREM HandlesAndCallsFit == FilesSpec => []FIInv
<1>1. FilesInit => FIInv
    BY FilesStart
<1>2. FIInv /\ [FilesNext]_filesVars => FIInv'
    BY FilesStep
<1> QED
    BY <1>1, <1>2, PTL DEF FilesSpec

(* Every variable of the file system has its type.                               *)
THEOREM FilesAreTyped == FilesSpec => []FilesTypeOK
<1>1. FIInv => FilesTypeOK
    <2> SUFFICES ASSUME FIInv PROVE FilesTypeOK
        OBVIOUS
    <2> USE InvParts
    <2>1. ASSUME NEW f \in FileSlots
          PROVE  /\ files[f].st \in {"closed", "opening", "open"}
                 /\ files[f].path \in Paths \cup {NoFile} /\ files[f].mode \in Modes
                 /\ files[f].len \in 0 .. MaxFileBytes /\ files[f].charged \in 0 .. MaxTotalBytes
                 /\ files[f].dirty \in BOOLEAN /\ files[f].unsent \in BOOLEAN
                 /\ files[f].listed \in BOOLEAN
        <3>1. files[f].charged \in 0 .. MaxTotalBytes
            BY ChargedWithin
        <3> QED
            BY <3>1 DEF FileRecord
    <2>2. account.open \in 0 .. Cardinality(FileSlots) /\ account.buffered \in 0 .. MaxTotalBytes
        BY ChargedWithin
    <2>3. /\ account.ops \in 0 .. MaxOperations + 1 /\ account.count \in 0 .. MaxFiles + 1
          /\ account.known \in BOOLEAN /\ account.sweeping \in BOOLEAN /\ account.ranged \in BOOLEAN
          /\ account.table \in BOOLEAN
        BY DEF FileAccount
    <2>4. trouble.flying \in BOOLEAN /\ trouble.exception \in {"none", "host", "exit"}
        BY DEF Trouble
    <2> QED
        BY <2>1, <2>2, <2>3, <2>4 DEF FilesTypeOK
<1> QED
    BY <1>1, HandlesAndCallsFit, PTL

(* vfs_open_handles and vfs_buffered_bytes never say more than is there, nor less *)
(* until a sweep has left behind a handle it never knew; the bytes stay within   *)
(* their quota, the handles within theirs but for the calls into the interpreter *)
(* that can nest; and once a call has ended nothing its table held is open.      *)
THEOREM FilesCountsAreTrue == FilesSpec => []FilesAddUp
<1>1. FIInv => FilesAddUp
    <2> SUFFICES ASSUME FIInv PROVE FilesAddUp
        OBVIOUS
    <2> USE InvParts
    <2>1. /\ Opened(files) = OpenFiles /\ Enlisted(files) = Listed
          /\ Charges(files) = [f \in FileSlots |-> files[f].charged]
        BY DEF Opened, OpenFiles, Enlisted, Listed, Charges
    <2>2. Counted(files, account, ghosts)
        BY DEF HandlesFit
    <2>3. account.open <= MaxOpenHandles + MaxNesting
        BY OpenWithin
    <2>4. nest = <<>> /\ ~ghosts.skipped /\ ~ghosts.stray => Listed = {}
        BY <2>1 DEF Sound
    <2> QED
        BY <2>1, <2>2, <2>3, <2>4 DEF FilesAddUp, Counted
<1> QED
    BY <1>1, HandlesAndCallsFit, PTL

(* No handle's release drops bytes the backend was not offered, whoever closes   *)
(* it: lost are a write into a flush of the very file, and what a handle holds   *)
(* that was in a table of open handles which an io.open replaced.                *)
THEOREM NoWriteIsForgotten == FilesSpec => []WritesAreNotForgotten
<1>1. FIInv => WritesAreNotForgotten
    BY InvParts DEF WritesAreNotForgotten, HandlesFit, Remembered
<1> QED
    BY <1>1, HandlesAndCallsFit, PTL

--------------------------------------------------------------------------------
(* Theorems about Proxies, for any classes, lineages, names, addresses and       *)
(* depth of the C stack.                                                         *)
(*                                                                               *)
(* A token names the record made with it for ever, and a record at an address    *)
(* names its token (Anchors), so that a record allocated at the address of an    *)
(* old one is told from it by its registration.  What a constructor made before  *)
(* it ran PHP code is still a shell of the class it began with (Shells), which   *)
(* is why asking the anchor again is enough to bind it to the right record.      *)

ClassRecord == [gen : Nat, kind : Kinds \cup {Nobody}, name : Names \cup {Nobody},
                retired : BOOLEAN, live : Nat]
Token       == [names : Records, class : BOOLEAN, dispatch : BOOLEAN]
Userdata    == [st : {"none", "shell", "live"}, cls : Records \cup {Nobody}, worn : Nat]
Activity    == [k : {"call", "host", "class", "library", "new"},
                what : Kinds \cup {Nobody} \cup Nat, name : Names \cup {Nobody},
                held : SUBSET Proxies]

ProxiesTyped ==
    /\ records \in [Records -> ClassRecord]
    /\ tokens \in Seq(Token)
    /\ proxies \in [Proxies -> Userdata]
    /\ claimed \in [Names -> {"no", "class", "library"}]
    /\ gone \in BOOLEAN /\ doubled \subseteq Names

(* The registry's records and their tokens name each other.                      *)
Anchors(rs, ts) ==
    /\ \A r \in Records : rs[r].gen > 0 =>
        /\ rs[r].gen \in DOMAIN ts /\ ts[rs[r].gen].names = r
        /\ rs[r].kind \in Kinds /\ rs[r].name \in Names
    /\ \A g \in DOMAIN ts :
        /\ ts[g].class => rs[ts[g].names].gen = g /\ ~rs[ts[g].names].retired
        /\ ts[g].dispatch => rs[ts[g].names].gen = g

(* The proxies of the record at r.                                               *)
Of(ps, r) == {p \in Proxies : ps[p].st = "live" /\ ps[p].cls = r}

Bound(rs, ts, ps) ==
    /\ \A p \in Proxies : ps[p].st = "live" =>
        /\ ps[p].cls \in Records /\ rs[ps[p].cls].gen > 0
        /\ rs[ps[p].cls].gen = ps[p].worn
        /\ ts[ps[p].worn].dispatch
    /\ \A r \in Records :
        /\ rs[r].live = Cardinality(Of(ps, r))
        /\ rs[r].gen > 0 /\ rs[r].retired => rs[r].live > 0

(* The records registered under a name.                                          *)
Named(rs, n) == {r \in Records : rs[r].gen > 0 /\ ~rs[r].retired /\ rs[r].name = n}

Claimed(rs, cl, twice) ==
    \A n \in Names \ twice :
        IF cl[n] = "class" THEN \E r \in Records : Named(rs, n) = {r} ELSE Named(rs, n) = {}

ActFits(e, ts, ps) ==
    /\ e.k = "class" => e.what \in Kinds /\ e.name \in Names
    /\ e.k = "library" => e.name \in Names
    /\ e.k = "new" =>
        /\ e.what \in DOMAIN ts
        /\ ts[e.what].class => ts[e.what].dispatch
        /\ \E p \in Proxies : e.held = {p}
        /\ \A p \in e.held : ps[p].st = "shell" /\ ps[p].worn = e.what

Shells(s, ts, ps) ==
    /\ s \in Seq(Activity)
    /\ \A n \in 1 .. Len(s) : ActFits(s[n], ts, ps)
    /\ \A n, m \in 1 .. Len(s) :
        n # m /\ s[n].k = "new" /\ s[m].k = "new" => s[n].held \cap s[m].held = {}

PInv ==
    /\ ProxiesTyped
    /\ Anchors(records, tokens)
    /\ Bound(records, tokens, proxies)
    /\ Claimed(records, claimed, doubled)
    /\ Shells(acts, tokens, proxies)

--------------------------------------------------------------------------------
(* Stacks and choices.                                                          *)

LEMMA ActAdded ==
    ASSUME NEW s \in Seq(Activity), NEW e \in Activity
    PROVE  /\ Append(s, e) \in Seq(Activity)
           /\ Len(s) \in Nat /\ Len(Append(s, e)) = Len(s) + 1
           /\ Append(s, e)[Len(s) + 1] = e
           /\ \A n \in 1 .. Len(s) : Append(s, e)[n] = s[n]
    OBVIOUS

LEMMA ActTaken ==
    ASSUME NEW s \in Seq(Activity), s # <<>>
    PROVE  /\ Len(s) \in Nat /\ Len(s) > 0
           /\ Last(s) = s[Len(s)] /\ Last(s) \in Activity
           /\ Front(s) \in Seq(Activity) /\ Len(Front(s)) = Len(s) - 1
           /\ \A n \in 1 .. Len(s) - 1 : Front(s)[n] = s[n]
<1>1. Len(s) \in Nat /\ Len(s) > 0
    OBVIOUS
<1>2. Last(s) = s[Len(s)] /\ s[Len(s)] \in Activity
    BY <1>1 DEF Last
<1>3. /\ Front(s) \in Seq(Activity) /\ Len(Front(s)) = Len(s) - 1
      /\ \A n \in 1 .. Len(s) - 1 : Front(s)[n] = s[n]
    <2> DEFINE l == Len(s) - 1
    <2>1. l \in 0 .. Len(s) /\ Front(s) = SubSeq(s, 1, l)
        BY <1>1 DEF Front
    <2> HIDE DEF l
    <2>2. /\ SubSeq(s, 1, l) \in Seq(Activity) /\ Len(SubSeq(s, 1, l)) = l
          /\ \A n \in 1 .. l : SubSeq(s, 1, l)[n] = s[n]
        BY <1>1, <2>1
    <2> QED
        BY <2>1, <2>2 DEF l
<1> QED
    BY <1>1, <1>2, <1>3

(* A bounded figure has a greatest value, and a set of naturals a least member.  *)
LEMMA GreatestExists ==
    ASSUME NEW R, R # {}, NEW f, NEW b \in Nat, \A r \in R : f[r] \in 0 .. b
    PROVE  \E r \in R : \A s \in R : f[s] <= f[r]
<1> DEFINE Bounded(n) == \A r \in R : f[r] <= n
           Top == \E r \in R : \A s \in R : f[s] <= f[r]
           S == {n \in Nat : Bounded(n) => Top}
<1>1. \A r \in R : f[r] \in Nat /\ f[r] <= b
    OBVIOUS
<1>2. 0 \in S
    <2> SUFFICES ASSUME Bounded(0) PROVE Top
        OBVIOUS
    <2>1. \A r \in R : f[r] = 0
        BY <1>1
    <2> QED
        BY <2>1
<1>3. \A n \in Nat : n \in S => n + 1 \in S
    <2> SUFFICES ASSUME NEW n \in Nat, n \in S, Bounded(n + 1) PROVE Top
        OBVIOUS
    <2>1. CASE \E r \in R : f[r] = n + 1
        BY <1>1, <2>1
    <2>2. CASE \A r \in R : f[r] # n + 1
        <3>1. Bounded(n)
            BY <1>1, <2>2
        <3> QED
            BY <3>1
    <2> QED
        BY <2>1, <2>2
<1>4. Nat \subseteq S
    <2> HIDE DEF S
    <2> QED
        BY <1>2, <1>3, SetInduction
<1>5. b \in S
    BY <1>4
<1> QED
    BY <1>1, <1>5

LEMMA LeastExists ==
    ASSUME NEW S, S \subseteq Nat, S # {}
    PROVE  \E x \in S : \A y \in S : x <= y
<1> DEFINE T == {n \in Nat : \A x \in S : x > n}
<1> SUFFICES ASSUME \A x \in S : \E y \in S : ~(x <= y) PROVE FALSE
    OBVIOUS
<1>1. 0 \in T
    <2> SUFFICES ASSUME 0 \in S PROVE FALSE
        OBVIOUS
    <2> QED
        OBVIOUS
<1>2. \A n \in Nat : n \in T => n + 1 \in T
    <2> SUFFICES ASSUME NEW n \in Nat, n \in T, n + 1 \in S PROVE FALSE
        OBVIOUS
    <2>1. PICK y \in S : ~(n + 1 <= y)
        OBVIOUS
    <2> QED
        BY <2>1
<1>3. Nat \subseteq T
    <2> HIDE DEF T
    <2> QED
        BY <1>1, <1>2, SetInduction
<1>4. PICK x \in S : x \in Nat
    OBVIOUS
<1>5. x \in T
    BY <1>3, <1>4
<1> QED
    BY <1>4, <1>5

LEMMA NewestIn ==
    ASSUME ProxiesTyped, Anchors(records, tokens), NEW R, R \subseteq Exist, R # {}
    PROVE  Newest(R) \in R
<1> DEFINE f == [r \in Records |-> records[r].gen]
           Top(r) == r \in R /\ \A s \in R : records[s].gen <= records[r].gen
<1>1. Len(tokens) \in Nat /\ DOMAIN tokens = 1 .. Len(tokens)
    BY DEF ProxiesTyped
<1>2. \A r \in R : r \in Records /\ f[r] = records[r].gen /\ f[r] \in 0 .. Len(tokens)
    BY <1>1 DEF ProxiesTyped, ClassRecord, Anchors, Exist
<1>3. \E r \in R : \A s \in R : f[s] <= f[r]
    <2> HIDE DEF f
    <2> QED
        BY <1>1, <1>2, GreatestExists
<1>4. \E r : Top(r)
    BY <1>2, <1>3
<1>5. Newest(R) = CHOOSE r : Top(r)
    BY DEF Newest
<1> HIDE DEF Top
<1>6. Top(Newest(R))
    BY <1>4, <1>5
<1> QED
    BY <1>6 DEF Top

(* An instance finds the record of an ancestor that is still registered.         *)
LEMMA NearestIn ==
    ASSUME ProxiesTyped, Anchors(records, tokens), NEW kind \in Kinds, Candidates(kind) # {}
    PROVE  Nearest(kind) \in Registered
<1> DEFINE C == Candidates(kind)
           R == {r \in Registered : records[r].kind = Lineage[kind][Min(C)]}
<1>1. Lineage[kind] \in Seq(Kinds)
    BY ProxiesAssumption
<1>2. C \subseteq Nat /\ C # {}
    BY <1>1 DEF Candidates
<1>3. Min(C) \in C
    <2> HIDE DEF C
    <2>1. \E x \in C : \A y \in C : x <= y
        BY <1>2, LeastExists
    <2> QED
        BY <2>1 DEF Min
<1>4. R # {}
    BY <1>3 DEF Candidates
<1>5. R \subseteq Exist
    BY DEF Registered
<1>6. Nearest(kind) = Newest(R)
    BY DEF Nearest
<1>7. Newest(R) \in R
    <2> HIDE DEF R
    <2> QED
        BY <1>4, <1>5, NewestIn
<1> QED
    BY <1>6, <1>7

--------------------------------------------------------------------------------
(* The frames and what they rely on.                                            *)

(* No anchor is made anew, and a dispatch anchor goes with its class's.         *)
TokensKept(ts, us) ==
    \A g \in DOMAIN ts :
        /\ g \in DOMAIN us
        /\ us[g].class => ts[g].class
        /\ us[g].class /\ ts[g].dispatch => us[g].dispatch

(* The shells that constructors hold stay as they are.                          *)
ShellsKept(s, ps, qs) ==
    \A n \in 1 .. Len(s) : s[n].k = "new" =>
        \A p \in s[n].held : qs[p].st = ps[p].st /\ qs[p].worn = ps[p].worn

LEMMA ShellsStay ==
    ASSUME NEW s, NEW ts, NEW us, NEW ps, NEW qs, Shells(s, ts, ps),
           TokensKept(ts, us), ShellsKept(s, ps, qs)
    PROVE  Shells(s, us, qs)
<1>1. ASSUME NEW n \in 1 .. Len(s) PROVE ActFits(s[n], us, qs)
    <2>1. ActFits(s[n], ts, ps)
        BY DEF Shells
    <2>2. s[n].k = "new" => \A p \in s[n].held : qs[p].st = ps[p].st /\ qs[p].worn = ps[p].worn
        BY DEF ShellsKept
    <2>3. CASE s[n].k = "new"
        <3>1. s[n].what \in DOMAIN ts
            BY <2>1, <2>3 DEF ActFits
        <3>2. /\ s[n].what \in DOMAIN us
              /\ us[s[n].what].class => ts[s[n].what].class
              /\ us[s[n].what].class /\ ts[s[n].what].dispatch => us[s[n].what].dispatch
            BY <3>1 DEF TokensKept
        <3> QED
            BY <2>1, <2>2, <2>3, <3>2 DEF ActFits
    <2>4. CASE s[n].k # "new"
        BY <2>1, <2>4 DEF ActFits
    <2> QED
        BY <2>3, <2>4
<1> QED
    BY <1>1 DEF Shells

LEMMA ShellsPush ==
    ASSUME NEW s, NEW ts, NEW ps, Shells(s, ts, ps), NEW e \in Activity, ActFits(e, ts, ps),
           e.k = "new" => \A n \in 1 .. Len(s) : s[n].k = "new" => s[n].held \cap e.held = {}
    PROVE  Shells(Append(s, e), ts, ps)
<1> DEFINE t == Append(s, e)
<1>1. /\ t \in Seq(Activity) /\ Len(s) \in Nat /\ Len(t) = Len(s) + 1
      /\ t[Len(s) + 1] = e /\ \A n \in 1 .. Len(s) : t[n] = s[n]
    BY ActAdded DEF Shells
<1> HIDE DEF t
<1>2. \A n \in 1 .. Len(t) : n \in 1 .. Len(s) \/ n = Len(s) + 1
    BY <1>1
<1>3. \A n \in 1 .. Len(t) : ActFits(t[n], ts, ps)
    BY <1>1, <1>2 DEF Shells
<1>4. ASSUME NEW n \in 1 .. Len(t), NEW m \in 1 .. Len(t), n # m, t[n].k = "new", t[m].k = "new"
      PROVE  t[n].held \cap t[m].held = {}
    <2>1. CASE n \in 1 .. Len(s) /\ m \in 1 .. Len(s)
        BY <1>1, <1>4, <2>1 DEF Shells
    <2>2. CASE n = Len(s) + 1
        BY <1>1, <1>2, <1>4, <2>2
    <2>3. CASE m = Len(s) + 1
        BY <1>1, <1>2, <1>4, <2>3
    <2> QED
        BY <1>2, <2>1, <2>2, <2>3
<1>5. Shells(t, ts, ps)
    BY <1>1, <1>3, <1>4 DEF Shells
<1> QED
    BY <1>5 DEF t

LEMMA ShellsPop ==
    ASSUME NEW s, NEW ts, NEW ps, Shells(s, ts, ps), s # <<>>
    PROVE  Shells(Front(s), ts, ps)
<1> DEFINE t == Front(s)
<1>1. /\ Len(s) \in Nat /\ Len(s) > 0
      /\ t \in Seq(Activity) /\ Len(t) = Len(s) - 1
      /\ \A n \in 1 .. Len(s) - 1 : t[n] = s[n]
    BY ActTaken DEF Shells
<1> HIDE DEF t
<1>2. \A n \in 1 .. Len(t) : n \in 1 .. Len(s) /\ t[n] = s[n]
    BY <1>1
<1>3. Shells(t, ts, ps)
    BY <1>1, <1>2 DEF Shells
<1> QED
    BY <1>3 DEF t

LEMMA BareFits ==
    ASSUME NEW e, NEW ts, NEW ps, e.k \in {"call", "host"}
    PROVE  ActFits(e, ts, ps)
    BY DEF ActFits

--------------------------------------------------------------------------------
(* What the operations do to records, tokens and proxies.                       *)

(* The same registrations, under the same names.                                *)
Alike(rs, qs) ==
    \A r \in Records : /\ qs[r].gen = rs[r].gen /\ qs[r].kind = rs[r].kind
                       /\ qs[r].name = rs[r].name /\ qs[r].retired = rs[r].retired

LEMMA TokenTyped ==
    ASSUME NEW ts \in Seq(Token)
    PROVE  /\ Len(ts) \in Nat /\ DOMAIN ts = 1 .. Len(ts)
           /\ \A g \in DOMAIN ts : ts[g] \in Token /\ ts[g].names \in Records
                /\ ts[g].class \in BOOLEAN /\ ts[g].dispatch \in BOOLEAN
<1>1. Len(ts) \in Nat /\ DOMAIN ts = 1 .. Len(ts)
    OBVIOUS
<1>2. \A g \in 1 .. Len(ts) : ts[g] \in Token
    OBVIOUS
<1> QED
    BY <1>1, <1>2 DEF Token

LEMMA AlikeFits ==
    ASSUME NEW rs, NEW qs, NEW ts, NEW cl, NEW tw, Alike(rs, qs), ts \in Seq(Token),
           Anchors(rs, ts), Claimed(rs, cl, tw)
    PROVE  Anchors(qs, ts) /\ Claimed(qs, cl, tw)
<1>1. \A n : Named(qs, n) = Named(rs, n)
    BY DEF Alike, Named
<1>2. Claimed(qs, cl, tw)
    BY <1>1 DEF Claimed
<1>3. \A g \in DOMAIN ts : ts[g].names \in Records
    BY TokenTyped
<1>4. Anchors(qs, ts)
    BY <1>3 DEF Alike, Anchors
<1> QED
    BY <1>2, <1>4

(* Building a class's metatable makes its dispatch anchor.                      *)
Anchoring(rs, ts, us, ps, a) ==
    /\ us \in Seq(Token) /\ Anchors(rs, us) /\ Bound(rs, us, ps)
    /\ TokensKept(ts, us) /\ us[a].dispatch
    /\ DOMAIN us = DOMAIN ts /\ us[a].class = ts[a].class

LEMMA AnchorMade ==
    ASSUME NEW rs, NEW ts \in Seq(Token), NEW ps, Anchors(rs, ts), Bound(rs, ts, ps),
           NEW r \in Records, rs[r].gen > 0, NEW us,
           us = [ts EXCEPT ![rs[r].gen].dispatch = TRUE]
    PROVE  Anchoring(rs, ts, us, ps, rs[r].gen)
<1> DEFINE a == rs[r].gen
<1>1. a \in DOMAIN ts /\ ts[a].names = r
    BY DEF Anchors
<1> HIDE DEF a
<1> DEFINE t == [ts[a] EXCEPT !.dispatch = TRUE]
<1>2. us = [ts EXCEPT ![a] = t]
    BY DEF a
<1>9. /\ t \in Token /\ t.dispatch = TRUE /\ t.class = ts[a].class /\ t.names = ts[a].names
    <2>1. ts[a] \in Token
        BY <1>1, TokenTyped
    <2>2. ASSUME NEW x \in Token, NEW y, y = [x EXCEPT !.dispatch = TRUE]
          PROVE  y \in Token /\ y.dispatch = TRUE /\ y.class = x.class /\ y.names = x.names
        BY <2>2 DEF Token
    <2> QED
        BY <2>1, <2>2
<1> HIDE DEF t
<1>3. /\ us \in Seq(Token) /\ DOMAIN us = DOMAIN ts /\ us[a] = t
      /\ \A g \in DOMAIN ts : g # a => us[g] = ts[g]
    <2>1. a \in DOMAIN ts /\ t \in Token
        BY <1>1, <1>9
    <2>2. ASSUME NEW vs, vs = [ts EXCEPT ![a] = t]
          PROVE  /\ vs \in Seq(Token) /\ DOMAIN vs = DOMAIN ts /\ vs[a] = t
                 /\ \A g \in DOMAIN ts : g # a => vs[g] = ts[g]
        BY <2>1, <2>2
    <2> QED
        BY <1>2, <2>2
<1>4. \A g \in DOMAIN ts : /\ us[g].names = ts[g].names /\ us[g].class = ts[g].class
                           /\ ts[g].dispatch => us[g].dispatch
                           /\ us[g].dispatch => g = a \/ ts[g].dispatch
    BY <1>3, <1>9
<1>5. us[a].dispatch
    BY <1>3, <1>9
<1>6. Anchors(rs, us)
    BY <1>1, <1>3, <1>4 DEF Anchors, a
<1>7. Bound(rs, us, ps)
    <2>1. ASSUME NEW p \in Proxies, ps[p].st = "live"
          PROVE  us[ps[p].worn].dispatch
        <3>1. /\ ps[p].cls \in Records /\ rs[ps[p].cls].gen > 0
              /\ rs[ps[p].cls].gen = ps[p].worn /\ ts[ps[p].worn].dispatch
            BY <2>1 DEF Bound
        <3>2. ps[p].worn \in DOMAIN ts
            BY <3>1 DEF Anchors
        <3> QED
            BY <1>4, <3>1, <3>2
    <2> QED
        BY <2>1 DEF Bound
<1>8. TokensKept(ts, us)
    BY <1>3, <1>4 DEF TokensKept
<1> QED
    BY <1>1, <1>3, <1>4, <1>5, <1>6, <1>7, <1>8 DEF Anchoring, a

LEMMA OfFinite ==
    ASSUME NEW ps, NEW r PROVE IsFiniteSet(Of(ps, r)) /\ Cardinality(Of(ps, r)) \in 0 .. Cardinality(Proxies)
<1>1. Of(ps, r) \subseteq Proxies /\ IsFiniteSet(Proxies)
    BY ProxiesAssumption DEF Of
<1>2. /\ IsFiniteSet(Of(ps, r)) /\ Cardinality(Of(ps, r)) <= Cardinality(Proxies)
    BY <1>1, FS_Subset
<1>3. Cardinality(Of(ps, r)) \in Nat /\ Cardinality(Proxies) \in Nat
    BY <1>1, <1>2, FS_CardinalityType
<1> QED
    BY <1>2, <1>3

(* A proxy of the record at r more.                                             *)
Binding(rs, qs, ts, os) ==
    /\ qs \in [Records -> ClassRecord] /\ os \in [Proxies -> Userdata]
    /\ Alike(rs, qs) /\ Bound(qs, ts, os)

LEMMA BindFits ==
    ASSUME NEW rs \in [Records -> ClassRecord], NEW ts, NEW ps \in [Proxies -> Userdata],
           Bound(rs, ts, ps), NEW p \in Proxies, ps[p].st # "live",
           NEW r \in Records, rs[r].gen > 0, ts[rs[r].gen].dispatch, NEW qs, NEW os,
           qs = [rs EXCEPT ![r].live = @ + 1],
           os = [ps EXCEPT ![p] = [st |-> "live", cls |-> r, worn |-> rs[r].gen]]
    PROVE  Binding(rs, qs, ts, os)
<1>1. rs[r].gen \in Nat /\ rs[r].live \in Nat
    BY DEF ClassRecord
<1>2. qs \in [Records -> ClassRecord] /\ os \in [Proxies -> Userdata]
    BY <1>1 DEF ClassRecord, Userdata
<1>3. Alike(rs, qs)
    BY DEF Alike, ClassRecord
<1>4. \A q \in Records : qs[q].live = IF q = r THEN rs[q].live + 1 ELSE rs[q].live
    BY DEF ClassRecord
<1>5. /\ os[p].st = "live" /\ os[p].cls = r /\ os[p].worn = rs[r].gen
      /\ \A q \in Proxies : q # p => os[q] = ps[q]
    OBVIOUS
<1>6. ASSUME NEW q \in Proxies, os[q].st = "live"
      PROVE  /\ os[q].cls \in Records /\ qs[os[q].cls].gen > 0
             /\ qs[os[q].cls].gen = os[q].worn
             /\ ts[os[q].worn].dispatch
    <2>1. CASE q = p
        BY <1>3, <1>5, <2>1 DEF Alike
    <2>2. CASE q # p
        BY <1>3, <1>5, <1>6, <2>2 DEF Alike, Bound
    <2> QED
        BY <2>1, <2>2
<1>7. ASSUME NEW q \in Records
      PROVE  /\ qs[q].live = Cardinality(Of(os, q))
             /\ qs[q].gen > 0 /\ qs[q].retired => qs[q].live > 0
    <2>1. qs[q].gen = rs[q].gen /\ qs[q].retired = rs[q].retired
        BY <1>3 DEF Alike
    <2>2. /\ rs[q].live = Cardinality(Of(ps, q))
          /\ rs[q].gen > 0 /\ rs[q].retired => rs[q].live > 0
        BY DEF Bound
    <2>3. CASE q = r
        <3>1. Of(os, q) = Of(ps, q) \cup {p} /\ p \notin Of(ps, q)
            BY <1>5, <2>3 DEF Of
        <3>2. Cardinality(Of(os, q)) = Cardinality(Of(ps, q)) + 1
            BY <3>1, OfFinite, FS_AddElement
        <3> QED
            BY <1>1, <1>4, <2>2, <2>3, <3>2
    <2>4. CASE q # r
        <3>1. Of(os, q) = Of(ps, q)
            BY <1>5, <2>4 DEF Of
        <3> QED
            BY <1>4, <2>1, <2>2, <2>4, <3>1
    <2> QED
        BY <2>3, <2>4
<1>8. Bound(qs, ts, os)
    BY <1>6, <1>7 DEF Bound
<1> QED
    BY <1>2, <1>3, <1>8 DEF Binding

(* A userdata that is no proxy before and after.                                *)
LEMMA UnboundFits ==
    ASSUME NEW rs, NEW ts, NEW ps \in [Proxies -> Userdata], Bound(rs, ts, ps),
           NEW p \in Proxies, ps[p].st # "live", NEW u \in Userdata, u.st # "live", NEW os,
           os = [ps EXCEPT ![p] = u]
    PROVE  os \in [Proxies -> Userdata] /\ Bound(rs, ts, os)
<1>1. os[p].st # "live" /\ \A q \in Proxies : q # p => os[q] = ps[q]
    OBVIOUS
<1>2. \A r : Of(os, r) = Of(ps, r)
    BY <1>1 DEF Of
<1>3. Bound(rs, ts, os)
    BY <1>1, <1>2 DEF Bound
<1> QED
    BY <1>3

LEMMA BlankRecord == NoRecord \in ClassRecord /\ NoRecord.gen = 0 /\ NoRecord.live = 0
    BY DEF NoRecord, ClassRecord

(* The proxy p of the record at r goes, and with the last one a retired record. *)
Settled(rs, qs, ts, us, os) ==
    /\ qs \in [Records -> ClassRecord] /\ us \in Seq(Token) /\ os \in [Proxies -> Userdata]
    /\ Anchors(qs, us) /\ Bound(qs, us, os) /\ TokensKept(ts, us)
    /\ \A n : Named(qs, n) = Named(rs, n)

LEMMA SettlesFits ==
    ASSUME NEW rs \in [Records -> ClassRecord], NEW ts \in Seq(Token),
           NEW ps \in [Proxies -> Userdata], Anchors(rs, ts), Bound(rs, ts, ps),
           NEW p \in Proxies, ps[p].st = "live", NEW rest \in Userdata, rest.st # "live",
           NEW r, r = ps[p].cls, NEW last, last = (rs[r].retired /\ rs[r].live = 1),
           NEW qs, qs = [rs EXCEPT ![r] = IF last THEN NoRecord ELSE [@ EXCEPT !.live = rs[r].live - 1]],
           NEW us, us = [ts EXCEPT ![rs[r].gen].dispatch = @ /\ ~last],
           NEW os, os = [ps EXCEPT ![p] = rest]
    PROVE  Settled(rs, qs, ts, us, os)
<1> DEFINE a == rs[r].gen
           t == [ts[a] EXCEPT !.dispatch = ts[a].dispatch /\ ~last]
           c == IF last THEN NoRecord ELSE [rs[r] EXCEPT !.live = rs[r].live - 1]
<1>1. r \in Records /\ rs[r] \in ClassRecord /\ a > 0 /\ a = ps[p].worn
    BY DEF Bound
<1>2. a \in DOMAIN ts /\ ts[a].names = r /\ ts[a] \in Token
    BY <1>1, TokenTyped DEF Anchors
<1>3. rs[r].live = Cardinality(Of(ps, r)) /\ rs[r].live > 0 /\ rs[r].live \in Nat
    <2>1. rs[r].live = Cardinality(Of(ps, r)) /\ rs[r].live \in Nat
        BY <1>1 DEF Bound, ClassRecord
    <2>2. p \in Of(ps, r)
        BY DEF Of
    <2>3. Cardinality(Of(ps, r)) # 0
        BY <2>2, OfFinite, FS_EmptySet
    <2> QED
        BY <2>1, <2>3
<1>4. last \in BOOLEAN /\ (last => rs[r].retired /\ rs[r].live = 1)
    OBVIOUS
<1>5. /\ t \in Token /\ t.names = r /\ t.class = ts[a].class
      /\ t.dispatch = (ts[a].dispatch /\ ~last)
    <2>1. PICK b \in BOOLEAN : b = (ts[a].dispatch /\ ~last)
        OBVIOUS
    <2>2. t = [ts[a] EXCEPT !.dispatch = b]
        BY <2>1
    <2>3. ASSUME NEW x \in Token, NEW y, y = [x EXCEPT !.dispatch = b]
          PROVE  y \in Token /\ y.names = x.names /\ y.class = x.class /\ y.dispatch = b
        BY <2>1, <2>3 DEF Token
    <2> HIDE DEF t
    <2>4. t \in Token /\ t.names = ts[a].names /\ t.class = ts[a].class /\ t.dispatch = b
        BY <1>2, <2>2, <2>3
    <2> QED
        BY <1>2, <2>1, <2>4
<1>6. /\ us \in Seq(Token) /\ DOMAIN us = DOMAIN ts /\ us[a] = t
      /\ \A g \in DOMAIN ts : g # a => us[g] = ts[g]
    <2>1. us = [ts EXCEPT ![a] = t]
        OBVIOUS
    <2> HIDE DEF t, a
    <2>2. ASSUME NEW vs, vs = [ts EXCEPT ![a] = t]
          PROVE  /\ vs \in Seq(Token) /\ DOMAIN vs = DOMAIN ts /\ vs[a] = t
                 /\ \A g \in DOMAIN ts : g # a => vs[g] = ts[g]
        BY <1>2, <1>5, <2>2
    <2> QED
        BY <2>1, <2>2
<1>7. c \in ClassRecord
    <2>1. CASE last
        BY <2>1, BlankRecord
    <2>2. CASE ~last
        <3>1. rs[r].live - 1 \in Nat
            BY <1>3
        <3> QED
            BY <1>1, <2>2, <3>1 DEF ClassRecord
    <2> QED
        BY <1>4, <2>1, <2>2
<1>8. /\ ~last => /\ c.gen = a /\ c.kind = rs[r].kind /\ c.name = rs[r].name
                  /\ c.retired = rs[r].retired /\ c.live = rs[r].live - 1
      /\ last => c.gen = 0 /\ c.live = 0
    BY <1>1, <1>4, BlankRecord DEF ClassRecord
<1>9. /\ qs \in [Records -> ClassRecord] /\ qs[r] = c
      /\ \A q \in Records : q # r => qs[q] = rs[q]
    <2>1. qs = [rs EXCEPT ![r] = c]
        OBVIOUS
    <2> HIDE DEF c
    <2> QED
        BY <1>1, <1>7, <2>1
<1>10. /\ os \in [Proxies -> Userdata] /\ os[p].st # "live"
       /\ \A q \in Proxies : q # p => os[q] = ps[q]
    OBVIOUS
<1> HIDE DEF c, t
<1>11. \A g \in DOMAIN ts : /\ us[g].names = ts[g].names /\ us[g].class = ts[g].class
                            /\ us[g].dispatch => ts[g].dispatch
                            /\ us[g].dispatch /\ g = a => ~last
                            /\ ts[g].dispatch => us[g].dispatch \/ (g = a /\ last)
    BY <1>2, <1>4, <1>5, <1>6
<1>12. ts[a].class => ~last
    BY <1>2, <1>4 DEF Anchors
<1>13. Anchors(qs, us)
    <2>1. ASSUME NEW q \in Records, qs[q].gen > 0
          PROVE  /\ qs[q].gen \in DOMAIN us /\ us[qs[q].gen].names = q
                 /\ qs[q].kind \in Kinds /\ qs[q].name \in Names
        <3>1. /\ rs[q].gen > 0 /\ qs[q].gen = rs[q].gen /\ qs[q].kind = rs[q].kind
              /\ qs[q].name = rs[q].name
            BY <1>1, <1>4, <1>8, <1>9, <2>1
        <3>2. /\ rs[q].gen \in DOMAIN ts /\ ts[rs[q].gen].names = q
              /\ rs[q].kind \in Kinds /\ rs[q].name \in Names
            BY <3>1 DEF Anchors
        <3> QED
            BY <1>6, <1>11, <3>1, <3>2
    <2>2. ASSUME NEW g \in DOMAIN us
          PROVE  /\ us[g].class => qs[us[g].names].gen = g /\ ~qs[us[g].names].retired
                 /\ us[g].dispatch => qs[us[g].names].gen = g
        <3>1. g \in DOMAIN ts /\ ts[g].names \in Records
            BY <1>6, TokenTyped
        <3>2. /\ ts[g].class => rs[ts[g].names].gen = g /\ ~rs[ts[g].names].retired
              /\ ts[g].dispatch => rs[ts[g].names].gen = g
            BY <3>1 DEF Anchors
        <3>3. CASE ts[g].names = r
            BY <1>4, <1>8, <1>9, <1>11, <1>12, <3>1, <3>2, <3>3
        <3>4. CASE ts[g].names # r
            BY <1>9, <1>11, <3>1, <3>2, <3>4
        <3> QED
            BY <3>3, <3>4
    <2> QED
        BY <2>1, <2>2 DEF Anchors
<1>14. \A q \in Records : Of(os, q) = IF q = r THEN Of(ps, q) \ {p} ELSE Of(ps, q)
    BY <1>10 DEF Of
<1>15. ASSUME NEW q \in Proxies, os[q].st = "live"
       PROVE  /\ os[q].cls \in Records /\ qs[os[q].cls].gen > 0
              /\ qs[os[q].cls].gen = os[q].worn
              /\ us[os[q].worn].dispatch
    <2>1. q # p /\ os[q] = ps[q]
        BY <1>10, <1>15
    <2>2. /\ ps[q].cls \in Records /\ rs[ps[q].cls].gen > 0
          /\ rs[ps[q].cls].gen = ps[q].worn /\ ts[ps[q].worn].dispatch
        BY <1>15, <2>1 DEF Bound
    <2>3. ps[q].worn \in DOMAIN ts /\ ts[ps[q].worn].names = ps[q].cls
        BY <2>2 DEF Anchors
    <2>4. CASE ps[q].cls = r
        <3>1. p \in Of(ps, r) /\ q \in Of(ps, r)
            BY <1>15, <2>1, <2>4 DEF Of
        <3>2. Cardinality(Of(ps, r)) # 1
            <4> SUFFICES ASSUME Cardinality(Of(ps, r)) = 1 PROVE FALSE
                OBVIOUS
            <4>1. \E x : Of(ps, r) = {x}
                BY OfFinite, FS_Singleton
            <4> QED
                BY <2>1, <3>1, <4>1
        <3>3. ~last
            BY <1>3, <1>4, <3>2
        <3>4. qs[r].gen = rs[r].gen /\ os[q].cls = r /\ os[q].worn = a
            BY <1>8, <2>1, <2>2, <2>4, <3>3
        <3>5. ts[a].dispatch
            BY <2>2, <2>4
        <3>6. us[a].dispatch
            <4>1. us[a] = t /\ t.dispatch = (ts[a].dispatch /\ ~last)
                BY <1>5, <1>6
            <4> HIDE DEF a
            <4> QED
                BY <3>3, <3>5, <4>1, Zenon
        <3> QED
            BY <1>1, <2>2, <2>4, <3>4, <3>6
    <2>5. CASE ps[q].cls # r
        <3>1. ps[q].worn # a
            BY <1>2, <2>3, <2>5
        <3> QED
            BY <1>9, <1>11, <2>1, <2>2, <2>3, <2>5, <3>1
    <2> QED
        BY <2>4, <2>5
<1>16. ASSUME NEW q \in Records
       PROVE  /\ qs[q].live = Cardinality(Of(os, q))
              /\ qs[q].gen > 0 /\ qs[q].retired => qs[q].live > 0
    <2>1. CASE q = r
        <3>1. p \in Of(ps, r)
            BY DEF Of
        <3>2. Of(os, q) = Of(ps, r) \ {p} /\ IsFiniteSet(Of(ps, r))
            BY <1>14, <2>1, OfFinite
        <3>3. Cardinality(Of(os, q)) = rs[r].live - 1
            BY <1>3, <3>1, <3>2, FS_RemoveElement
        <3>4. CASE last
            BY <1>4, <1>8, <1>9, <2>1, <3>3, <3>4
        <3>5. CASE ~last
            <4>1. rs[r].retired => rs[r].live # 1
                BY <3>5
            <4>2. qs[q].live = rs[r].live - 1 /\ qs[q].retired = rs[r].retired
                BY <1>8, <1>9, <2>1, <3>5
            <4>3. rs[r].live # 1 => rs[r].live - 1 > 0
                BY <1>3
            <4> QED
                BY <3>3, <4>1, <4>2, <4>3
        <3> QED
            BY <1>4, <3>4, <3>5
    <2>2. CASE q # r
        BY <1>9, <1>14, <2>2 DEF Bound
    <2> QED
        BY <2>1, <2>2
<1>17. Bound(qs, us, os)
    BY <1>15, <1>16 DEF Bound
<1>18. TokensKept(ts, us)
    BY <1>6, <1>11, <1>12 DEF TokensKept
<1>19. \A n : Named(qs, n) = Named(rs, n)
    <2>1. \A q \in Records : ~(q = r /\ last) =>
             qs[q].gen = rs[q].gen /\ qs[q].retired = rs[q].retired /\ qs[q].name = rs[q].name
        BY <1>4, <1>8, <1>9
    <2>2. last => qs[r].gen = 0 /\ rs[r].retired
        BY <1>4, <1>8, <1>9
    <2> QED
        BY <2>1, <2>2 DEF Named
<1> QED
    BY <1>6, <1>9, <1>10, <1>13, <1>17, <1>18, <1>19 DEF Settled

(* A class is registered at an address that was free.                           *)
Planted(rs, qs, ts, us, ps, r, name) ==
    /\ qs \in [Records -> ClassRecord] /\ us \in Seq(Token)
    /\ Anchors(qs, us) /\ Bound(qs, us, ps) /\ TokensKept(ts, us)
    /\ \A n \in Names : Named(qs, n) = Named(rs, n) \cup (IF n = name THEN {r} ELSE {})

LEMMA PlantFits ==
    ASSUME NEW rs \in [Records -> ClassRecord], NEW ts \in Seq(Token), NEW ps,
           Anchors(rs, ts), Bound(rs, ts, ps),
           NEW r \in Records, rs[r].gen = 0, NEW kind \in Kinds, NEW name \in Names,
           NEW planted \in BOOLEAN,
           NEW c, c = [gen |-> Len(ts) + 1, kind |-> kind, name |-> name,
                       retired |-> FALSE, live |-> 0],
           NEW t, t = [names |-> r, class |-> planted, dispatch |-> FALSE],
           NEW qs, qs = [rs EXCEPT ![r] = c], NEW us, us = Append(ts, t)
    PROVE  Planted(rs, qs, ts, us, ps, r, name)
<1> DEFINE l == Len(ts) + 1
<1>1. Len(ts) \in Nat /\ DOMAIN ts = 1 .. Len(ts) /\ l \in Nat /\ l > 0
    BY TokenTyped
<1>2. t \in Token /\ t.names = r /\ t.dispatch = FALSE
    BY DEF Token
<1>3. /\ us \in Seq(Token) /\ DOMAIN us = 1 .. l /\ us[l] = t
      /\ \A g \in DOMAIN ts : us[g] = ts[g]
    BY <1>1, <1>2
<1>4. /\ c \in ClassRecord /\ c.gen = l /\ c.kind = kind /\ c.name = name
      /\ c.retired = FALSE /\ c.live = 0
    BY <1>1 DEF ClassRecord
<1>5. /\ qs \in [Records -> ClassRecord] /\ qs[r] = c
      /\ \A q \in Records : q # r => qs[q] = rs[q]
    BY <1>4
<1>6. \A g \in DOMAIN us : g \in DOMAIN ts \/ g = l
    BY <1>1, <1>3
<1>7. l \notin DOMAIN ts
    BY <1>1
<1>8. Anchors(qs, us)
    <2>1. ASSUME NEW q \in Records, qs[q].gen > 0
          PROVE  /\ qs[q].gen \in DOMAIN us /\ us[qs[q].gen].names = q
                 /\ qs[q].kind \in Kinds /\ qs[q].name \in Names
        <3>1. CASE q = r
            BY <1>1, <1>2, <1>3, <1>4, <1>5, <3>1
        <3>2. CASE q # r
            <4>1. qs[q] = rs[q] /\ rs[q].gen > 0
                BY <1>5, <2>1, <3>2
            <4>2. /\ rs[q].gen \in DOMAIN ts /\ ts[rs[q].gen].names = q
                  /\ rs[q].kind \in Kinds /\ rs[q].name \in Names
                BY <4>1 DEF Anchors
            <4> QED
                BY <1>1, <1>3, <4>1, <4>2
        <3> QED
            BY <3>1, <3>2
    <2>2. ASSUME NEW g \in DOMAIN us
          PROVE  /\ us[g].class => qs[us[g].names].gen = g /\ ~qs[us[g].names].retired
                 /\ us[g].dispatch => qs[us[g].names].gen = g
        <3>1. CASE g \in DOMAIN ts
            <4>1. us[g] = ts[g] /\ ts[g].names \in Records /\ g # 0
                BY <1>1, <1>3, <3>1, TokenTyped
            <4>2. /\ ts[g].class => rs[ts[g].names].gen = g /\ ~rs[ts[g].names].retired
                  /\ ts[g].dispatch => rs[ts[g].names].gen = g
                BY <3>1 DEF Anchors
            <4>3. CASE ts[g].names = r
                BY <4>1, <4>2, <4>3
            <4>4. CASE ts[g].names # r
                BY <1>5, <4>1, <4>2, <4>4
            <4> QED
                BY <4>3, <4>4
        <3>2. CASE g = l
            BY <1>2, <1>3, <1>4, <1>5, <3>2
        <3> QED
            BY <1>6, <2>2, <3>1, <3>2
    <2> QED
        BY <2>1, <2>2 DEF Anchors
<1>9. ASSUME NEW p \in Proxies, ps[p].st = "live"
      PROVE  /\ ps[p].cls \in Records /\ qs[ps[p].cls].gen > 0
             /\ qs[ps[p].cls].gen = ps[p].worn
             /\ us[ps[p].worn].dispatch
    <2>1. /\ ps[p].cls \in Records /\ rs[ps[p].cls].gen > 0
          /\ rs[ps[p].cls].gen = ps[p].worn /\ ts[ps[p].worn].dispatch
        BY <1>9 DEF Bound
    <2>2. ps[p].worn \in DOMAIN ts
        BY <2>1 DEF Anchors
    <2>3. ps[p].cls # r
        BY <2>1
    <2> QED
        BY <1>3, <1>5, <2>1, <2>2, <2>3
<1>10. ASSUME NEW q \in Records
       PROVE  /\ qs[q].live = Cardinality(Of(ps, q))
              /\ qs[q].gen > 0 /\ qs[q].retired => qs[q].live > 0
    <2>1. CASE q = r
        <3>1. Of(ps, r) = {}
            BY <1>9 DEF Of, Bound
        <3> QED
            BY <1>4, <1>5, <2>1, <3>1, FS_EmptySet
    <2>2. CASE q # r
        BY <1>5, <2>2 DEF Bound
    <2> QED
        BY <2>1, <2>2
<1>11. Bound(qs, us, ps)
    BY <1>9, <1>10 DEF Bound
<1>12. TokensKept(ts, us)
    BY <1>1, <1>3 DEF TokensKept
<1>13. \A n \in Names : Named(qs, n) = Named(rs, n) \cup (IF n = name THEN {r} ELSE {})
    BY <1>1, <1>4, <1>5 DEF Named
<1> QED
    BY <1>3, <1>5, <1>8, <1>11, <1>12, <1>13 DEF Planted

(* A record loses its name; it goes at once unless proxies wear it.             *)
Withdrawn(rs, qs, ts, us, ps, r) ==
    /\ qs \in [Records -> ClassRecord] /\ us \in Seq(Token)
    /\ Anchors(qs, us) /\ Bound(qs, us, ps) /\ TokensKept(ts, us)
    /\ \A n \in Names : Named(qs, n) = Named(rs, n) \ {r}

LEMMA UnregisterFits ==
    ASSUME NEW rs \in [Records -> ClassRecord], NEW ts \in Seq(Token), NEW ps,
           Anchors(rs, ts), Bound(rs, ts, ps),
           NEW r \in Records, rs[r].gen > 0, ~rs[r].retired,
           NEW qs, qs = [rs EXCEPT ![r] = IF @.live = 0 THEN NoRecord ELSE [@ EXCEPT !.retired = TRUE]],
           NEW us, us = [ts EXCEPT ![rs[r].gen] = [@ EXCEPT !.class = FALSE,
                             !.dispatch = ts[rs[r].gen].dispatch /\ rs[r].live > 0]]
    PROVE  Withdrawn(rs, qs, ts, us, ps, r)
<1> DEFINE a == rs[r].gen
           t == [ts[a] EXCEPT !.class = FALSE, !.dispatch = ts[a].dispatch /\ rs[r].live > 0]
           c == IF rs[r].live = 0 THEN NoRecord ELSE [rs[r] EXCEPT !.retired = TRUE]
<1>1. rs[r] \in ClassRecord /\ rs[r].live \in Nat /\ rs[r].live = Cardinality(Of(ps, r)) /\ a > 0
    BY DEF ClassRecord, Bound
<1>2. a \in DOMAIN ts /\ ts[a].names = r /\ ts[a] \in Token
    BY TokenTyped DEF Anchors
<1>3. /\ t \in Token /\ t.names = r /\ t.class = FALSE
      /\ t.dispatch = (ts[a].dispatch /\ rs[r].live > 0)
    <2>1. PICK b \in BOOLEAN : b = (ts[a].dispatch /\ rs[r].live > 0)
        OBVIOUS
    <2>2. t = [ts[a] EXCEPT !.class = FALSE, !.dispatch = b]
        BY <2>1
    <2>3. ASSUME NEW x \in Token, NEW y, y = [x EXCEPT !.class = FALSE, !.dispatch = b]
          PROVE  y \in Token /\ y.names = x.names /\ y.class = FALSE /\ y.dispatch = b
        BY <2>1, <2>3 DEF Token
    <2> HIDE DEF t
    <2>4. t \in Token /\ t.names = ts[a].names /\ t.class = FALSE /\ t.dispatch = b
        BY <1>2, <2>2, <2>3
    <2> QED
        BY <1>2, <2>1, <2>4
<1>4. /\ us \in Seq(Token) /\ DOMAIN us = DOMAIN ts /\ us[a] = t
      /\ \A g \in DOMAIN ts : g # a => us[g] = ts[g]
    <2>1. us = [ts EXCEPT ![a] = t]
        OBVIOUS
    <2> HIDE DEF t, a
    <2>2. ASSUME NEW vs, vs = [ts EXCEPT ![a] = t]
          PROVE  /\ vs \in Seq(Token) /\ DOMAIN vs = DOMAIN ts /\ vs[a] = t
                 /\ \A g \in DOMAIN ts : g # a => vs[g] = ts[g]
        BY <1>2, <1>3, <2>2
    <2> QED
        BY <2>1, <2>2
<1>5. /\ c \in ClassRecord
      /\ rs[r].live = 0 => c.gen = 0 /\ c.live = 0
      /\ rs[r].live # 0 => /\ c.gen = a /\ c.kind = rs[r].kind /\ c.name = rs[r].name
                           /\ c.live = rs[r].live
      /\ c.gen > 0 => c.retired = TRUE
    <2>1. CASE rs[r].live = 0
        BY <2>1, BlankRecord
    <2>2. CASE rs[r].live # 0
        <3>1. c = [rs[r] EXCEPT !.retired = TRUE]
            BY <2>2
        <3> HIDE DEF c
        <3>2. ASSUME NEW x \in ClassRecord, NEW y, y = [x EXCEPT !.retired = TRUE]
              PROVE  /\ y \in ClassRecord /\ y.gen = x.gen /\ y.kind = x.kind /\ y.name = x.name
                     /\ y.live = x.live /\ y.retired = TRUE
            BY <3>2 DEF ClassRecord
        <3>3. /\ c \in ClassRecord /\ c.gen = rs[r].gen /\ c.kind = rs[r].kind /\ c.name = rs[r].name
              /\ c.live = rs[r].live /\ c.retired = TRUE
            BY <1>1, <3>1, <3>2
        <3> QED
            BY <2>2, <3>3
    <2> QED
        BY <2>1, <2>2
<1>6. /\ qs \in [Records -> ClassRecord] /\ qs[r] = c
      /\ \A q \in Records : q # r => qs[q] = rs[q]
    <2>1. qs = [rs EXCEPT ![r] = c]
        OBVIOUS
    <2> HIDE DEF c
    <2> QED
        BY <1>5, <2>1
<1> HIDE DEF c, t
<1>7. \A g \in DOMAIN ts : /\ us[g].names = ts[g].names
                           /\ us[g].class => ts[g].class /\ g # a
                           /\ us[g].dispatch => ts[g].dispatch /\ (g = a => rs[r].live # 0)
                           /\ ts[g].dispatch => us[g].dispatch \/ (g = a /\ rs[r].live = 0)
    <2>1. rs[r].live > 0 <=> rs[r].live # 0
        BY <1>1
    <2> SUFFICES ASSUME NEW g \in DOMAIN ts
                 PROVE  /\ us[g].names = ts[g].names
                        /\ us[g].class => ts[g].class /\ g # a
                        /\ us[g].dispatch => ts[g].dispatch /\ (g = a => rs[r].live # 0)
                        /\ ts[g].dispatch => us[g].dispatch \/ (g = a /\ rs[r].live = 0)
        OBVIOUS
    <2>2. CASE g = a
        <3>1. us[g] = t /\ ts[g].names = r
            BY <1>2, <1>4, <2>2
        <3> HIDE DEF a
        <3> QED
            BY <1>3, <2>1, <2>2, <3>1
    <2>3. CASE g # a
        BY <1>4, <2>3
    <2> QED
        BY <2>2, <2>3
<1>8. Anchors(qs, us)
    <2>1. ASSUME NEW q \in Records, qs[q].gen > 0
          PROVE  /\ qs[q].gen \in DOMAIN us /\ us[qs[q].gen].names = q
                 /\ qs[q].kind \in Kinds /\ qs[q].name \in Names
        <3>1. /\ rs[q].gen > 0 /\ qs[q].gen = rs[q].gen /\ qs[q].kind = rs[q].kind
              /\ qs[q].name = rs[q].name
            BY <1>1, <1>5, <1>6, <2>1
        <3>2. /\ rs[q].gen \in DOMAIN ts /\ ts[rs[q].gen].names = q
              /\ rs[q].kind \in Kinds /\ rs[q].name \in Names
            BY <3>1 DEF Anchors
        <3> QED
            BY <1>4, <1>7, <3>1, <3>2
    <2>2. ASSUME NEW g \in DOMAIN us
          PROVE  /\ us[g].class => qs[us[g].names].gen = g /\ ~qs[us[g].names].retired
                 /\ us[g].dispatch => qs[us[g].names].gen = g
        <3>1. g \in DOMAIN ts /\ ts[g].names \in Records
            BY <1>4, TokenTyped
        <3>2. /\ ts[g].class => rs[ts[g].names].gen = g /\ ~rs[ts[g].names].retired
              /\ ts[g].dispatch => rs[ts[g].names].gen = g
            BY <3>1 DEF Anchors
        <3>3. CASE ts[g].names = r
            BY <1>5, <1>6, <1>7, <3>1, <3>2, <3>3
        <3>4. CASE ts[g].names # r
            BY <1>6, <1>7, <3>1, <3>2, <3>4
        <3> QED
            BY <3>3, <3>4
    <2> QED
        BY <2>1, <2>2 DEF Anchors
<1>9. ASSUME NEW p \in Proxies, ps[p].st = "live"
      PROVE  /\ ps[p].cls \in Records /\ qs[ps[p].cls].gen > 0
             /\ qs[ps[p].cls].gen = ps[p].worn
             /\ us[ps[p].worn].dispatch
    <2>1. /\ ps[p].cls \in Records /\ rs[ps[p].cls].gen > 0
          /\ rs[ps[p].cls].gen = ps[p].worn /\ ts[ps[p].worn].dispatch
        BY <1>9 DEF Bound
    <2>2. ps[p].worn \in DOMAIN ts /\ ts[ps[p].worn].names = ps[p].cls
        BY <2>1 DEF Anchors
    <2>3. CASE ps[p].cls = r
        <3>1. p \in Of(ps, r)
            BY <1>9, <2>3 DEF Of
        <3>2. rs[r].live # 0
            BY <1>1, <3>1, OfFinite, FS_EmptySet
        <3> QED
            BY <1>5, <1>6, <1>7, <2>1, <2>2, <2>3, <3>2
    <2>4. CASE ps[p].cls # r
        BY <1>2, <1>6, <1>7, <2>1, <2>2, <2>4
    <2> QED
        BY <2>3, <2>4
<1>10. ASSUME NEW q \in Records
       PROVE  /\ qs[q].live = Cardinality(Of(ps, q))
              /\ qs[q].gen > 0 /\ qs[q].retired => qs[q].live > 0
    <2>1. CASE q = r
        BY <1>1, <1>5, <1>6, <2>1
    <2>2. CASE q # r
        BY <1>6, <2>2 DEF Bound
    <2> QED
        BY <2>1, <2>2
<1>11. Bound(qs, us, ps)
    BY <1>9, <1>10 DEF Bound
<1>12. TokensKept(ts, us)
    BY <1>4, <1>7 DEF TokensKept
<1>13. \A n \in Names : Named(qs, n) = Named(rs, n) \ {r}
    BY <1>5, <1>6 DEF Named
<1> QED
    BY <1>4, <1>6, <1>8, <1>11, <1>12, <1>13 DEF Withdrawn

(* The name is claimed with the registration, and given up with it.             *)
LEMMA PlantClaims ==
    ASSUME NEW rs, NEW qs, NEW cl \in [Names -> {"no", "class", "library"}], NEW tw, Claimed(rs, cl, tw),
           NEW r \in Records, NEW name \in Names,
           \A n \in Names : Named(qs, n) = Named(rs, n) \cup (IF n = name THEN {r} ELSE {}),
           NEW dl, dl = [cl EXCEPT ![name] = IF @ = "no" THEN "class" ELSE @],
           NEW dw, dw = IF cl[name] = "no" THEN tw ELSE tw \cup {name}
    PROVE  Claimed(qs, dl, dw)
<1>1. \A n \in Names \ dw : n \in Names \ tw /\ (n = name => cl[n] = "no")
    OBVIOUS
<1>2. ASSUME NEW n \in Names \ dw
      PROVE  IF dl[n] = "class" THEN \E q \in Records : Named(qs, n) = {q} ELSE Named(qs, n) = {}
    <2>1. IF cl[n] = "class" THEN \E q \in Records : Named(rs, n) = {q} ELSE Named(rs, n) = {}
        BY <1>1 DEF Claimed
    <2>2. CASE n = name
        <3>1. Named(rs, n) = {} /\ dl[n] = "class"
            BY <1>1, <2>1, <2>2
        <3>2. Named(qs, n) = {r}
            BY <2>2, <3>1
        <3> QED
            BY <3>1, <3>2
    <2>3. CASE n # name
        <3>1. Named(qs, n) = Named(rs, n) /\ dl[n] = cl[n]
            BY <2>3
        <3> QED
            BY <2>1, <3>1
    <2> QED
        BY <2>2, <2>3
<1> QED
    BY <1>2 DEF Claimed

--------------------------------------------------------------------------------
(* One lemma for each action.                                                   *)

LEMMA OnlyActs ==
    ASSUME PInv, UNCHANGED <<records, tokens, proxies, claimed, gone, doubled>>,
           Shells(acts', tokens, proxies)
    PROVE  PInv'
    BY DEF PInv, ProxiesTyped

LEMMA ActsOnTop ==
    ASSUME PInv, NEW k, Doing(k)
    PROVE  /\ acts # <<>> /\ Last(acts).k = k /\ Last(acts) \in Activity
           /\ Len(acts) \in Nat /\ Len(acts) \in 1 .. Len(acts)
           /\ Last(acts) = acts[Len(acts)]
           /\ ActFits(Last(acts), tokens, proxies)
           /\ Shells(Front(acts), tokens, proxies)
<1>1. Shells(acts, tokens, proxies) /\ acts # <<>> /\ Last(acts).k = k
    BY DEF PInv, Doing
<1>2. acts \in Seq(Activity)
    BY <1>1 DEF Shells
<1>3. Len(acts) \in Nat /\ Len(acts) > 0 /\ Last(acts) = acts[Len(acts)] /\ Last(acts) \in Activity
    BY <1>1, <1>2, ActTaken
<1>4. Len(acts) \in 1 .. Len(acts)
    BY <1>3
<1>5. ActFits(acts[Len(acts)], tokens, proxies)
    BY <1>1, <1>4 DEF Shells
<1>6. Shells(Front(acts), tokens, proxies)
    BY <1>1, ShellsPop
<1> QED
    BY <1>1, <1>3, <1>4, <1>5, <1>6

LEMMA ActTyped ==
    ASSUME NEW k \in {"call", "host", "class", "library", "new"},
           NEW what \in Kinds \cup {Nobody} \cup Nat, NEW name \in Names \cup {Nobody},
           NEW held \in SUBSET Proxies
    PROVE  /\ Act(k, what, name, held) \in Activity
           /\ Act(k, what, name, held).k = k /\ Act(k, what, name, held).what = what
           /\ Act(k, what, name, held).name = name /\ Act(k, what, name, held).held = held
    BY DEF Act, Activity

LEMMA ActBegins ==
    ASSUME PInv, UNCHANGED <<records, tokens, proxies, claimed, gone, doubled>>,
           NEW e \in Activity, acts' = Append(acts, e), e.k # "new",
           ActFits(e, tokens, proxies)
    PROVE  PInv'
<1>1. Shells(acts', tokens, proxies)
    BY ShellsPush DEF PInv
<1> QED
    BY <1>1, OnlyActs

LEMMA ActEnds ==
    ASSUME PInv, UNCHANGED <<records, tokens, proxies, claimed, gone, doubled>>,
           NEW k, Doing(k), acts' = Front(acts)
    PROVE  PInv'
<1>1. Shells(acts', tokens, proxies)
    BY ActsOnTop
<1> QED
    BY <1>1, OnlyActs

LEMMA HostEntersKeeps == ASSUME PInv, HostEnters PROVE PInv'
<1> DEFINE e == Act("call", 0, Nobody, {})
<1>0. e \in Activity /\ e.k = "call"
    BY DEF Act, Activity
<1>1. e \in Activity /\ e.k = "call" /\ acts' = Append(acts, e)
    BY <1>0 DEF HostEnters
<1> HIDE DEF e
<1>2. ActFits(e, tokens, proxies)
    BY <1>1 DEF ActFits
<1> QED
    BY <1>1, <1>2, ActBegins DEF HostEnters

LEMMA HostComesBackKeeps == ASSUME PInv, HostComesBack PROVE PInv'
<1>1. CASE Doing("call")
    BY <1>1, ActEnds DEF HostComesBack
<1>2. CASE Doing("host")
    BY <1>2, ActEnds DEF HostComesBack
<1> QED
    BY <1>1, <1>2 DEF HostComesBack, LuaActs

LEMMA BeginsClassKeeps ==
    ASSUME PInv, NEW kind \in Kinds, NEW name \in Names, BeginsClass(kind, name) PROVE PInv'
<1> DEFINE e == Act("class", kind, name, {})
<1>1. /\ e \in Activity /\ e.k = "class" /\ e.what = kind /\ e.name = name
      /\ acts' = Append(acts, e)
    BY ActTyped DEF BeginsClass
<1> HIDE DEF e
<1>2. ActFits(e, tokens, proxies)
    BY <1>1 DEF ActFits
<1> QED
    BY <1>1, <1>2, ActBegins DEF BeginsClass

LEMMA BeginsLibraryKeeps ==
    ASSUME PInv, NEW name \in Names, BeginsLibrary(name) PROVE PInv'
<1> DEFINE e == Act("library", Nobody, name, {})
<1>1. e \in Activity /\ e.k = "library" /\ e.name = name /\ acts' = Append(acts, e)
    BY ActTyped DEF BeginsLibrary
<1> HIDE DEF e
<1>2. ActFits(e, tokens, proxies)
    BY <1>1 DEF ActFits
<1> QED
    BY <1>1, <1>2, ActBegins DEF BeginsLibrary

LEMMA RegistrationFailsKeeps == ASSUME PInv, RegistrationFails PROVE PInv'
<1>1. CASE Doing("class")
    BY <1>1, ActEnds DEF RegistrationFails
<1>2. CASE Doing("library")
    BY <1>2, ActEnds DEF RegistrationFails
<1> QED
    BY <1>1, <1>2 DEF RegistrationFails

LEMMA NewFailsKeeps == ASSUME PInv, NewFails PROVE PInv'
    BY ActEnds DEF NewFails

LEMMA DispatchesKeeps ==
    ASSUME PInv, NEW held \in SUBSET Proxies, Dispatches(held) PROVE PInv'
<1> DEFINE e == Act("host", 0, Nobody, held)
<1>0. e \in Activity /\ e.k = "host"
    BY DEF Act, Activity
<1>1. e \in Activity /\ e.k = "host" /\ acts' = Append(acts, e)
    BY <1>0 DEF Dispatches
<1> HIDE DEF e
<1>2. ActFits(e, tokens, proxies)
    BY <1>1 DEF ActFits
<1> QED
    BY <1>1, <1>2, ActBegins DEF Dispatches

LEMMA LibraryPlantedKeeps == ASSUME PInv, LibraryPlanted PROVE PInv'
<1> DEFINE name == Last(acts).name
<1>1. Doing("library") /\ Claims(name, "library") /\ acts' = Front(acts)
      /\ UNCHANGED <<records, tokens, proxies, gone>>
    BY DEF LibraryPlanted
<1>2. name \in Names /\ Shells(acts', tokens, proxies)
    BY <1>1, ActsOnTop DEF ActFits
<1> HIDE DEF name
<1>3. /\ claimed \in [Names -> {"no", "class", "library"}] /\ doubled \subseteq Names
      /\ Claimed(records, claimed, doubled)
    BY DEF PInv, ProxiesTyped
<1>4. /\ claimed' \in [Names -> {"no", "class", "library"}] /\ doubled' \subseteq Names
      /\ doubled \subseteq doubled' /\ (name \notin doubled' => claimed[name] = "no")
      /\ claimed[name] = "no" => claimed'[name] = "library"
      /\ \A n \in Names : n # name => claimed'[n] = claimed[n]
    BY <1>1, <1>2, <1>3 DEF Claims
<1>5. \A n \in Names \ doubled' : claimed'[n] = "class" <=> claimed[n] = "class"
    BY <1>4
<1>6. Claimed(records, claimed', doubled')
    BY <1>3, <1>4, <1>5 DEF Claimed
<1> QED
    BY <1>1, <1>2, <1>4, <1>6 DEF PInv, ProxiesTyped

LEMMA ClassPlantedKeeps ==
    ASSUME PInv, NEW planted \in BOOLEAN, ClassPlanted(planted) PROVE PInv'
<1> DEFINE name == Last(acts).name
           kind == Last(acts).what
<1>1. Doing("class") /\ Claims(name, "class") /\ acts' = Front(acts) /\ UNCHANGED <<proxies, gone>>
    BY DEF ClassPlanted
<1>2. name \in Names /\ kind \in Kinds /\ Shells(acts', tokens, proxies)
    BY <1>1, ActsOnTop DEF ActFits
<1>3. PICK r \in Records \ Exist :
        /\ records' = [records EXCEPT ![r] = [gen |-> Len(tokens) + 1, kind |-> kind,
                             name |-> name, retired |-> FALSE, live |-> 0]]
        /\ tokens' = Append(tokens, [names |-> r, class |-> planted, dispatch |-> FALSE])
    BY DEF ClassPlanted
<1> HIDE DEF name, kind
<1>4. /\ records \in [Records -> ClassRecord] /\ tokens \in Seq(Token)
      /\ claimed \in [Names -> {"no", "class", "library"}] /\ doubled \subseteq Names
      /\ Anchors(records, tokens) /\ Bound(records, tokens, proxies)
      /\ Claimed(records, claimed, doubled)
    BY DEF PInv, ProxiesTyped
<1>5. r \in Records /\ records[r].gen = 0
    BY <1>3, <1>4 DEF Exist, ClassRecord
<1>6. /\ records' \in [Records -> ClassRecord] /\ tokens' \in Seq(Token)
      /\ Anchors(records', tokens') /\ Bound(records', tokens', proxies)
      /\ TokensKept(tokens, tokens')
      /\ \A n \in Names : Named(records', n) = Named(records, n) \cup (IF n = name THEN {r} ELSE {})
    <2>1. PICK c, t :
            /\ c = [gen |-> Len(tokens) + 1, kind |-> kind, name |-> name, retired |-> FALSE, live |-> 0]
            /\ t = [names |-> r, class |-> planted, dispatch |-> FALSE]
        OBVIOUS
    <2>3. PICK qs, us : /\ qs = [records EXCEPT ![r] = c] /\ us = Append(tokens, t)
                        /\ qs = records' /\ us = tokens'
        BY <1>3, <2>1
    <2>4. r \in Records /\ records[r].gen = 0
        BY <1>5
    <2>2. Planted(records, qs, tokens, us, proxies, r, name)
        BY <1>2, <1>4, <2>1, <2>3, <2>4, PlantFits
    <2> QED
        BY <2>2, <2>3 DEF Planted
<1>7. /\ claimed' = [claimed EXCEPT ![name] = IF @ = "no" THEN "class" ELSE @]
      /\ doubled' = IF claimed[name] = "no" THEN doubled ELSE doubled \cup {name}
    BY <1>1 DEF Claims
<1>8. claimed' \in [Names -> {"no", "class", "library"}] /\ doubled' \subseteq Names
    BY <1>2, <1>4, <1>7
<1>9. Claimed(records', claimed', doubled')
    BY <1>2, <1>4, <1>5, <1>6, <1>7, PlantClaims
<1>10. ShellsKept(acts', proxies, proxies)
    BY DEF ShellsKept
<1>11. Shells(acts', tokens', proxies)
    BY <1>2, <1>6, <1>10, ShellsStay
<1> QED
    BY <1>1, <1>4, <1>6, <1>8, <1>9, <1>11 DEF PInv, ProxiesTyped

LEMMA UnregisterKeeps == ASSUME PInv, NEW name \in Names, Unregister(name) PROVE PInv'
<1> DEFINE named == {r \in Registered : records[r].name = name}
<1>1. /\ records \in [Records -> ClassRecord] /\ tokens \in Seq(Token) /\ ProxiesTyped
      /\ claimed \in [Names -> {"no", "class", "library"}] /\ doubled \subseteq Names
      /\ Anchors(records, tokens) /\ Bound(records, tokens, proxies)
      /\ Claimed(records, claimed, doubled) /\ Shells(acts, tokens, proxies)
    BY DEF PInv, ProxiesTyped
<1>2. /\ claimed' = [claimed EXCEPT ![name] = "no"] /\ claimed[name] # "no"
      /\ UNCHANGED <<proxies, acts, gone, doubled>>
    BY DEF Unregister
<1>3. named = Named(records, name)
    BY <1>1 DEF Named, Registered, Exist
<1>4. claimed' \in [Names -> {"no", "class", "library"}]
    BY <1>1, <1>2
<1>5. CASE named = {}
    <2>1. UNCHANGED <<records, tokens>>
        BY <1>5 DEF Unregister
    <2>2. Claimed(records, claimed', doubled)
        BY <1>1, <1>2, <1>3, <1>5 DEF Claimed
    <2> QED
        BY <1>1, <1>2, <1>4, <2>1, <2>2 DEF PInv, ProxiesTyped
<1>6. CASE named # {}
    <2> DEFINE r == Newest(named)
    <2>1. r \in named
        <3>1. named \subseteq Exist
            BY DEF Registered
        <3> HIDE DEF named
        <3> QED
            BY <1>1, <1>6, <3>1, NewestIn
    <2>2. r \in Records /\ records[r].gen > 0 /\ ~records[r].retired /\ records[r].name = name
        BY <2>1 DEF Registered, Exist
    <2>3. /\ records' = [records EXCEPT ![r] =
                             IF @.live = 0 THEN NoRecord ELSE [@ EXCEPT !.retired = TRUE]]
          /\ tokens' = [tokens EXCEPT ![records[r].gen] = [@ EXCEPT !.class = FALSE,
                             !.dispatch = tokens[records[r].gen].dispatch /\ records[r].live > 0]]
        BY <1>6 DEF Unregister
    <2> HIDE DEF r
    <2>4. Withdrawn(records, records', tokens, tokens', proxies, r)
        <3>1. ASSUME NEW qs, NEW us,
                     qs = [records EXCEPT ![r] =
                              IF @.live = 0 THEN NoRecord ELSE [@ EXCEPT !.retired = TRUE]],
                     us = [tokens EXCEPT ![records[r].gen] = [@ EXCEPT !.class = FALSE,
                              !.dispatch = tokens[records[r].gen].dispatch /\ records[r].live > 0]]
              PROVE  Withdrawn(records, qs, tokens, us, proxies, r)
            BY <1>1, <2>2, <3>1, UnregisterFits
        <3> QED
            BY <2>3, <3>1
    <2>5. /\ records' \in [Records -> ClassRecord] /\ tokens' \in Seq(Token)
          /\ Anchors(records', tokens') /\ Bound(records', tokens', proxies)
          /\ TokensKept(tokens, tokens')
          /\ \A n \in Names : Named(records', n) = Named(records, n) \ {r}
        BY <2>4 DEF Withdrawn
    <2>6. r \in Named(records, name) /\ \A n \in Names : n # name => r \notin Named(records, n)
        BY <2>2 DEF Named
    <2>7. ASSUME NEW n \in Names \ doubled
          PROVE  IF claimed'[n] = "class" THEN \E q \in Records : Named(records', n) = {q}
                                          ELSE Named(records', n) = {}
        <3>1. IF claimed[n] = "class" THEN \E q \in Records : Named(records, n) = {q}
                                      ELSE Named(records, n) = {}
            BY <1>1 DEF Claimed
        <3>2. CASE n = name
            <4>1. claimed'[n] = "no"
                BY <1>1, <1>2, <3>2
            <4>2. Named(records', n) = Named(records, n) \ {r} /\ r \in Named(records, n)
                BY <2>5, <2>6, <3>2
            <4> QED
                BY <3>1, <4>1, <4>2
        <3>3. CASE n # name
            <4>1. claimed'[n] = claimed[n]
                BY <1>1, <1>2, <3>3
            <4>2. Named(records', n) = Named(records, n)
                BY <2>5, <2>6, <3>3
            <4> QED
                BY <3>1, <4>1, <4>2
        <3> QED
            BY <3>2, <3>3
    <2>8. Claimed(records', claimed', doubled)
        BY <2>7 DEF Claimed
    <2>9. Shells(acts, tokens', proxies)
        <3>1. ShellsKept(acts, proxies, proxies)
            BY DEF ShellsKept
        <3> QED
            BY <1>1, <2>5, <3>1, ShellsStay
    <2> QED
        BY <1>1, <1>2, <1>4, <2>5, <2>8, <2>9 DEF PInv, ProxiesTyped
<1> QED
    BY <1>5, <1>6

LEMMA RegisteredNamed ==
    ASSUME PInv, NEW r \in Registered
    PROVE  r \in Records /\ records[r].gen > 0 /\ records[r].gen \in DOMAIN tokens
    BY DEF PInv, Registered, Exist, Anchors

(* The same, of a step that makes an anchor.                                    *)
LEMMA AnchoredFits ==
    ASSUME PInv, NEW r \in Records, records[r].gen > 0, tokens' = Anchored(r)
    PROVE  Anchoring(records, tokens, tokens', proxies, records[r].gen)
<1>1. tokens \in Seq(Token) /\ Anchors(records, tokens) /\ Bound(records, tokens, proxies)
    BY DEF PInv, ProxiesTyped
<1>2. ASSUME NEW us, us = [tokens EXCEPT ![records[r].gen].dispatch = TRUE]
      PROVE  Anchoring(records, tokens, us, proxies, records[r].gen)
    BY <1>1, <1>2, AnchorMade
<1> QED
    BY <1>2 DEF Anchored

LEMMA BoundFits ==
    ASSUME PInv, NEW ts, ts \in Seq(Token), Anchors(records, ts), Bound(records, ts, proxies),
           NEW p \in Proxies, proxies[p].st # "live",
           NEW r \in Records, records[r].gen > 0, ts[records[r].gen].dispatch,
           Bind(p, r, records[r].gen)
    PROVE  /\ records' \in [Records -> ClassRecord] /\ proxies' \in [Proxies -> Userdata]
           /\ Anchors(records', ts) /\ Bound(records', ts, proxies')
           /\ Claimed(records', claimed, doubled)
           /\ \A q \in Proxies : q # p => proxies'[q] = proxies[q]
<1>1. /\ records \in [Records -> ClassRecord] /\ proxies \in [Proxies -> Userdata]
      /\ Claimed(records, claimed, doubled)
    BY DEF PInv, ProxiesTyped
<1>2. ASSUME NEW qs, NEW os, qs = [records EXCEPT ![r].live = @ + 1],
             os = [proxies EXCEPT ![p] = [st |-> "live", cls |-> r, worn |-> records[r].gen]]
      PROVE  Binding(records, qs, ts, os)
    BY <1>1, <1>2, BindFits
<1>3. Binding(records, records', ts, proxies')
    BY <1>2 DEF Bind
<1>4. /\ records' \in [Records -> ClassRecord] /\ proxies' \in [Proxies -> Userdata]
      /\ Alike(records, records') /\ Bound(records', ts, proxies')
    BY <1>3 DEF Binding
<1>5. Anchors(records', ts) /\ Claimed(records', claimed, doubled)
    BY <1>1, <1>4, AlikeFits
<1>6. \A q \in Proxies : q # p => proxies'[q] = proxies[q]
    BY <1>1 DEF Bind
<1> QED
    BY <1>4, <1>5, <1>6

(* What no constructor holds may become anything.                               *)
LEMMA FreeShells ==
    ASSUME PInv, NEW p \in Proxies, proxies[p].st # "shell" \/ p \notin Held,
           \A q \in Proxies : q # p => proxies'[q] = proxies[q]
    PROVE  ShellsKept(acts, proxies, proxies')
<1>1. Shells(acts, tokens, proxies)
    BY DEF PInv
<1>2. acts \in Seq(Activity)
    BY <1>1 DEF Shells
<1> SUFFICES ASSUME NEW n \in 1 .. Len(acts), acts[n].k = "new", NEW q \in acts[n].held
             PROVE  proxies'[q] = proxies[q]
    BY DEF ShellsKept
<1>3. ActFits(acts[n], tokens, proxies)
    BY <1>1 DEF Shells
<1>4. q \in Proxies /\ proxies[q].st = "shell"
    BY <1>3 DEF ActFits
<1>5. n \in DOMAIN acts
    BY <1>2
<1>6. q \in Held
    BY <1>5 DEF Held
<1>7. q # p
    BY <1>4, <1>6
<1> QED
    BY <1>4, <1>7

LEMMA PushedKeeps ==
    ASSUME PInv, NEW kind \in Kinds, NEW p \in Proxies, Pushed(kind, p) PROVE PInv'
<1> DEFINE r == Nearest(kind)
<1>1. /\ proxies[p].st = "none" /\ tokens' = Anchored(r)
      /\ Bind(p, r, records[r].gen) \/ UNCHANGED <<proxies, records>>
      /\ UNCHANGED <<claimed, acts, gone, doubled>>
    BY DEF Pushed
<1>2. r \in Registered
    BY NearestIn DEF Pushed, PInv
<1> HIDE DEF r
<1>3. r \in Records /\ records[r].gen > 0
    BY <1>2, RegisteredNamed
<1>4. Anchoring(records, tokens, tokens', proxies, records[r].gen)
    BY <1>1, <1>3, AnchoredFits
<1>5. /\ tokens' \in Seq(Token) /\ Anchors(records, tokens') /\ Bound(records, tokens', proxies)
      /\ TokensKept(tokens, tokens') /\ tokens'[records[r].gen].dispatch
    BY <1>4 DEF Anchoring
<1>6. CASE UNCHANGED <<proxies, records>>
    <2>1. ShellsKept(acts, proxies, proxies)
        BY DEF ShellsKept
    <2>2. Shells(acts, tokens', proxies)
        BY <1>5, <2>1, ShellsStay DEF PInv
    <2> QED
        BY <1>1, <1>5, <1>6, <2>2 DEF PInv, ProxiesTyped
<1>7. CASE Bind(p, r, records[r].gen)
    <2>1. /\ records' \in [Records -> ClassRecord] /\ proxies' \in [Proxies -> Userdata]
          /\ Anchors(records', tokens') /\ Bound(records', tokens', proxies')
          /\ Claimed(records', claimed, doubled)
          /\ \A q \in Proxies : q # p => proxies'[q] = proxies[q]
        <3>1. proxies[p].st # "live"
            BY <1>1
        <3> QED
            BY <1>3, <1>5, <1>7, <3>1, BoundFits
    <2>2. ShellsKept(acts, proxies, proxies')
        BY <1>1, <2>1, FreeShells
    <2>3. Shells(acts, tokens', proxies')
        BY <1>5, <2>2, ShellsStay DEF PInv
    <2> QED
        BY <1>1, <1>5, <2>1, <2>3 DEF PInv, ProxiesTyped
<1> QED
    BY <1>1, <1>6, <1>7

LEMMA NewBeginsKeeps ==
    ASSUME PInv, NEW gen \in DOMAIN tokens, NEW p \in Proxies, NewBegins(gen, p) PROVE PInv'
<1> DEFINE r == tokens[gen].names
           e == Act("new", gen, Nobody, {p})
           u == Shell(p, r)
<1>1. /\ tokens[gen].class /\ proxies[p].st = "none" /\ tokens' = Anchored(r)
      /\ proxies' = [proxies EXCEPT ![p] = u] /\ acts' = Append(acts, e)
      /\ UNCHANGED <<records, claimed, gone, doubled>>
    BY DEF NewBegins
<1>2. /\ ProxiesTyped /\ Anchors(records, tokens) /\ Shells(acts, tokens, proxies)
      /\ tokens \in Seq(Token) /\ proxies \in [Proxies -> Userdata]
    BY DEF PInv, ProxiesTyped
<1>3. r \in Records /\ gen \in Nat /\ gen > 0
    BY <1>2, TokenTyped
<1>4. records[r].gen = gen
    BY <1>1, <1>2 DEF Anchors
<1>5. u \in Userdata /\ u.st = "shell" /\ u.worn = gen
    BY <1>3, <1>4 DEF Shell, Userdata
<1>6. e \in Activity /\ e.k = "new" /\ e.what = gen /\ e.held = {p}
    BY <1>3 DEF Act, Activity
<1> HIDE DEF r, e, u
<1>7. Anchoring(records, tokens, tokens', proxies, gen)
    BY <1>1, <1>3, <1>4, AnchoredFits
<1>8. /\ tokens' \in Seq(Token) /\ Anchors(records, tokens') /\ Bound(records, tokens', proxies)
      /\ TokensKept(tokens, tokens') /\ tokens'[gen].dispatch /\ gen \in DOMAIN tokens'
    BY <1>7 DEF Anchoring
<1>9. proxies' \in [Proxies -> Userdata] /\ Bound(records, tokens', proxies')
    BY <1>1, <1>2, <1>5, <1>8, UnboundFits
<1>10. proxies'[p] = u /\ \A q \in Proxies : q # p => proxies'[q] = proxies[q]
    BY <1>1, <1>2
<1>11. ShellsKept(acts, proxies, proxies')
    BY <1>1, <1>10, FreeShells
<1>12. Shells(acts, tokens', proxies')
    BY <1>2, <1>8, <1>11, ShellsStay
<1>13. ActFits(e, tokens', proxies')
    BY <1>5, <1>6, <1>8, <1>10 DEF ActFits
<1>14. \A n \in 1 .. Len(acts) : acts[n].k = "new" => acts[n].held \cap e.held = {}
    <2>1. \A n \in 1 .. Len(acts) : ActFits(acts[n], tokens, proxies)
        BY <1>2 DEF Shells
    <2> QED
        BY <1>1, <1>6, <2>1 DEF ActFits
<1>15. Shells(acts', tokens', proxies')
    BY <1>1, <1>6, <1>12, <1>13, <1>14, ShellsPush
<1> QED
    BY <1>1, <1>2, <1>8, <1>9, <1>15 DEF PInv, ProxiesTyped

LEMMA NewBindsKeeps == ASSUME PInv, NewBinds PROVE PInv'
<1> DEFINE f == Last(acts)
           s == Front(acts)
           r == tokens[f.what].names
           e == Act("host", 0, Nobody, f.held)
<1>1. /\ Doing("new") /\ tokens[f.what].class
      /\ acts' = Append(s, e) /\ UNCHANGED <<tokens, claimed, gone, doubled>>
    BY DEF NewBinds
<1>2. PICK p \in f.held : Bind(p, r, proxies[p].worn)
    BY DEF NewBinds
<1>3. /\ ProxiesTyped /\ Anchors(records, tokens) /\ Shells(acts, tokens, proxies)
      /\ tokens \in Seq(Token) /\ Bound(records, tokens, proxies)
    BY DEF PInv, ProxiesTyped
<1>4. /\ acts # <<>> /\ f.k = "new" /\ f \in Activity /\ Len(acts) \in 1 .. Len(acts)
      /\ f = acts[Len(acts)] /\ ActFits(f, tokens, proxies) /\ Shells(s, tokens, proxies)
    BY <1>1, ActsOnTop
<1>5. /\ f.what \in DOMAIN tokens /\ tokens[f.what].dispatch /\ f.held = {p} /\ p \in Proxies
      /\ proxies[p].st = "shell" /\ proxies[p].worn = f.what
    BY <1>1, <1>2, <1>4 DEF ActFits
<1>6. r \in Records /\ records[r].gen = f.what /\ records[r].gen > 0
    BY <1>1, <1>3, <1>5, TokenTyped DEF Anchors
<1>7. e \in Activity /\ e.k = "host"
    BY <1>4 DEF Act, Activity
<1>8. /\ acts \in Seq(Activity) /\ s \in Seq(Activity) /\ Len(s) = Len(acts) - 1
      /\ \A n \in 1 .. Len(acts) - 1 : s[n] = acts[n]
    <2>1. acts \in Seq(Activity)
        BY <1>3 DEF Shells
    <2> QED
        BY <1>4, <2>1, ActTaken
<1> HIDE DEF f, s, r, e
<1>9. /\ records' \in [Records -> ClassRecord] /\ proxies' \in [Proxies -> Userdata]
      /\ Anchors(records', tokens) /\ Bound(records', tokens, proxies')
      /\ Claimed(records', claimed, doubled)
      /\ \A q \in Proxies : q # p => proxies'[q] = proxies[q]
    <2>1. proxies[p].st # "live" /\ Bind(p, r, records[r].gen) /\ tokens[records[r].gen].dispatch
        BY <1>2, <1>5, <1>6
    <2> QED
        BY <1>3, <1>5, <1>6, <2>1, BoundFits
<1>10. ShellsKept(s, proxies, proxies')
    <2> SUFFICES ASSUME NEW n \in 1 .. Len(s), s[n].k = "new", NEW q \in s[n].held
                 PROVE  proxies'[q] = proxies[q]
        BY DEF ShellsKept
    <2>1. Len(acts) \in Nat
        BY <1>8
    <2>2. n \in 1 .. Len(acts) /\ n # Len(acts) /\ acts[n] = s[n]
        BY <1>8, <2>1
    <2>3. acts[n].held \cap f.held = {}
        BY <1>3, <1>4, <2>2 DEF Shells
    <2>4. ActFits(s[n], tokens, proxies)
        BY <1>4 DEF Shells
    <2>5. q \in Proxies
        BY <2>4 DEF ActFits
    <2> QED
        BY <1>5, <1>9, <2>2, <2>3, <2>5
<1>11. TokensKept(tokens, tokens)
    BY DEF TokensKept
<1>12. Shells(s, tokens, proxies')
    BY <1>4, <1>10, <1>11, ShellsStay
<1>13. ActFits(e, tokens, proxies')
    BY <1>7 DEF ActFits
<1>14. Shells(acts', tokens, proxies')
    BY <1>1, <1>7, <1>12, <1>13, ShellsPush
<1> QED
    BY <1>1, <1>3, <1>9, <1>14 DEF PInv, ProxiesTyped

(* A proxy goes: the magic is taken off it, or it is collected.                 *)
LEMMA SettlesKeeps ==
    ASSUME PInv, NEW p \in Proxies, proxies[p].st = "live", NEW rest \in Userdata, rest.st # "live",
           Settles(p, rest), UNCHANGED <<claimed, acts, gone, doubled>>
    PROVE  PInv'
<1> DEFINE r == proxies[p].cls
           last == records[r].retired /\ records[r].live = 1
<1>1. /\ records \in [Records -> ClassRecord] /\ proxies \in [Proxies -> Userdata]
      /\ tokens \in Seq(Token) /\ Anchors(records, tokens) /\ Bound(records, tokens, proxies)
      /\ Claimed(records, claimed, doubled) /\ Shells(acts, tokens, proxies)
    BY DEF PInv, ProxiesTyped
<1>2. PICK l : l = last
    OBVIOUS
<1>3. /\ proxies' = [proxies EXCEPT ![p] = rest]
      /\ records' = [records EXCEPT ![r] = IF l THEN NoRecord
                                           ELSE [@ EXCEPT !.live = records[r].live - 1]]
      /\ tokens' = [tokens EXCEPT ![records[r].gen].dispatch = @ /\ ~l]
    BY <1>2 DEF Settles
<1>4. r = proxies[p].cls /\ l = (records[r].retired /\ records[r].live = 1)
    BY <1>2
<1> HIDE DEF r, last
<1>5. Settled(records, records', tokens, tokens', proxies')
    <2>1. ASSUME NEW qs, NEW us, NEW os, os = [proxies EXCEPT ![p] = rest],
                 qs = [records EXCEPT ![r] = IF l THEN NoRecord
                                             ELSE [@ EXCEPT !.live = records[r].live - 1]],
                 us = [tokens EXCEPT ![records[r].gen].dispatch = @ /\ ~l]
          PROVE  Settled(records, qs, tokens, us, os)
        BY <1>1, <1>4, <2>1, SettlesFits
    <2> QED
        BY <1>3, <2>1
<1>6. /\ records' \in [Records -> ClassRecord] /\ tokens' \in Seq(Token)
      /\ proxies' \in [Proxies -> Userdata]
      /\ Anchors(records', tokens') /\ Bound(records', tokens', proxies')
      /\ TokensKept(tokens, tokens')
      /\ \A n : Named(records', n) = Named(records, n)
    BY <1>5 DEF Settled
<1>7. Claimed(records', claimed, doubled)
    BY <1>1, <1>6 DEF Claimed
<1>8. \A q \in Proxies : q # p => proxies'[q] = proxies[q]
    BY <1>1, <1>3
<1>9. ShellsKept(acts, proxies, proxies')
    BY <1>8, FreeShells
<1>10. Shells(acts, tokens', proxies')
    BY <1>1, <1>6, <1>9, ShellsStay
<1> QED
    BY <1>6, <1>7, <1>10 DEF PInv, ProxiesTyped

LEMMA BlankProxy ==
    /\ NoProxy \in Userdata /\ NoProxy.st = "none"
    /\ [NoProxy EXCEPT !.st = "shell"] \in Userdata /\ [NoProxy EXCEPT !.st = "shell"].st = "shell"
    BY DEF NoProxy, Userdata

LEMMA CollectedKeeps == ASSUME PInv, NEW p \in Proxies, Collected(p) PROVE PInv'
<1>1. p \notin Held /\ UNCHANGED <<claimed, acts, gone, doubled>>
    BY DEF Collected
<1>2. CASE proxies[p].st = "live" /\ Settles(p, NoProxy)
    BY <1>1, <1>2, BlankProxy, SettlesKeeps
<1>3. CASE /\ proxies[p].st = "shell" /\ proxies' = [proxies EXCEPT ![p] = NoProxy]
           /\ UNCHANGED <<records, tokens>>
    <2>1. /\ Bound(records, tokens, proxies) /\ proxies \in [Proxies -> Userdata]
          /\ Shells(acts, tokens, proxies)
        BY DEF PInv, ProxiesTyped
    <2>2. proxies' \in [Proxies -> Userdata] /\ Bound(records, tokens, proxies')
        BY <1>3, <2>1, BlankProxy, UnboundFits
    <2>3. \A q \in Proxies : q # p => proxies'[q] = proxies[q]
        BY <1>3, <2>1
    <2>4. ShellsKept(acts, proxies, proxies') /\ TokensKept(tokens, tokens)
        BY <1>1, <2>3, FreeShells DEF TokensKept
    <2>5. Shells(acts, tokens, proxies')
        BY <2>1, <2>4, ShellsStay
    <2> QED
        BY <1>1, <1>3, <2>2, <2>5 DEF PInv, ProxiesTyped
<1> QED
    BY <1>2, <1>3 DEF Collected

LEMMA StrippedKeeps == ASSUME PInv, NEW p \in Proxies, Stripped(p) PROVE PInv'
    BY BlankProxy, SettlesKeeps DEF Stripped

LEMMA EmptyRegistry ==
    ASSUME NEW rs, NEW ts, NEW ps, \A r \in Records : rs[r].gen = 0 /\ rs[r].live = 0,
           \A p \in Proxies : ps[p].st = "none",
           \A g \in DOMAIN ts : ts[g].class = FALSE /\ ts[g].dispatch = FALSE
    PROVE  Anchors(rs, ts) /\ Bound(rs, ts, ps)
<1>1. \A r : Of(ps, r) = {}
    BY DEF Of
<1>2. Cardinality({}) = 0
    BY FS_EmptySet
<1>3. Anchors(rs, ts)
    BY DEF Anchors
<1>4. Bound(rs, ts, ps)
    BY <1>1, <1>2 DEF Bound
<1> QED
    BY <1>3, <1>4

(* Everything goes at once.                                                     *)
LEMMA GoneKeeps ==
    ASSUME PInv, Gone, acts' \in Seq(Activity), \A n \in 1 .. Len(acts') : acts'[n].k = "class" /\ acts'[n].what \in Kinds /\ acts'[n].name \in Names
    PROVE  PInv'
<1>1. /\ tokens \in Seq(Token) /\ doubled' = doubled /\ gone' = TRUE
      /\ records' = [r \in Records |-> NoRecord]
      /\ tokens' = [g \in DOMAIN tokens |-> [tokens[g] EXCEPT !.class = FALSE, !.dispatch = FALSE]]
      /\ proxies' = [p \in Proxies |-> NoProxy]
      /\ claimed' = [n \in Names |-> "no"]
    BY DEF PInv, ProxiesTyped, Gone
<1>2. /\ records' \in [Records -> ClassRecord] /\ proxies' \in [Proxies -> Userdata]
      /\ claimed' \in [Names -> {"no", "class", "library"}]
      /\ \A r \in Records : records'[r].gen = 0
      /\ \A p \in Proxies : proxies'[p].st = "none"
    BY <1>1, BlankRecord, BlankProxy
<1>3. \A g \in DOMAIN tokens : /\ tokens'[g] \in Token
                               /\ tokens'[g].class = FALSE /\ tokens'[g].dispatch = FALSE
    <2> SUFFICES ASSUME NEW g \in DOMAIN tokens
                 PROVE  /\ tokens'[g] \in Token
                        /\ tokens'[g].class = FALSE /\ tokens'[g].dispatch = FALSE
        OBVIOUS
    <2>1. tokens'[g] = [tokens[g] EXCEPT !.class = FALSE, !.dispatch = FALSE] /\ tokens[g] \in Token
        BY <1>1, TokenTyped
    <2>2. ASSUME NEW x \in Token, NEW y, y = [x EXCEPT !.class = FALSE, !.dispatch = FALSE]
          PROVE  y \in Token /\ y.class = FALSE /\ y.dispatch = FALSE
        BY <2>2 DEF Token
    <2> QED
        BY <2>1, <2>2
<1>4. tokens' \in Seq(Token) /\ DOMAIN tokens' = DOMAIN tokens
    <2>1. DOMAIN tokens = 1 .. Len(tokens) /\ Len(tokens) \in Nat
        BY <1>1, TokenTyped
    <2>2. tokens' \in [1 .. Len(tokens) -> Token]
        BY <1>1, <1>3, <2>1
    <2>3. tokens' \in Seq(Token)
        BY <2>1, <2>2, SeqDef
    <2> QED
        BY <1>1, <2>3
<1>5. Anchors(records', tokens') /\ Bound(records', tokens', proxies')
    <2>1. \A r \in Records : records'[r].gen = 0 /\ records'[r].live = 0
        BY <1>1, BlankRecord
    <2> QED
        BY <1>2, <1>3, <1>4, <2>1, EmptyRegistry
<1>6. Claimed(records', claimed', doubled')
    <2>1. \A n : Named(records', n) = {}
        BY <1>2 DEF Named
    <2> QED
        BY <1>1, <2>1 DEF Claimed
<1>7. Shells(acts', tokens', proxies')
    BY DEF Shells, ActFits
<1> QED
    BY <1>1, <1>2, <1>4, <1>5, <1>6, <1>7 DEF PInv, ProxiesTyped

LEMMA ClosesKeeps == ASSUME PInv, Closes PROVE PInv'
<1>1. Gone /\ acts' = acts /\ \A n \in DOMAIN acts : acts[n].k = "class"
    BY DEF Closes
<1>2. acts \in Seq(Activity) /\ \A n \in 1 .. Len(acts) : ActFits(acts[n], tokens, proxies)
    BY DEF PInv, Shells
<1>3. \A n \in 1 .. Len(acts) : acts[n].k = "class" /\ acts[n].what \in Kinds /\ acts[n].name \in Names
    BY <1>1, <1>2 DEF ActFits
<1> QED
    BY <1>1, <1>2, <1>3, GoneKeeps

LEMMA AbandonedKeeps == ASSUME PInv, Abandoned PROVE PInv'
<1>1. Gone /\ acts' = <<>>
    BY DEF Abandoned
<1>2. acts' \in Seq(Activity) /\ Len(acts') = 0
    BY <1>1
<1> QED
    BY <1>1, <1>2, GoneKeeps

LEMMA ProxiesStart == ASSUME ProxiesInit PROVE PInv
<1>1. /\ \A r \in Records : records[r] = NoRecord
      /\ records \in [Records -> ClassRecord]
    BY BlankRecord DEF ProxiesInit
<1>2. /\ \A p \in Proxies : proxies[p] = NoProxy
      /\ proxies \in [Proxies -> Userdata]
    BY BlankProxy DEF ProxiesInit
<1>3. /\ tokens = <<>> /\ acts = <<>> /\ tokens \in Seq(Token) /\ acts \in Seq(Activity)
      /\ DOMAIN tokens = {} /\ Len(acts) = 0
    BY DEF ProxiesInit
<1>4. /\ claimed \in [Names -> {"no", "class", "library"}] /\ \A n \in Names : claimed[n] = "no"
      /\ gone \in BOOLEAN /\ doubled = {}
    BY DEF ProxiesInit
<1>5. \A n : Named(records, n) = {}
    BY <1>1, BlankRecord DEF Named
<1>6. Anchors(records, tokens) /\ Bound(records, tokens, proxies)
    <2>1. \A r \in Records : records[r].gen = 0 /\ records[r].live = 0
        BY <1>1, BlankRecord
    <2>2. \A p \in Proxies : proxies[p].st = "none"
        BY <1>2, BlankProxy
    <2> QED
        BY <1>3, <2>1, <2>2, EmptyRegistry
<1>7. Claimed(records, claimed, doubled) /\ Shells(acts, tokens, proxies)
    BY <1>3, <1>4, <1>5 DEF Claimed, Shells
<1> QED
    BY <1>1, <1>2, <1>3, <1>4, <1>6, <1>7 DEF PInv, ProxiesTyped

LEMMA ProxiesStep == ASSUME PInv, [ProxiesNext]_proxyVars PROVE PInv'
<1>1. CASE HostEnters \/ HostComesBack
    BY <1>1, HostEntersKeeps, HostComesBackKeeps
<1>2. CASE \E n \in Names : \/ BeginsLibrary(n) \/ Unregister(n)
                            \/ \E k \in Kinds : BeginsClass(k, n)
    BY <1>2, BeginsLibraryKeeps, UnregisterKeeps, BeginsClassKeeps
<1>3. CASE RegistrationFails \/ LibraryPlanted
    BY <1>3, RegistrationFailsKeeps, LibraryPlantedKeeps
<1>4. CASE \E planted \in BOOLEAN : ClassPlanted(planted)
    BY <1>4, ClassPlantedKeeps
<1>5. CASE \E k \in Kinds, p \in Proxies : Pushed(k, p)
    BY <1>5, PushedKeeps
<1>6. CASE \E g \in DOMAIN tokens : \/ StaticCalled(g)
                                    \/ \E p \in Proxies : NewBegins(g, p)
                                    \/ \E held \in SUBSET Proxies : MethodCalled(g, held)
    <2>1. CASE \E g \in DOMAIN tokens : StaticCalled(g)
        BY <2>1, DispatchesKeeps DEF StaticCalled
    <2>2. CASE \E g \in DOMAIN tokens : \E p \in Proxies : NewBegins(g, p)
        BY <2>2, NewBeginsKeeps
    <2>3. CASE \E g \in DOMAIN tokens : \E held \in SUBSET Proxies : MethodCalled(g, held)
        BY <2>3, DispatchesKeeps DEF MethodCalled
    <2> QED
        BY <1>6, <2>1, <2>2, <2>3
<1>7. CASE NewFails \/ NewBinds
    BY <1>7, NewFailsKeeps, NewBindsKeeps
<1>8. CASE \E p, q \in Proxies : EqualityCalled(p, q)
    BY <1>8, DispatchesKeeps DEF EqualityCalled
<1>9. CASE \E p \in Proxies : Collected(p) \/ Stripped(p)
    BY <1>9, CollectedKeeps, StrippedKeeps
<1>10. CASE Closes \/ Abandoned
    BY <1>10, ClosesKeeps, AbandonedKeeps
<1>11. CASE UNCHANGED proxyVars
    <2>1. /\ UNCHANGED <<records, tokens, proxies, claimed, gone, doubled>>
          /\ acts' = acts
        BY <1>11 DEF proxyVars
    <2>2. Shells(acts', tokens, proxies)
        BY <2>1 DEF PInv
    <2> QED
        BY <2>1, <2>2, OnlyActs
<1> QED
    BY <1>1, <1>2, <1>3, <1>4, <1>5, <1>6, <1>7, <1>8, <1>9, <1>10, <1>11 DEF ProxiesNext

--------------------------------------------------------------------------------
(* The theorems.                                                                *)

(* Tokens and records name each other, records count the proxies they have, and *)
(* what a constructor holds while PHP code runs is still its own shell.         *)
THEOREM RegistryHolds == ProxiesSpec => []PInv
    BY ProxiesStart, ProxiesStep, PTL DEF ProxiesSpec

(* Every variable of Proxies keeps its type, and no record counts more proxies  *)
(* than there are userdata.                                                     *)
THEOREM ProxiesAreTyped == ProxiesSpec => []ProxiesTypeOK
<1>1. ASSUME PInv PROVE ProxiesTypeOK
    <2>1. /\ tokens \in Seq(Token) /\ records \in [Records -> ClassRecord]
          /\ proxies \in [Proxies -> Userdata]
          /\ Anchors(records, tokens) /\ Bound(records, tokens, proxies)
        BY <1>1 DEF PInv, ProxiesTyped
    <2>2. Len(tokens) \in Nat /\ DOMAIN tokens = 1 .. Len(tokens)
        BY <2>1, TokenTyped
    <2>3. ASSUME NEW r \in Records PROVE records[r].gen \in 0 .. Len(tokens)
        <3>1. records[r].gen \in Nat
            BY <2>1 DEF ClassRecord
        <3> QED
            BY <2>1, <2>2, <3>1 DEF Anchors
    <2>4. ASSUME NEW r \in Records PROVE records[r].live \in 0 .. Cardinality(Proxies)
        BY <2>1, OfFinite DEF Bound
    <2>5. \A p \in Proxies : proxies[p].st \in {"none", "shell", "live"}
        BY <2>1 DEF Userdata
    <2>6. \A g \in DOMAIN tokens : tokens[g] \in [names : Records, class : BOOLEAN, dispatch : BOOLEAN]
        BY <2>1, TokenTyped DEF Token
    <2>7. /\ claimed \in [Names -> {"no", "class", "library"}]
          /\ gone \in BOOLEAN /\ doubled \subseteq Names
        BY <1>1 DEF PInv, ProxiesTyped
    <2> QED
        BY <2>3, <2>4, <2>5, <2>6, <2>7 DEF ProxiesTypeOK
<1> QED
    BY <1>1, RegistryHolds, PTL

(* Whatever a script still holds of a class leads to that class's own record,   *)
(* retired or not, and never to another that was allocated in its place; every  *)
(* proxy wears its record's metatable and is counted by it; and a name is       *)
(* claimed exactly while something is registered under it.                      *)
THEOREM DispatchIsSafe == ProxiesSpec => []DispatchReadsALiveRecord
<1>1. ASSUME PInv PROVE DispatchReadsALiveRecord
    <2>1. /\ tokens \in Seq(Token) /\ records \in [Records -> ClassRecord]
          /\ Anchors(records, tokens) /\ Bound(records, tokens, proxies)
          /\ Claimed(records, claimed, doubled)
        BY <1>1 DEF PInv, ProxiesTyped
    <2>2. TokensNameTheirOwn
        BY <2>1 DEF TokensNameTheirOwn, Anchors
    <2>3. RecordsCountTheirProxies
        <3>1. \A r : {p \in LiveOnes : proxies[p].cls = r} = Of(proxies, r)
            BY DEF LiveOnes, Of
        <3>2. \A r \in Exist : r \in Records /\ records[r].gen > 0
            BY DEF Exist
        <3>3. \A p \in LiveOnes : p \in Proxies /\ proxies[p].st = "live"
            BY DEF LiveOnes
        <3>4. \A p \in LiveOnes : /\ proxies[p].cls \in Exist
                                  /\ records[proxies[p].cls].gen = proxies[p].worn
                                  /\ tokens[proxies[p].worn].dispatch
            BY <2>1, <3>3 DEF Bound, Exist
        <3> QED
            BY <2>1, <3>1, <3>2, <3>4 DEF Bound, RecordsCountTheirProxies
    <2>4. ClaimsNameARegistration
        <3>1. \A n : {r \in Registered : records[r].name = n} = Named(records, n)
            BY DEF Named, Registered, Exist
        <3>2. \A q : Cardinality({q}) = 1
            BY FS_Singleton
        <3>3. Cardinality({}) = 0
            BY FS_EmptySet
        <3> SUFFICES ASSUME NEW n \in Names \ doubled
                     PROVE  Cardinality(Named(records, n)) = IF claimed[n] = "class" THEN 1 ELSE 0
            BY <3>1 DEF ClaimsNameARegistration
        <3>4. IF claimed[n] = "class" THEN \E r \in Records : Named(records, n) = {r}
                                      ELSE Named(records, n) = {}
            BY <2>1 DEF Claimed
        <3> QED
            BY <3>2, <3>3, <3>4
    <2> QED
        BY <2>2, <2>3, <2>4 DEF DispatchReadsALiveRecord
<1> QED
    BY <1>1, RegistryHolds, PTL

--------------------------------------------------------------------------------
(* Theorems about IrqFlag, for any number of calls, trips and interrupts.       *)
(*                                                                              *)
(* A thread may load any store that is not older than what it has seen, so each *)
(* property is a bound on where in the two sequences of stores a value can      *)
(* still lie: a budget's raise lies no further than the view the slot's lock    *)
(* carries, hence behind the owner once it has disarmed under that lock; a trip *)
(* that was made lies in front of every flag the boundary may load; and what a  *)
(* flag's release carries lies after the last clearing of the reason.           *)

Places == {"idle", "lua", "trip", "sample", "boundary", "raise", "unfenced",
           "left", "disarmed"}
Views  == [flag : 1..Len(flag), reason : 1..Len(reason)]
Raisers == {"owner", "watchdog"}

Typed ==
  /\ flag \in Seq([up : BOOLEAN, carries : Nat]) /\ Len(flag) # 0
  /\ reason \in Seq(IrqReasons) /\ Len(reason) # 0
  /\ \A i \in 1..Len(flag) : flag[i].carries \in 1..Len(reason)
  /\ seen \in [Threads -> Views]
  /\ lock \in [holder : Threads \cup {"nobody"}, carries : Views]
  /\ writing \in [Threads -> IrqReasons]
  /\ left \in [Threads -> Nat]
  /\ owner \in [at : Places, call : Nat, uncleared : SUBSET {"flag", "reason"},
                got : IrqReasons \cup {"ok"}]
  /\ tripped \in BOOLEAN

\* The thread between the two stores of a budget's raise holds the slot's lock,
\* and the owner is in the evaluation that trips.
HolderWrites ==
  /\ lock.holder # "foreign"
  /\ \A t \in Raisers : /\ writing[t] \in Budgets \cup {"none"}
                        /\ (writing[t] # "none") <=> (lock.holder = t)
  /\ writing["foreign"] \in {"none", "abort"}
  /\ writing["owner"] # "none" => owner.at \in {"trip", "boundary"}
  /\ owner.at = "trip" => writing["owner"] # "none"

InCall == owner.at \notin {"idle", "disarmed"}

\* The bytes are cleared when the slot is disarmed, and no evaluation runs then.
DisarmedIsQuiet ==
  /\ (owner.uncleared = {}) <=> (owner.at # "disarmed")
  /\ ~InCall => lock.holder = "nobody"

\* A writer has seen the reason it has stored.
StoredReason ==
  \A t \in Threads : writing[t] # "none" => reason[seen[t].reason] = writing[t]

\* Store i raises the flag, and not for interrupt().
BudgetUp(i) == flag[i].up /\ reason[flag[i].carries] # "abort"

\* The slot's lock carries every raise made for a budget ...
BudgetBehindLock == \A i \in 1..Len(flag) : BudgetUp(i) => i <= lock.carries.flag
\* ... so that the owner has seen them all once it is disarmed, and has stored
\* over them once it has cleared the flag.
BudgetBehindOwner ==
  ~InCall => \A i \in 1..Len(flag) : BudgetUp(i) =>
     /\ i <= seen["owner"].flag
     /\ "flag" \notin owner.uncleared => i < seen["owner"].flag

\* Whichever store from the nth on a load returns, the flag is up.
AllUpFrom(n) == \A i \in n..Len(flag) : flag[i].up
\* After a trip, the flag is up wherever the lock's next holder may load it ...
TripBehindLock == InCall /\ tripped => AllUpFrom(lock.carries.flag)
\* ... and wherever the boundary may, which has held the lock.
TripBehindBoundary == owner.at = "boundary" /\ tripped => AllUpFrom(seen["owner"].flag)

NoAborts == left["foreign"] = MaxAborts
\* Whichever store from the jth on a load returns, the reason says something.
NamesAReason(j) == \A k \in j..Len(reason) : reason[k] # "none"
\* As long as interrupt() has not been called, nothing is stored in its name.
AbortsCounted ==
  /\ left["foreign"] <= MaxAborts
  /\ NoAborts => /\ writing["foreign"] = "none"
                 /\ \A k \in 1..Len(reason) : reason[k] # "abort"
\* A raise the owner may load carries a view in which the reason is named ...
FlagNames == InCall /\ NoAborts =>
   \A i \in seen["owner"].flag..Len(flag) : flag[i].up => NamesAReason(flag[i].carries)
\* ... because its writer had stored one, after the last clearing.
WriterNames == \A t \in Raisers : writing[t] # "none" => NamesAReason(seen[t].reason)
\* A fenced poll has taken such a view over.
RaiseNames == owner.at = "raise" /\ NoAborts => NamesAReason(seen["owner"].reason)


-----------------------------------------------------------------------------
(* What the operators of the model do                                      *)

LEMMA Appended ==
    ASSUME NEW S, NEW s \in Seq(S), NEW e \in S
    PROVE  /\ Append(s, e) \in Seq(S)
           /\ Len(s) \in Nat /\ Len(Append(s, e)) = Len(s) + 1
           /\ \A i \in 1..Len(s) : Append(s, e)[i] = s[i]
           /\ Append(s, e)[Len(s) + 1] = e
OBVIOUS

LEMMA LenTypes ==
    ASSUME Typed
    PROVE  Len(flag) \in Nat \ {0} /\ Len(reason) \in Nat \ {0}
BY DEF Typed

\* The stores a step appends to, entry by entry.
Grown ==
  /\ Len(flag') \in {Len(flag), Len(flag) + 1}
  /\ Len(reason') \in {Len(reason), Len(reason) + 1}
  /\ \A i \in 1..Len(flag) : flag'[i] = flag[i]
  /\ \A k \in 1..Len(reason) : reason'[k] = reason[k]

LEMMA OldViews ==
    ASSUME Typed, Grown
    PROVE  \A v \in Views : v \in Views'
BY LenTypes DEF Grown, Views

LEMMA SyncedView ==
    ASSUME Typed, NEW t \in Threads
    PROVE  /\ Synced(t) \in [Threads -> Views]
           /\ \A u \in Threads : u # t => Synced(t)[u] = seen[u]
           /\ Synced(t)[t].flag >= seen[t].flag
           /\ Synced(t)[t].flag >= lock.carries.flag
           /\ Synced(t)[t].reason >= seen[t].reason
<1>1. seen[t] \in Views /\ lock.carries \in Views /\ seen \in [Threads -> Views]
    BY DEF Typed
<1>2. Joined(seen[t], lock.carries) \in Views
    BY <1>1, LenTypes DEF Views, Joined, Later
<1>3. Synced(t) = [seen EXCEPT ![t] = Joined(seen[t], lock.carries)]
    BY DEF Synced
<1>4. /\ Joined(seen[t], lock.carries).flag >= seen[t].flag
      /\ Joined(seen[t], lock.carries).flag >= lock.carries.flag
      /\ Joined(seen[t], lock.carries).reason >= seen[t].reason
    BY <1>1, LenTypes DEF Views, Joined, Later
<1> QED
    BY <1>1, <1>2, <1>3, <1>4

LEMMA ReasonStored ==
    ASSUME Typed, NEW t \in Threads, NEW why \in IrqReasons,
           NEW view \in [Threads -> Views], StoreReason(t, why, view)
    PROVE  /\ reason' \in Seq(IrqReasons) /\ Len(reason') = Len(reason) + 1
           /\ \A k \in 1..Len(reason) : reason'[k] = reason[k]
           /\ reason'[Len(reason) + 1] = why
           /\ seen' \in [Threads -> [flag : 1..Len(flag), reason : 1..Len(reason')]]
           /\ \A u \in Threads : u # t => seen'[u] = view[u]
           /\ seen'[t].flag = view[t].flag /\ seen'[t].reason = Len(reason')
<1>1. /\ reason' = Append(reason, why) /\ reason \in Seq(IrqReasons)
      /\ seen' = [view EXCEPT ![t] = [view[t] EXCEPT !.reason = Len(reason) + 1]]
    BY DEF StoreReason, Typed
<1>2. /\ reason' \in Seq(IrqReasons) /\ Len(reason') = Len(reason) + 1
      /\ \A k \in 1..Len(reason) : reason'[k] = reason[k]
      /\ reason'[Len(reason) + 1] = why
    BY <1>1, Appended
<1>3. \A v \in Views : v \in [flag : 1..Len(flag), reason : 1..Len(reason')]
    BY <1>2, LenTypes DEF Views
<1>a. \A n : \A v \in Views :
        /\ [v EXCEPT !.reason = n] = [flag |-> v.flag, reason |-> n]
        /\ v.flag \in 1..Len(flag)
    BY DEF Views
<1>b. view[t] \in Views
    OBVIOUS
<1>4. /\ [view[t] EXCEPT !.reason = Len(reason) + 1]
            \in [flag : 1..Len(flag), reason : 1..Len(reason')]
      /\ [view[t] EXCEPT !.reason = Len(reason) + 1]
            = [flag |-> view[t].flag, reason |-> Len(reason')]
    BY <1>2, <1>a, <1>b, LenTypes
<1>5. seen' \in [Threads -> [flag : 1..Len(flag), reason : 1..Len(reason')]]
    BY <1>1, <1>3, <1>4
<1> QED
    BY <1>1, <1>2, <1>4, <1>5

LEMMA FlagStored ==
    ASSUME Typed, NEW t \in Threads, NEW up \in BOOLEAN,
           NEW c \in 1..Len(reason), StoreFlag(t, up, c), reason' = reason
    PROVE  /\ flag' \in Seq([up : BOOLEAN, carries : Nat])
           /\ Len(flag') = Len(flag) + 1
           /\ \A i \in 1..Len(flag) : flag'[i] = flag[i]
           /\ flag'[Len(flag) + 1] = [up |-> up, carries |-> c]
           /\ \A i \in 1..Len(flag') : flag'[i].carries \in 1..Len(reason')
           /\ seen' \in [Threads -> Views']
           /\ \A u \in Threads : u # t => seen'[u] = seen[u]
           /\ seen'[t].reason = seen[t].reason /\ seen'[t].flag = Len(flag')
<1> DEFINE e == [up |-> up, carries |-> c]
<1>1. /\ flag' = Append(flag, e) /\ flag \in Seq([up : BOOLEAN, carries : Nat])
      /\ seen' = [seen EXCEPT ![t] = [seen[t] EXCEPT !.flag = Len(flag) + 1]]
    BY DEF StoreFlag, Typed
<1>2. e \in [up : BOOLEAN, carries : Nat] /\ e.carries = c
    BY LenTypes
<1> HIDE DEF e
<1>3. /\ flag' \in Seq([up : BOOLEAN, carries : Nat]) /\ Len(flag') = Len(flag) + 1
      /\ \A k \in 1..Len(flag) : flag'[k] = flag[k]
      /\ flag'[Len(flag) + 1] = e
    BY <1>1, <1>2, Appended
<1>4. \A i \in 1..Len(flag') : flag'[i].carries \in 1..Len(reason')
    <2> TAKE i \in 1..Len(flag')
    <2>1. i \in 1..Len(flag) \/ i = Len(flag) + 1
        BY <1>3, LenTypes
    <2> QED
        BY <1>2, <1>3, <2>1 DEF Typed
<1>5. \A v \in Views : v \in [flag : 1..Len(flag'), reason : 1..Len(reason')]
    BY <1>3, LenTypes DEF Views
<1>a. \A n : \A v \in Views :
        /\ [v EXCEPT !.flag = n] = [flag |-> n, reason |-> v.reason]
        /\ v.reason \in 1..Len(reason)
    BY DEF Views
<1>b. seen[t] \in Views /\ seen \in [Threads -> Views]
    BY DEF Typed
<1>6. /\ [seen[t] EXCEPT !.flag = Len(flag) + 1]
            \in [flag : 1..Len(flag'), reason : 1..Len(reason')]
      /\ [seen[t] EXCEPT !.flag = Len(flag) + 1]
            = [flag |-> Len(flag'), reason |-> seen[t].reason]
    BY <1>3, <1>a, <1>b, LenTypes
<1>7. seen' \in [Threads -> [flag : 1..Len(flag'), reason : 1..Len(reason')]]
    BY <1>1, <1>5, <1>6, <1>b
<1> QED
    BY <1>1, <1>3, <1>4, <1>6, <1>7, <1>b DEF Views, e
LEMMA KnownWhy == Budgets \subseteq IrqReasons /\ "none" \in IrqReasons /\ "abort" \in IrqReasons
BY DEF IrqReasons

OwnerTyped == owner \in [at : Places, call : Nat, uncleared : SUBSET {"flag", "reason"},
                         got : IrqReasons \cup {"ok"}]

\* What a trip's first store leaves behind, by the watchdog or by the owner.
LEMMA TripEffect ==
    ASSUME Typed, NEW t \in Raisers, NEW why \in Budgets, Trip(t, why)
    PROVE  /\ reason' \in Seq(IrqReasons) /\ Len(reason') = Len(reason) + 1
           /\ \A k \in 1..Len(reason) : reason'[k] = reason[k]
           /\ reason'[Len(reason) + 1] = why
           /\ flag' = flag
           /\ seen' \in [Threads -> Views']
           /\ \A u \in Threads : u # t => seen'[u] = seen[u]
           /\ seen'[t].flag >= seen[t].flag /\ seen'[t].flag >= lock.carries.flag
           /\ seen'[t].reason = Len(reason')
           /\ lock.holder = "nobody"
           /\ lock' \in [holder : Threads \cup {"nobody"}, carries : Views']
           /\ lock'.holder = t /\ lock'.carries = lock.carries
           /\ writing' = [writing EXCEPT ![t] = why]
           /\ left' \in [Threads -> Nat] /\ left'["foreign"] = left["foreign"]
<1>1. t \in Threads /\ t # "foreign" /\ why \in IrqReasons
    BY KnownWhy DEF Raisers, Threads
<1>2. StoreReason(t, why, Synced(t)) /\ flag' = flag
    BY DEF Trip
<1>3. Synced(t) \in [Threads -> Views]
    BY <1>1, SyncedView
<1>4. /\ reason' \in Seq(IrqReasons) /\ Len(reason') = Len(reason) + 1
      /\ \A k \in 1..Len(reason) : reason'[k] = reason[k]
      /\ reason'[Len(reason) + 1] = why
      /\ seen' \in [Threads -> [flag : 1..Len(flag), reason : 1..Len(reason')]]
      /\ \A u \in Threads : u # t => seen'[u] = Synced(t)[u]
      /\ seen'[t].flag = Synced(t)[t].flag /\ seen'[t].reason = Len(reason')
    BY <1>1, <1>2, <1>3, ReasonStored
<1>5. Views' = [flag : 1..Len(flag), reason : 1..Len(reason')]
    BY <1>2 DEF Views
<1>a. Grown
    BY <1>2, <1>4, LenTypes DEF Grown
<1>6. \A v \in Views : v \in Views'
    BY <1>a, OldViews
<1>7. /\ lock.holder = "nobody" /\ lock' = [lock EXCEPT !.holder = t]
      /\ lock \in [holder : Threads \cup {"nobody"}, carries : Views]
    BY DEF Trip, LockFree, Typed
<1>8. /\ left \in [Threads -> Nat] /\ left[t] > 0
      /\ left' = [left EXCEPT ![t] = left[t] - 1]
      /\ writing' = [writing EXCEPT ![t] = why]
    BY DEF Trip, Typed
<1>9. left' \in [Threads -> Nat] /\ left'["foreign"] = left["foreign"]
    BY <1>1, <1>8 DEF Threads
<1>10. /\ lock' \in [holder : Threads \cup {"nobody"}, carries : Views']
       /\ lock'.holder = t /\ lock'.carries = lock.carries
    BY <1>1, <1>6, <1>7
<1> QED
    BY <1>1, <1>2, <1>4, <1>5, <1>7, <1>8, <1>9, <1>10, SyncedView

\* What its second store leaves behind.
LEMMA TripDoneEffect ==
    ASSUME Typed, NEW t \in Raisers, TripDone(t)
    PROVE  /\ writing[t] # "none"
           /\ reason' = reason /\ left' = left
           /\ flag' \in Seq([up : BOOLEAN, carries : Nat])
           /\ Len(flag') = Len(flag) + 1
           /\ \A i \in 1..Len(flag) : flag'[i] = flag[i]
           /\ flag'[Len(flag) + 1] = [up |-> TRUE, carries |-> seen[t].reason]
           /\ \A i \in 1..Len(flag') : flag'[i].carries \in 1..Len(reason')
           /\ seen' \in [Threads -> Views']
           /\ \A u \in Threads : u # t => seen'[u] = seen[u]
           /\ seen'[t].reason = seen[t].reason /\ seen'[t].flag = Len(flag')
           /\ lock' \in [holder : Threads \cup {"nobody"}, carries : Views']
           /\ lock'.holder = "nobody" /\ lock'.carries.flag = Len(flag')
           /\ writing' = [writing EXCEPT ![t] = "none"]
           /\ tripped' = (tripped \/ owner.at # "boundary")
<1>1. t \in Threads
    BY DEF Raisers, Threads
<1>2. /\ StoreFlag(t, TRUE, seen[t].reason) /\ reason' = reason /\ left' = left
      /\ writing[t] # "none"
      /\ lock' = [holder |-> "nobody", carries |-> seen'[t]]
      /\ writing' = [writing EXCEPT ![t] = "none"]
      /\ tripped' = (tripped \/ owner.at # "boundary")
    BY DEF TripDone
<1>3. seen[t].reason \in 1..Len(reason)
    BY <1>1 DEF Typed, Views
<1>4. /\ flag' \in Seq([up : BOOLEAN, carries : Nat])
      /\ Len(flag') = Len(flag) + 1
      /\ \A i \in 1..Len(flag) : flag'[i] = flag[i]
      /\ flag'[Len(flag) + 1] = [up |-> TRUE, carries |-> seen[t].reason]
      /\ \A i \in 1..Len(flag') : flag'[i].carries \in 1..Len(reason')
      /\ seen' \in [Threads -> Views']
      /\ \A u \in Threads : u # t => seen'[u] = seen[u]
      /\ seen'[t].reason = seen[t].reason /\ seen'[t].flag = Len(flag')
    BY <1>1, <1>2, <1>3, FlagStored
<1> QED
    BY <1>1, <1>2, <1>4

LEMMA InterruptEffect ==
    ASSUME Typed, InterruptBegins
    PROVE  /\ reason' \in Seq(IrqReasons) /\ Len(reason') = Len(reason) + 1
           /\ \A k \in 1..Len(reason) : reason'[k] = reason[k]
           /\ reason'[Len(reason) + 1] = "abort"
           /\ flag' = flag /\ lock' = lock /\ owner' = owner /\ tripped' = tripped
           /\ seen' \in [Threads -> Views']
           /\ \A u \in Raisers : seen'[u] = seen[u]
           /\ seen'["foreign"].reason = Len(reason')
           /\ writing' = [writing EXCEPT !["foreign"] = "abort"]
           /\ left["foreign"] > 0
           /\ left' = [left EXCEPT !["foreign"] = left["foreign"] - 1]
<1>1. StoreReason("foreign", "abort", seen) /\ "foreign" \in Threads /\ flag' = flag
    BY DEF InterruptBegins, Threads
<1>2. seen \in [Threads -> Views]
    BY DEF Typed
<1>3. Views' = [flag : 1..Len(flag), reason : 1..Len(reason')]
    BY <1>1 DEF Views
<1>4. Raisers \subseteq Threads /\ "foreign" \notin Raisers
    BY DEF Raisers, Threads
<1>5. /\ reason' \in Seq(IrqReasons) /\ Len(reason') = Len(reason) + 1
      /\ \A k \in 1..Len(reason) : reason'[k] = reason[k]
      /\ reason'[Len(reason) + 1] = "abort"
      /\ seen' \in [Threads -> [flag : 1..Len(flag), reason : 1..Len(reason')]]
      /\ \A u \in Threads : u # "foreign" => seen'[u] = seen[u]
      /\ seen'["foreign"].reason = Len(reason')
    BY <1>1, <1>2, ReasonStored, KnownWhy
<1> QED
    BY <1>1, <1>3, <1>4, <1>5 DEF InterruptBegins

LEMMA InterruptDoneEffect ==
    ASSUME Typed, InterruptDone
    PROVE  /\ writing["foreign"] # "none"
           /\ reason' = reason /\ left' = left /\ lock' = lock
           /\ owner' = owner /\ tripped' = tripped
           /\ flag' \in Seq([up : BOOLEAN, carries : Nat])
           /\ Len(flag') = Len(flag) + 1
           /\ \A i \in 1..Len(flag) : flag'[i] = flag[i]
           /\ flag'[Len(flag) + 1] = [up |-> TRUE, carries |-> seen["foreign"].reason]
           /\ \A i \in 1..Len(flag') : flag'[i].carries \in 1..Len(reason')
           /\ seen' \in [Threads -> Views']
           /\ \A u \in Raisers : seen'[u] = seen[u]
           /\ seen'["foreign"].reason = seen["foreign"].reason
           /\ writing' = [writing EXCEPT !["foreign"] = "none"]
<1>1. /\ StoreFlag("foreign", TRUE, seen["foreign"].reason) /\ "foreign" \in Threads
      /\ reason' = reason
    BY DEF InterruptDone, Threads
<1>2. seen["foreign"].reason \in 1..Len(reason)
    BY <1>1 DEF Typed, Views
<1>3. Raisers \subseteq Threads /\ "foreign" \notin Raisers
    BY DEF Raisers, Threads
<1>4. /\ flag' \in Seq([up : BOOLEAN, carries : Nat])
      /\ Len(flag') = Len(flag) + 1
      /\ \A i \in 1..Len(flag) : flag'[i] = flag[i]
      /\ flag'[Len(flag) + 1] = [up |-> TRUE, carries |-> seen["foreign"].reason]
      /\ \A i \in 1..Len(flag') : flag'[i].carries \in 1..Len(reason')
      /\ seen' \in [Threads -> Views']
      /\ \A u \in Threads : u # "foreign" => seen'[u] = seen[u]
      /\ seen'["foreign"].reason = seen["foreign"].reason
    BY <1>1, <1>2, FlagStored
<1> QED
    BY <1>1, <1>3, <1>4 DEF InterruptDone
\* The owner's steps that store in neither byte: they only learn.
OwnerLearns ==
  \/ Enter \/ Raise \/ Return \/ Sample \/ Boundary \/ Disarm
  \/ \E site \in Sites : PollFlag(site)

LEMMA LearnedAlone ==
    ASSUME Typed, NEW v \in Views, seen' = [seen EXCEPT !["owner"] = v]
    PROVE  /\ seen' \in [Threads -> Views]
           /\ \A u \in Threads : u # "owner" => seen'[u] = seen[u]
           /\ seen'["owner"] = v
BY DEF Typed, Threads

LEMMA OwnerSynced ==
    ASSUME Typed, seen' = Synced("owner"),
           lock' = [lock EXCEPT !.carries = seen'["owner"]]
    PROVE  /\ seen' \in [Threads -> Views]
           /\ \A u \in Threads : u # "owner" => seen'[u] = seen[u]
           /\ seen'["owner"].flag >= seen["owner"].flag
           /\ seen'["owner"].flag >= lock.carries.flag
           /\ lock' \in [holder : Threads \cup {"nobody"}, carries : Views]
           /\ lock'.holder = lock.holder /\ lock'.carries.flag = seen'["owner"].flag
<1>1. "owner" \in Threads /\ lock \in [holder : Threads \cup {"nobody"}, carries : Views]
    BY DEF Threads, Typed
<1>2. /\ seen' \in [Threads -> Views]
      /\ \A u \in Threads : u # "owner" => seen'[u] = seen[u]
      /\ seen'["owner"].flag >= seen["owner"].flag
      /\ seen'["owner"].flag >= lock.carries.flag
    BY <1>1, SyncedView
<1>3. seen'["owner"] \in Views
    BY <1>1, <1>2
<1> QED
    BY <1>1, <1>2, <1>3

\* The views a poll, a raise and the boundary leave the owner with.
LEMMA OwnerView ==
    ASSUME Typed
    PROVE  /\ seen["owner"] \in Views
           /\ seen["owner"].flag \in 1..Len(flag) /\ seen["owner"].reason \in 1..Len(reason)
BY DEF Typed, Threads, Views

LEMMA ReasonLoaded ==
    ASSUME Typed, NEW j \in seen["owner"].reason .. Len(reason)
    PROVE  /\ j \in 1..Len(reason) /\ reason[j] \in IrqReasons
           /\ [seen["owner"] EXCEPT !.reason = j] \in Views
           /\ [seen["owner"] EXCEPT !.reason = j].flag = seen["owner"].flag
<1>1. j \in 1..Len(reason)
    BY OwnerView, LenTypes
<1>2. \A v \in Views : /\ [v EXCEPT !.reason = j] \in Views
                       /\ [v EXCEPT !.reason = j].flag = v.flag
    BY <1>1 DEF Views
<1>3. reason[j] \in IrqReasons
    BY <1>1 DEF Typed
<1> QED
    BY <1>1, <1>2, <1>3, OwnerView

LEMMA FlagLoaded ==
    ASSUME Typed, NEW i \in 1..Len(flag), Poll(i)
    PROVE  /\ i >= seen["owner"].flag
           /\ [seen["owner"] EXCEPT !.flag = i] \in Views
           /\ [seen["owner"] EXCEPT !.flag = i].flag = i
           /\ Fenced(seen["owner"], i) \in Views /\ Fenced(seen["owner"], i).flag = i
           /\ Fenced(seen["owner"], i).reason \in 1..Len(reason)
           /\ Fenced(seen["owner"], i).reason >= flag[i].carries
<1>1. i >= seen["owner"].flag
    BY OwnerView, LenTypes DEF Poll
<1>2. \A v \in Views : /\ [v EXCEPT !.flag = i] \in Views
                       /\ [v EXCEPT !.flag = i].flag = i
    BY DEF Views
<1>3. flag[i].carries \in 1..Len(reason)
    BY DEF Typed
<1>4. Fenced(seen["owner"], i)
        = [flag |-> i, reason |-> Later(seen["owner"].reason, flag[i].carries)]
    BY DEF Fenced
<1>5. /\ Later(seen["owner"].reason, flag[i].carries) \in 1..Len(reason)
      /\ Later(seen["owner"].reason, flag[i].carries) >= flag[i].carries
    BY <1>3, OwnerView, LenTypes DEF Later
<1> HIDE DEF Poll, Fenced
<1>6. Fenced(seen["owner"], i) \in Views
    BY <1>4, <1>5 DEF Views
<1> QED
    BY <1>1, <1>2, <1>4, <1>5, <1>6, OwnerView

LEMMA BothLoaded ==
    ASSUME Typed, NEW i \in 1..Len(flag), Poll(i),
           NEW j \in Fenced(seen["owner"], i).reason .. Len(reason)
    PROVE  /\ j \in 1..Len(reason) /\ reason[j] \in IrqReasons /\ j >= flag[i].carries
           /\ [flag |-> i, reason |-> j] \in Views
<1>1. /\ Fenced(seen["owner"], i).reason \in 1..Len(reason)
      /\ Fenced(seen["owner"], i).reason >= flag[i].carries
      /\ flag[i].carries \in 1..Len(reason)
    BY FlagLoaded DEF Typed
<1>2. j \in 1..Len(reason) /\ j >= flag[i].carries
    BY <1>1, LenTypes
<1> QED
    BY <1>2 DEF Views, Typed

LEMMA LearnEffect ==
    ASSUME Typed, OwnerLearns
    PROVE  /\ flag' = flag /\ reason' = reason /\ writing' = writing /\ left' = left
           /\ seen' \in [Threads -> Views]
           /\ \A u \in Threads : u # "owner" => seen'[u] = seen[u]
           /\ seen'["owner"].flag >= seen["owner"].flag
           /\ lock' \in [holder : Threads \cup {"nobody"}, carries : Views]
           /\ lock'.holder = lock.holder
           /\ lock'.carries.flag >= lock.carries.flag
           /\ OwnerTyped'
           /\ tripped' \in BOOLEAN
<1>1. /\ lock \in [holder : Threads \cup {"nobody"}, carries : Views]
      /\ OwnerTyped /\ tripped \in BOOLEAN /\ seen \in [Threads -> Views]
      /\ reason \in Seq(IrqReasons)
    BY DEF Typed, OwnerTyped
<1>2. lock.carries.flag \in Nat /\ seen["owner"].flag \in Nat
    BY <1>1, LenTypes DEF Views, Threads
<1>3. CASE Enter \/ Sample \/ Disarm
    <2>1. /\ seen' = Synced("owner") /\ lock' = [lock EXCEPT !.carries = seen'["owner"]]
          /\ flag' = flag /\ reason' = reason /\ writing' = writing /\ left' = left
        BY <1>3 DEF Enter, Sample, Disarm
    <2>3. tripped' = tripped \/ tripped' = FALSE
        BY <1>3 DEF Enter, Sample, Disarm
    <2>2. OwnerTyped'
        <3>1. CASE Enter
            <4> DEFINE n == owner.call + 1
            <4>1. owner' = [owner EXCEPT !.at = "lua", !.call = n, !.got = "ok"]
                BY <3>1 DEF Enter
            <4>2. n \in Nat
                BY <1>1 DEF OwnerTyped
            <4> HIDE DEF n
            <4> QED
                BY <1>1, <4>1, <4>2 DEF OwnerTyped, Places
        <3>2. CASE Sample
            BY <1>1, <3>2 DEF Sample, OwnerTyped, Places
        <3>3. CASE Disarm
            BY <1>1, <3>3 DEF Disarm, OwnerTyped, Places
        <3> QED
            BY <1>3, <3>1, <3>2, <3>3
    <2> QED
        BY <1>1, <1>2, <2>1, <2>2, <2>3, OwnerSynced
<1>4. CASE Return
    BY <1>1, <1>2, <1>4 DEF Return, OwnerTyped, Places
<1>5. CASE Raise
    <2>1. PICK i \in seen["owner"].reason .. Len(reason) :
             /\ seen' = [seen EXCEPT !["owner"] = [seen["owner"] EXCEPT !.reason = i]]
             /\ owner' \in {[owner EXCEPT !.at = "left", !.got = reason[i]],
                            [owner EXCEPT !.at = "lua"]}
        BY <1>5 DEF Raise
    <2>2. reason[i] \in IrqReasons
        BY ReasonLoaded
    <2>3. OwnerTyped'
        BY <1>1, <2>1, <2>2 DEF OwnerTyped, Places
    <2>4. /\ [seen["owner"] EXCEPT !.reason = i] \in Views
          /\ [seen["owner"] EXCEPT !.reason = i].flag = seen["owner"].flag
        BY ReasonLoaded
    <2>5. /\ seen' \in [Threads -> Views]
          /\ \A u \in Threads : u # "owner" => seen'[u] = seen[u]
          /\ seen'["owner"].flag = seen["owner"].flag
        BY <2>1, <2>4, LearnedAlone
    <2> QED
        BY <1>1, <1>2, <1>5, <2>3, <2>5 DEF Raise
<1>6. ASSUME NEW site \in Sites, PollFlag(site)
      PROVE  /\ seen' \in [Threads -> Views]
             /\ \A u \in Threads : u # "owner" => seen'[u] = seen[u]
             /\ seen'["owner"].flag >= seen["owner"].flag
             /\ OwnerTyped'
    <2>1. PICK i \in 1..Len(flag) :
             /\ Poll(i)
             /\ seen' = [seen EXCEPT !["owner"] =
                           IF site = "check" THEN Fenced(seen["owner"], i)
                           ELSE [seen["owner"] EXCEPT !.flag = i]]
        BY <1>6 DEF PollFlag
    <2>2. OwnerTyped'
        BY <1>1, <1>6 DEF PollFlag, OwnerTyped, Places
    <2> DEFINE v == IF site = "check" THEN Fenced(seen["owner"], i)
                    ELSE [seen["owner"] EXCEPT !.flag = i]
    <2>3. v \in Views /\ v.flag = i
        BY <2>1, FlagLoaded
    <2> HIDE DEF v
    <2>4. seen' = [seen EXCEPT !["owner"] = v]
        BY <2>1 DEF v
    <2>5. i >= seen["owner"].flag
        BY <2>1, FlagLoaded
    <2> QED
        BY <2>2, <2>3, <2>4, <2>5, LearnedAlone
<1>7. CASE \E site \in Sites : PollFlag(site)
    <2>1. PICK site \in Sites : PollFlag(site)
        BY <1>7
    <2>2. /\ flag' = flag /\ reason' = reason /\ lock' = lock /\ writing' = writing
          /\ left' = left /\ tripped' = tripped
        BY <2>1 DEF PollFlag
    <2> QED
        BY <1>1, <1>2, <1>6, <2>1, <2>2
<1>8. CASE Boundary
    <2>1. PICK i \in 1..Len(flag) :
             /\ Poll(i)
             /\ IF flag[i].up
                THEN \E j \in Fenced(seen["owner"], i).reason .. Len(reason) :
                       /\ seen' = [seen EXCEPT !["owner"] = [flag |-> i, reason |-> j]]
                       /\ owner' = [owner EXCEPT !.at = "left", !.got = reason[j]]
                ELSE /\ seen' = [seen EXCEPT !["owner"] = [seen["owner"] EXCEPT !.flag = i]]
                     /\ owner' = [owner EXCEPT !.at = "left", !.got = "ok"]
        BY <1>8 DEF Boundary
    <2>2. PICK v \in Views : v.flag = i /\ seen' = [seen EXCEPT !["owner"] = v]
        <3>1. CASE flag[i].up
            BY <2>1, <3>1, BothLoaded
        <3>2. CASE ~flag[i].up
            BY <2>1, <3>2, FlagLoaded
        <3> QED
            BY <3>1, <3>2
    <2>3. OwnerTyped'
        <3>1. CASE flag[i].up
            <4>1. PICK j \in Fenced(seen["owner"], i).reason .. Len(reason) :
                     owner' = [owner EXCEPT !.at = "left", !.got = reason[j]]
                BY <2>1, <3>1
            <4>2. reason[j] \in IrqReasons
                BY <2>1, BothLoaded
            <4> QED
                BY <1>1, <4>1, <4>2 DEF OwnerTyped, Places
        <3>2. CASE ~flag[i].up
            BY <1>1, <2>1, <3>2 DEF OwnerTyped, Places
        <3> QED
            BY <3>1, <3>2
    <2>4. /\ seen' \in [Threads -> Views]
          /\ \A u \in Threads : u # "owner" => seen'[u] = seen[u]
          /\ seen'["owner"].flag = i
        BY <2>2, LearnedAlone
    <2>5. i >= seen["owner"].flag
        BY <2>1, FlagLoaded
    <2>6. /\ flag' = flag /\ reason' = reason /\ lock' = lock /\ writing' = writing
          /\ left' = left /\ tripped' = tripped
        BY <1>8 DEF Boundary
    <2> QED
        BY <1>1, <1>2, <2>3, <2>4, <2>5, <2>6
<1> QED
    BY <1>3, <1>4, <1>5, <1>7, <1>8 DEF OwnerLearns

LEMMA ClearFlagEffect ==
    ASSUME Typed, ClearFlag
    PROVE  /\ reason' = reason /\ left' = left /\ lock' = lock
           /\ writing' = writing /\ tripped' = tripped
           /\ flag' \in Seq([up : BOOLEAN, carries : Nat])
           /\ Len(flag') = Len(flag) + 1
           /\ \A i \in 1..Len(flag) : flag'[i] = flag[i]
           /\ flag'[Len(flag) + 1] = [up |-> FALSE, carries |-> 1]
           /\ \A i \in 1..Len(flag') : flag'[i].carries \in 1..Len(reason')
           /\ seen' \in [Threads -> Views']
           /\ \A u \in Threads : u # "owner" => seen'[u] = seen[u]
           /\ seen'["owner"].reason = seen["owner"].reason
           /\ seen'["owner"].flag = Len(flag')
           /\ "flag" \in owner.uncleared /\ OwnerTyped'
           /\ owner'.uncleared = owner.uncleared \ {"flag"}
           /\ owner'.at = IF owner.uncleared = {"flag"} THEN "idle" ELSE owner.at
<1>1. /\ StoreFlag("owner", FALSE, 1) /\ "owner" \in Threads /\ reason' = reason
      /\ 1 \in 1..Len(reason) /\ FALSE \in BOOLEAN
    <2>1. 1 \in 1..Len(reason)
        BY LenTypes
    <2> QED
        BY <2>1 DEF ClearFlag, Threads
<1>2. /\ flag' \in Seq([up : BOOLEAN, carries : Nat])
      /\ Len(flag') = Len(flag) + 1
      /\ \A i \in 1..Len(flag) : flag'[i] = flag[i]
      /\ flag'[Len(flag) + 1] = [up |-> FALSE, carries |-> 1]
      /\ \A i \in 1..Len(flag') : flag'[i].carries \in 1..Len(reason')
      /\ seen' \in [Threads -> Views']
      /\ \A u \in Threads : u # "owner" => seen'[u] = seen[u]
      /\ seen'["owner"].reason = seen["owner"].reason /\ seen'["owner"].flag = Len(flag')
    BY <1>1, FlagStored
<1>3. /\ "flag" \in owner.uncleared /\ OwnerTyped'
      /\ owner'.uncleared = owner.uncleared \ {"flag"}
      /\ owner'.at = IF owner.uncleared = {"flag"} THEN "idle" ELSE owner.at
    BY DEF ClearFlag, Cleared, Typed, OwnerTyped, Places
<1> QED
    BY <1>1, <1>2, <1>3 DEF ClearFlag

LEMMA ClearReasonEffect ==
    ASSUME Typed, ClearReason
    PROVE  /\ flag' = flag /\ left' = left /\ lock' = lock
           /\ writing' = writing /\ tripped' = tripped
           /\ reason' \in Seq(IrqReasons) /\ Len(reason') = Len(reason) + 1
           /\ \A k \in 1..Len(reason) : reason'[k] = reason[k]
           /\ reason'[Len(reason) + 1] = "none"
           /\ seen' \in [Threads -> Views']
           /\ \A u \in Threads : u # "owner" => seen'[u] = seen[u]
           /\ seen'["owner"].flag = seen["owner"].flag
           /\ "reason" \in owner.uncleared /\ OwnerTyped'
           /\ owner'.uncleared = owner.uncleared \ {"reason"}
           /\ owner'.at = IF owner.uncleared = {"reason"} THEN "idle" ELSE owner.at
<1>1. StoreReason("owner", "none", seen) /\ "owner" \in Threads /\ flag' = flag
    BY DEF ClearReason, Threads
<1>2. Views' = [flag : 1..Len(flag), reason : 1..Len(reason')]
    BY <1>1 DEF Views
<1>3. seen \in [Threads -> Views]
    BY DEF Typed
<1>4. /\ reason' \in Seq(IrqReasons) /\ Len(reason') = Len(reason) + 1
      /\ \A k \in 1..Len(reason) : reason'[k] = reason[k]
      /\ reason'[Len(reason) + 1] = "none"
      /\ seen' \in [Threads -> [flag : 1..Len(flag), reason : 1..Len(reason')]]
      /\ \A u \in Threads : u # "owner" => seen'[u] = seen[u]
      /\ seen'["owner"].flag = seen["owner"].flag
    BY <1>1, <1>3, ReasonStored, KnownWhy
<1>5. /\ "reason" \in owner.uncleared /\ OwnerTyped'
      /\ owner'.uncleared = owner.uncleared \ {"reason"}
      /\ owner'.at = IF owner.uncleared = {"reason"} THEN "idle" ELSE owner.at
    BY DEF ClearReason, Cleared, Typed, OwnerTyped, Places
<1> QED
    BY <1>1, <1>2, <1>4, <1>5 DEF ClearReason
LEMMA Grouped ==
    ASSUME [IrqNext]_irqVars
    PROVE  \/ WatchdogBegins \/ WatchdogDone \/ OwnerTrips \/ OwnerTripped
           \/ InterruptBegins \/ InterruptDone \/ OwnerLearns
           \/ ClearFlag \/ ClearReason \/ UNCHANGED irqVars
BY DEF IrqNext, OwnerLearns

LEMMA OldCarried ==
    ASSUME Typed, Grown, Len(flag') = Len(flag)
    PROVE  \A i \in 1..Len(flag') : flag'[i].carries \in 1..Len(reason')
BY LenTypes DEF Grown, Typed

LEMMA TypedInit == IrqInit => Typed
<1> SUFFICES ASSUME IrqInit PROVE Typed
    OBVIOUS
<1> DEFINE f == [up |-> FALSE, carries |-> 1]
<1>1. f \in [up : BOOLEAN, carries : Nat] /\ f.carries = 1
    OBVIOUS
<1>2. flag = <<f>> /\ reason = <<"none">>
    BY DEF IrqInit
<1> HIDE DEF f
<1>3. /\ flag \in Seq([up : BOOLEAN, carries : Nat]) /\ Len(flag) = 1 /\ flag[1] = f
      /\ reason \in Seq(IrqReasons) /\ Len(reason) = 1
    BY <1>1, <1>2, KnownWhy
<1>4. Stale \in Views
    BY <1>3 DEF Stale, Views
<1>5. seen \in [Threads -> Views]
    BY <1>4 DEF IrqInit
<1>6. lock \in [holder : Threads \cup {"nobody"}, carries : Views]
    BY <1>4 DEF IrqInit
<1>7. writing \in [Threads -> IrqReasons]
    BY KnownWhy DEF IrqInit
<1>8. left \in [Threads -> Nat]
    BY IrqFlagAssumption DEF IrqInit
<1>9. /\ owner \in [at : Places, call : Nat, uncleared : SUBSET {"flag", "reason"},
                     got : IrqReasons \cup {"ok"}]
      /\ tripped \in BOOLEAN
    BY DEF IrqInit, Places
<1>10. \A i \in 1..Len(flag) : flag[i].carries \in 1..Len(reason)
    BY <1>1, <1>3
<1> QED
    BY <1>3, <1>5, <1>6, <1>7, <1>8, <1>9, <1>10 DEF Typed

LEMMA TypedStep == Typed /\ [IrqNext]_irqVars => Typed' /\ Grown
<1> SUFFICES ASSUME Typed, [IrqNext]_irqVars PROVE Typed' /\ Grown
    OBVIOUS
<1>1. /\ flag \in Seq([up : BOOLEAN, carries : Nat]) /\ Len(flag) # 0
      /\ reason \in Seq(IrqReasons) /\ Len(reason) # 0
      /\ \A i \in 1..Len(flag) : flag[i].carries \in 1..Len(reason)
      /\ lock \in [holder : Threads \cup {"nobody"}, carries : Views]
      /\ writing \in [Threads -> IrqReasons] /\ left \in [Threads -> Nat]
      /\ OwnerTyped /\ tripped \in BOOLEAN
    BY DEF Typed, OwnerTyped
<1>2. ASSUME NEW t \in Raisers, NEW why \in Budgets, Trip(t, why)
      PROVE  /\ Grown /\ flag' = flag /\ Len(reason') # 0
             /\ \A i \in 1..Len(flag') : flag'[i].carries \in 1..Len(reason')
             /\ writing' \in [Threads -> IrqReasons]
    <2>1. Grown /\ flag' = flag /\ Len(reason') # 0
        BY <1>2, TripEffect, LenTypes DEF Grown
    <2>2. writing' = [writing EXCEPT ![t] = why] /\ why \in IrqReasons
        BY <1>2, TripEffect, KnownWhy
    <2> QED
        BY <1>1, <2>1, <2>2, OldCarried
<1>3. CASE WatchdogBegins
    <2>1. /\ OwnerTyped' /\ tripped' \in BOOLEAN /\ "watchdog" \in Raisers
          /\ \E why \in Budgets : Trip("watchdog", why)
        BY <1>1, <1>3 DEF WatchdogBegins, OwnerTyped, Raisers
    <2> QED
        BY <1>1, <1>2, <2>1, TripEffect DEF Typed, OwnerTyped
<1>4. CASE OwnerTrips
    <2>2. /\ tripped' \in BOOLEAN /\ "owner" \in Raisers
          /\ \E why \in Budgets : Trip("owner", why)
        BY <1>1, <1>4 DEF OwnerTrips, Raisers
    <2>3. OwnerTyped'
        BY <1>1, <1>4 DEF OwnerTrips, OwnerTyped, Places
    <2>1. PICK why \in Budgets : Trip("owner", why)
        BY <2>2
    <2> QED
        BY <1>1, <1>2, <2>1, <2>2, <2>3, TripEffect DEF Typed, OwnerTyped
<1>5. ASSUME NEW t \in Raisers, TripDone(t), OwnerTyped' PROVE Typed' /\ Grown
    <2>a. /\ reason' = reason /\ Len(flag') = Len(flag) + 1
          /\ \A i \in 1..Len(flag) : flag'[i] = flag[i]
          /\ writing' = [writing EXCEPT ![t] = "none"]
          /\ tripped' = (tripped \/ owner.at # "boundary")
        BY <1>5, TripDoneEffect
    <2>1. Grown /\ Len(flag') # 0
        BY <2>a, LenTypes DEF Grown
    <2>2. writing' \in [Threads -> IrqReasons]
        BY <1>1, <2>a, KnownWhy
    <2>3. tripped' \in BOOLEAN
        BY <2>a
    <2> QED
        BY <1>1, <1>5, <2>1, <2>2, <2>3, TripDoneEffect DEF Typed, OwnerTyped
<1>6. CASE WatchdogDone
    BY <1>1, <1>5, <1>6 DEF WatchdogDone, OwnerTyped, Raisers
<1>7. CASE OwnerTripped
    BY <1>1, <1>5, <1>7 DEF OwnerTripped, OwnerTyped, Raisers, Places
<1>8. CASE InterruptBegins
    <2>1. Grown /\ flag' = flag /\ Len(reason') # 0
        BY <1>8, InterruptEffect, LenTypes DEF Grown
    <2>2. writing' \in [Threads -> IrqReasons] /\ left' \in [Threads -> Nat]
        BY <1>1, <1>8, InterruptEffect, KnownWhy DEF Threads
    <2>3. lock' \in [holder : Threads \cup {"nobody"}, carries : Views']
        BY <1>1, <1>8, <2>1, InterruptEffect, OldViews
    <2> QED
        BY <1>1, <1>8, <2>1, <2>2, <2>3, InterruptEffect, OldCarried DEF Typed, OwnerTyped
<1>9. CASE InterruptDone
    <2>1. Grown /\ Len(flag') # 0
        BY <1>9, InterruptDoneEffect, LenTypes DEF Grown
    <2>2. writing' \in [Threads -> IrqReasons]
        BY <1>1, <1>9, InterruptDoneEffect, KnownWhy
    <2>3. lock' \in [holder : Threads \cup {"nobody"}, carries : Views']
        BY <1>1, <1>9, <2>1, InterruptDoneEffect, OldViews
    <2> QED
        BY <1>1, <1>9, <2>1, <2>2, <2>3, InterruptDoneEffect DEF Typed, OwnerTyped
<1>10. CASE OwnerLearns
    <2>1. flag' = flag /\ reason' = reason /\ Views' = Views
        BY <1>10, LearnEffect DEF Views
    <2> QED
        BY <1>1, <1>10, <2>1, LearnEffect DEF Typed, OwnerTyped, Grown
<1>11. CASE ClearFlag
    <2>1. Grown /\ Len(flag') # 0
        BY <1>11, ClearFlagEffect, LenTypes DEF Grown
    <2>2. lock' \in [holder : Threads \cup {"nobody"}, carries : Views']
        BY <1>1, <1>11, <2>1, ClearFlagEffect, OldViews
    <2> QED
        BY <1>1, <1>11, <2>1, <2>2, ClearFlagEffect DEF Typed, OwnerTyped
<1>12. CASE ClearReason
    <2>1. Grown /\ flag' = flag /\ Len(reason') # 0
        BY <1>12, ClearReasonEffect, LenTypes DEF Grown
    <2>2. lock' \in [holder : Threads \cup {"nobody"}, carries : Views']
        BY <1>1, <1>12, <2>1, ClearReasonEffect, OldViews
    <2> QED
        BY <1>1, <1>12, <2>1, <2>2, ClearReasonEffect, OldCarried DEF Typed, OwnerTyped
<1>13. CASE UNCHANGED irqVars
    BY <1>13 DEF irqVars, Typed, Views, Grown
<1> QED
    BY <1>3, <1>4, <1>6, <1>7, <1>8, <1>9, <1>10, <1>11, <1>12, <1>13, Grouped
-----------------------------------------------------------------------------
(* Who is writing                                                          *)

Grounded == Typed /\ HolderWrites /\ DisarmedIsQuiet /\ StoredReason

LEMMA HolderWritesStep ==
    ASSUME Typed, HolderWrites, DisarmedIsQuiet, [IrqNext]_irqVars
    PROVE  HolderWrites' /\ DisarmedIsQuiet'
<1>1. /\ writing \in [Threads -> IrqReasons] /\ OwnerTyped
      /\ lock \in [holder : Threads \cup {"nobody"}, carries : Views]
    BY DEF Typed, OwnerTyped
<1>2. CASE WatchdogBegins
    <2>1. PICK why \in Budgets : Trip("watchdog", why)
        BY <1>2 DEF WatchdogBegins
    <2>2. /\ lock.holder = "nobody" /\ lock'.holder = "watchdog"
          /\ writing' = [writing EXCEPT !["watchdog"] = why]
        BY <2>1, TripEffect DEF Raisers
    <2> QED
        BY <1>1, <1>2, <2>2
           DEF HolderWrites, DisarmedIsQuiet, InCall, WatchdogBegins, Threads, Raisers, Budgets
<1>3. CASE OwnerTrips
    <2>1. PICK why \in Budgets : Trip("owner", why)
        BY <1>3 DEF OwnerTrips
    <2>2. /\ lock.holder = "nobody" /\ lock'.holder = "owner"
          /\ writing' = [writing EXCEPT !["owner"] = why]
        BY <2>1, TripEffect DEF Raisers
    <2>3. /\ owner.at \in {"lua", "sample"} /\ owner'.at \in {"trip", "boundary"}
          /\ owner'.uncleared = owner.uncleared
        BY <1>1, <1>3 DEF OwnerTrips, OwnerTyped
    <2> QED
        BY <1>1, <2>2, <2>3
           DEF HolderWrites, DisarmedIsQuiet, InCall, Threads, Raisers, Budgets
<1>4. CASE WatchdogDone
    <2>1. /\ writing["watchdog"] # "none" /\ lock'.holder = "nobody"
          /\ writing' = [writing EXCEPT !["watchdog"] = "none"] /\ owner' = owner
        BY <1>4, TripDoneEffect DEF WatchdogDone, Raisers
    <2> QED
        BY <1>1, <2>1 DEF HolderWrites, DisarmedIsQuiet, InCall, Threads, Raisers, Budgets
<1>5. CASE OwnerTripped
    <2>1. /\ writing["owner"] # "none" /\ lock'.holder = "nobody"
          /\ writing' = [writing EXCEPT !["owner"] = "none"]
        BY <1>5, TripDoneEffect DEF OwnerTripped, Raisers
    <2>2. /\ owner.at \in {"trip", "boundary"} /\ owner'.at \in {"raise", "boundary"}
          /\ owner'.uncleared = owner.uncleared
        BY <1>1, <1>5 DEF OwnerTripped, OwnerTyped
    <2> QED
        BY <1>1, <2>1, <2>2 DEF HolderWrites, DisarmedIsQuiet, InCall, Threads, Raisers, Budgets
<1>6. CASE InterruptBegins
    <2>1. /\ writing' = [writing EXCEPT !["foreign"] = "abort"]
          /\ lock' = lock /\ owner' = owner
        BY <1>6, InterruptEffect
    <2> QED
        BY <1>1, <2>1 DEF HolderWrites, DisarmedIsQuiet, InCall, Threads, Raisers, Budgets
<1>7. CASE InterruptDone
    <2>1. /\ writing' = [writing EXCEPT !["foreign"] = "none"]
          /\ lock' = lock /\ owner' = owner
        BY <1>7, InterruptDoneEffect
    <2> QED
        BY <1>1, <2>1 DEF HolderWrites, DisarmedIsQuiet, InCall, Threads, Raisers, Budgets
<1>8. CASE OwnerLearns
    <2>1. writing' = writing /\ lock'.holder = lock.holder
        BY <1>8, LearnEffect
    <2>2. CASE Enter
        BY <1>1, <2>1, <2>2
           DEF HolderWrites, DisarmedIsQuiet, InCall, Enter, LockFree, OwnerTyped, Raisers
    <2>3. CASE Sample
        BY <1>1, <2>1, <2>3
           DEF HolderWrites, DisarmedIsQuiet, InCall, Sample, LockFree, OwnerTyped, Raisers
    <2>4. CASE Disarm
        BY <1>1, <2>1, <2>4
           DEF HolderWrites, DisarmedIsQuiet, InCall, Disarm, LockFree, OwnerTyped, Raisers
    <2>5. CASE Raise
        <3>1. /\ owner.at \in {"raise", "unfenced"} /\ owner'.at \in {"left", "lua"}
              /\ owner'.uncleared = owner.uncleared
            BY <1>1, <2>5 DEF Raise, OwnerTyped
        <3> QED
            BY <1>1, <2>1, <3>1 DEF HolderWrites, DisarmedIsQuiet, InCall, Raisers
    <2>6. CASE Return
        BY <1>1, <2>1, <2>6
           DEF HolderWrites, DisarmedIsQuiet, InCall, Return, OwnerTyped, Raisers
    <2>7. CASE Boundary
        <3>1. /\ owner.at = "boundary" /\ writing["owner"] = "none" /\ owner'.at = "left"
              /\ owner'.uncleared = owner.uncleared
            BY <1>1, <2>7 DEF Boundary, OwnerTyped
        <3> QED
            BY <1>1, <2>1, <3>1 DEF HolderWrites, DisarmedIsQuiet, InCall, Raisers
    <2>8. CASE \E site \in Sites : PollFlag(site)
        <3>1. /\ owner.at = "lua" /\ owner'.at \in {"raise", "unfenced"}
              /\ owner'.uncleared = owner.uncleared
            BY <1>1, <2>8 DEF PollFlag, OwnerTyped
        <3> QED
            BY <1>1, <2>1, <3>1 DEF HolderWrites, DisarmedIsQuiet, InCall, Raisers
    <2> QED
        BY <1>8, <2>2, <2>3, <2>4, <2>5, <2>6, <2>7, <2>8 DEF OwnerLearns
<1>9. CASE ClearFlag
    <2>1. /\ writing' = writing /\ lock' = lock /\ "flag" \in owner.uncleared
          /\ owner'.uncleared = owner.uncleared \ {"flag"}
          /\ owner'.at = IF owner.uncleared = {"flag"} THEN "idle" ELSE owner.at
        BY <1>9, ClearFlagEffect
    <2>2. owner'.uncleared = {} <=> owner.uncleared = {"flag"}
        BY <2>1
    <2> QED
        BY <1>1, <2>1, <2>2 DEF HolderWrites, DisarmedIsQuiet, InCall, Raisers
<1>10. CASE ClearReason
    <2>1. /\ writing' = writing /\ lock' = lock /\ "reason" \in owner.uncleared
          /\ owner'.uncleared = owner.uncleared \ {"reason"}
          /\ owner'.at = IF owner.uncleared = {"reason"} THEN "idle" ELSE owner.at
        BY <1>10, ClearReasonEffect
    <2>2. owner'.uncleared = {} <=> owner.uncleared = {"reason"}
        BY <2>1
    <2> QED
        BY <1>1, <2>1, <2>2 DEF HolderWrites, DisarmedIsQuiet, InCall, Raisers
<1>11. CASE UNCHANGED irqVars
    BY <1>11 DEF irqVars, HolderWrites, DisarmedIsQuiet, InCall
<1> QED
    BY <1>2, <1>3, <1>4, <1>5, <1>6, <1>7, <1>8, <1>9, <1>10, <1>11, Grouped

\* What is still to be raised is stored where its writer stands.
LEMMA StoredReasonStep ==
    ASSUME Grounded, [IrqNext]_irqVars
    PROVE  StoredReason'
<1>1. /\ Typed /\ Grown /\ Threads = {"owner", "watchdog", "foreign"}
      /\ \A t \in Threads : seen[t].reason \in 1..Len(reason)
      /\ writing \in [Threads -> IrqReasons]
    BY TypedStep DEF Grounded, Typed, Threads, Views
<1>2. \A t \in Threads : reason'[seen[t].reason] = reason[seen[t].reason]
    BY <1>1 DEF Grown
<1>3. ASSUME NEW t \in Raisers, NEW why \in Budgets, Trip(t, why) PROVE StoredReason'
    <2>1. /\ reason'[seen'[t].reason] = why
          /\ \A u \in Threads : u # t => seen'[u] = seen[u]
          /\ writing' = [writing EXCEPT ![t] = why]
        BY <1>1, <1>3, TripEffect
    <2> QED
        BY <1>1, <1>2, <2>1 DEF Grounded, StoredReason
<1>4. ASSUME NEW t \in Raisers, TripDone(t) PROVE StoredReason'
    <2>1. /\ \A u \in Threads : u # t => seen'[u] = seen[u]
          /\ writing' = [writing EXCEPT ![t] = "none"]
        BY <1>1, <1>4, TripDoneEffect
    <2> QED
        BY <1>1, <1>2, <2>1 DEF Grounded, StoredReason
<1>5. CASE WatchdogBegins \/ OwnerTrips
    BY <1>3, <1>5 DEF WatchdogBegins, OwnerTrips, Raisers
<1>6. CASE WatchdogDone \/ OwnerTripped
    BY <1>4, <1>6 DEF WatchdogDone, OwnerTripped, Raisers
<1>7. CASE InterruptBegins
    <2>1. /\ reason'[seen'["foreign"].reason] = "abort"
          /\ \A u \in Raisers : seen'[u] = seen[u]
          /\ writing' = [writing EXCEPT !["foreign"] = "abort"]
        BY <1>1, <1>7, InterruptEffect
    <2> QED
        BY <1>1, <1>2, <2>1 DEF Grounded, StoredReason, Raisers
<1>8. CASE InterruptDone
    <2>1. /\ \A u \in Raisers : seen'[u] = seen[u]
          /\ writing' = [writing EXCEPT !["foreign"] = "none"]
        BY <1>1, <1>8, InterruptDoneEffect
    <2> QED
        BY <1>1, <1>2, <2>1 DEF Grounded, StoredReason, Raisers
<1>9. ASSUME writing' = writing, writing["owner"] = "none",
             \A u \in Threads : u # "owner" => seen'[u] = seen[u]
      PROVE  StoredReason'
    BY <1>1, <1>2, <1>9 DEF Grounded, StoredReason
<1>10. CASE ClearFlag \/ ClearReason
    <2>1. writing["owner"] = "none"
        BY <1>10 DEF ClearFlag, ClearReason, Grounded, HolderWrites, DisarmedIsQuiet, InCall, Raisers
    <2> QED
        BY <1>1, <1>9, <1>10, <2>1, ClearFlagEffect, ClearReasonEffect
<1>11. CASE OwnerLearns
    <2>1. writing["owner"] = "none"
        BY <1>11 DEF OwnerLearns, Enter, Raise, Return, Sample, Boundary, Disarm, PollFlag,
                     LockFree, Grounded, HolderWrites, Raisers
    <2> QED
        BY <1>1, <1>9, <1>11, <2>1, LearnEffect
<1>12. CASE UNCHANGED irqVars
    BY <1>12 DEF irqVars, Grounded, StoredReason
<1> QED
    BY <1>5, <1>6, <1>7, <1>8, <1>10, <1>11, <1>12, Grouped

LEMMA GroundedInit == IrqInit => Grounded
<1> SUFFICES ASSUME IrqInit PROVE Grounded
    OBVIOUS
<1>1. Typed
    BY TypedInit
<1>2. HolderWrites /\ DisarmedIsQuiet /\ StoredReason
    BY DEF IrqInit, HolderWrites, DisarmedIsQuiet, StoredReason, InCall, Threads, Raisers
<1> QED
    BY <1>1, <1>2 DEF Grounded

LEMMA GroundedStep == Grounded /\ [IrqNext]_irqVars => Grounded' /\ Grown
BY TypedStep, HolderWritesStep, StoredReasonStep DEF Grounded
-----------------------------------------------------------------------------
(* Where the raises lie                                                    *)

LEMMA OldBudget ==
    ASSUME Typed, Grown
    PROVE  \A i \in 1..Len(flag) : BudgetUp(i)' <=> BudgetUp(i)
BY DEF Typed, Grown, BudgetUp

LEMMA UpIsUp == \A c, r : r = [up |-> TRUE, carries |-> c] => r.up
OBVIOUS

LEMMA SomeLens ==
    ASSUME Typed
    PROVE  /\ Len(flag) \in Nat /\ lock.carries.flag \in Nat
           /\ lock.carries.flag \in 1..Len(flag)
           /\ seen["owner"].flag \in 1..Len(flag) /\ seen["owner"].flag \in Nat
           /\ seen["owner"].reason \in 1..Len(reason)
           /\ "owner" \in Threads /\ "watchdog" \in Threads /\ "foreign" \in Threads
<1>1. seen \in [Threads -> Views] /\ lock.carries \in Views /\ "owner" \in Threads
    BY DEF Typed, Threads
<1> QED
    BY <1>1, LenTypes DEF Views, Threads

LEMMA NextLens ==
    ASSUME Typed'
    PROVE  /\ Len(flag') \in Nat /\ lock'.carries.flag \in Nat
           /\ lock'.carries.flag \in 1..Len(flag')
           /\ seen'["owner"].flag \in 1..Len(flag') /\ seen'["owner"].flag \in Nat
<1>1. /\ seen' \in [Threads -> Views'] /\ lock'.carries \in Views' /\ "owner" \in Threads
      /\ Len(flag') \in Nat
    BY DEF Typed, Threads
<1>2. seen'["owner"] \in Views'
    BY <1>1
<1> QED
    BY <1>1, <1>2 DEF Views

LEMMA BudgetBehindLockStep ==
    ASSUME Grounded, BudgetBehindLock, [IrqNext]_irqVars
    PROVE  BudgetBehindLock'
<1>1. Typed /\ Grown /\ Typed' /\ HolderWrites /\ StoredReason
    BY GroundedStep DEF Grounded
<1>2. ASSUME Len(flag') = Len(flag), lock'.carries.flag >= lock.carries.flag
      PROVE  BudgetBehindLock'
    <2>1. lock'.carries.flag \in Nat
        BY <1>1, NextLens
    <2> QED
        BY <1>1, <1>2, <2>1, OldBudget, SomeLens DEF BudgetBehindLock
<1>3. ASSUME Len(flag') = Len(flag) + 1, lock' = lock,
             \/ ~flag'[Len(flag) + 1].up
             \/ reason'[flag'[Len(flag) + 1].carries] = "abort"
      PROVE  BudgetBehindLock'
    <2> SUFFICES ASSUME NEW i \in 1..Len(flag'), BudgetUp(i)' PROVE i <= lock'.carries.flag
        BY DEF BudgetBehindLock
    <2>1. i # Len(flag) + 1
        BY <1>3 DEF BudgetUp
    <2>2. i \in 1..Len(flag)
        BY <1>1, <1>3, <2>1, SomeLens
    <2> QED
        BY <1>1, <1>3, <2>2, OldBudget DEF BudgetBehindLock
<1>4. CASE WatchdogBegins \/ OwnerTrips
    <2>1. PICK t \in Raisers, why \in Budgets : Trip(t, why)
        BY <1>4 DEF WatchdogBegins, OwnerTrips, Raisers
    <2>2. flag' = flag /\ lock'.carries = lock.carries
        BY <1>1, <2>1, TripEffect
    <2> QED
        BY <1>1, <1>2, <2>2, SomeLens
<1>5. CASE WatchdogDone \/ OwnerTripped
    <2>1. PICK t \in Raisers : TripDone(t)
        BY <1>5 DEF WatchdogDone, OwnerTripped, Raisers
    <2>2. lock'.carries.flag = Len(flag') /\ Len(flag') \in Nat
        BY <1>1, <2>1, TripDoneEffect, NextLens
    <2> QED
        BY <2>2 DEF BudgetBehindLock
<1>6. CASE InterruptDone
    <2>1. /\ writing["foreign"] = "abort" /\ reason' = reason
          /\ flag'[Len(flag) + 1] = [up |-> TRUE, carries |-> seen["foreign"].reason]
          /\ Len(flag') = Len(flag) + 1 /\ lock' = lock
        BY <1>1, <1>6, InterruptDoneEffect DEF HolderWrites
    <2>2. reason[seen["foreign"].reason] = "abort"
        BY <1>1, <2>1, SomeLens DEF StoredReason
    <2> QED
        BY <1>3, <2>1, <2>2
<1>7. CASE ClearFlag
    <2>1. /\ flag'[Len(flag) + 1] = [up |-> FALSE, carries |-> 1]
          /\ Len(flag') = Len(flag) + 1 /\ lock' = lock
        BY <1>1, <1>7, ClearFlagEffect
    <2> QED
        BY <1>3, <2>1
<1>8. CASE InterruptBegins \/ ClearReason \/ OwnerLearns
    BY <1>1, <1>2, <1>8, InterruptEffect, ClearReasonEffect, LearnEffect, SomeLens
<1>9. CASE UNCHANGED irqVars
    BY <1>1, <1>2, <1>9, SomeLens DEF irqVars
<1> QED
    BY <1>4, <1>5, <1>6, <1>7, <1>8, <1>9, Grouped

LEMMA BudgetBehindOwnerStep ==
    ASSUME Grounded, BudgetBehindLock, BudgetBehindOwner, [IrqNext]_irqVars
    PROVE  BudgetBehindOwner'
<1>1. Typed /\ Grown /\ Typed' /\ HolderWrites /\ DisarmedIsQuiet /\ StoredReason
    BY GroundedStep DEF Grounded
<1> SUFFICES ASSUME ~InCall', NEW i \in 1..Len(flag'), BudgetUp(i)'
             PROVE  /\ i <= seen'["owner"].flag
                    /\ "flag" \notin owner'.uncleared => i < seen'["owner"].flag
    BY DEF BudgetBehindOwner
<1>2. ASSUME ~InCall, Len(flag') = Len(flag), seen'["owner"].flag = seen["owner"].flag,
             "flag" \notin owner'.uncleared => "flag" \notin owner.uncleared
      PROVE  /\ i <= seen'["owner"].flag
             /\ "flag" \notin owner'.uncleared => i < seen'["owner"].flag
    BY <1>1, <1>2, OldBudget DEF BudgetBehindOwner
<1>3. CASE InterruptBegins
    BY <1>1, <1>2, <1>3, InterruptEffect DEF InCall, Raisers
<1>4. CASE ClearReason
    <2>1. /\ flag' = flag /\ seen'["owner"].flag = seen["owner"].flag
          /\ owner'.uncleared = owner.uncleared \ {"reason"}
          /\ "reason" \in owner.uncleared
        BY <1>1, <1>4, ClearReasonEffect
    <2>2. ~InCall
        BY <1>1, <2>1 DEF DisarmedIsQuiet, InCall
    <2> QED
        BY <1>2, <2>1, <2>2
<1>5. CASE ClearFlag
    <2>1. /\ flag'[Len(flag) + 1] = [up |-> FALSE, carries |-> 1]
          /\ Len(flag') = Len(flag) + 1 /\ seen'["owner"].flag = Len(flag')
        BY <1>1, <1>5, ClearFlagEffect
    <2>2. i # Len(flag) + 1
        BY <2>1 DEF BudgetUp
    <2> QED
        BY <1>1, <2>1, <2>2, SomeLens
<1>6. CASE InterruptDone
    <2>1. /\ writing["foreign"] = "abort" /\ reason' = reason /\ owner' = owner
          /\ flag'[Len(flag) + 1] = [up |-> TRUE, carries |-> seen["foreign"].reason]
          /\ Len(flag') = Len(flag) + 1 /\ seen'["owner"] = seen["owner"]
        BY <1>1, <1>6, InterruptDoneEffect DEF HolderWrites, Raisers
    <2>2. reason[seen["foreign"].reason] = "abort"
        BY <1>1, <2>1, SomeLens DEF StoredReason
    <2>3. i \in 1..Len(flag)
        BY <1>1, <2>1, <2>2, SomeLens DEF BudgetUp
    <2> QED
        BY <1>1, <2>1, <2>3, OldBudget DEF BudgetBehindOwner, InCall
<1>7. CASE WatchdogBegins
    BY <1>7 DEF WatchdogBegins, InCall
<1>8. CASE OwnerTrips
    <2>1. owner'.at \in {"trip", "boundary"}
        BY <1>1, <1>8 DEF OwnerTrips, Typed
    <2> QED
        BY <2>1 DEF InCall
<1>9. CASE WatchdogDone
    <2>1. writing["watchdog"] # "none" /\ owner' = owner
        BY <1>9 DEF WatchdogDone, TripDone
    <2> QED
        BY <1>1, <2>1 DEF HolderWrites, DisarmedIsQuiet, InCall, Raisers
<1>10. CASE OwnerTripped
    <2>1. owner'.at \in {"raise", "boundary"}
        BY <1>1, <1>10 DEF OwnerTripped, Typed
    <2> QED
        BY <2>1 DEF InCall
<1>11. CASE Disarm
    <2>1. /\ seen' = Synced("owner") /\ lock' = [lock EXCEPT !.carries = seen'["owner"]]
          /\ "flag" \in owner'.uncleared /\ flag' = flag
        BY <1>1, <1>11 DEF Disarm, Typed
    <2>2. seen'["owner"].flag >= lock.carries.flag
        BY <1>1, <2>1, OwnerSynced
    <2>3. i <= lock.carries.flag /\ seen'["owner"].flag \in Nat
        BY <1>1, <2>1, OldBudget, NextLens DEF BudgetBehindLock
    <2> QED
        BY <1>1, <2>1, <2>2, <2>3, SomeLens
<1>12. CASE OwnerLearns /\ ~Disarm
    <2>1. owner'.at \in {"lua", "left", "sample", "boundary", "raise", "unfenced"}
        BY <1>1, <1>12
           DEF OwnerLearns, Enter, Raise, Return, Sample, Boundary, PollFlag, Typed
    <2> QED
        BY <2>1 DEF InCall
<1>13. CASE UNCHANGED irqVars
    BY <1>2, <1>13 DEF irqVars, InCall
<1> QED
    BY <1>3, <1>4, <1>5, <1>6, <1>7, <1>8, <1>9, <1>10, <1>11, <1>12, <1>13, Grouped

LEMMA TripBehindLockStep ==
    ASSUME Grounded, TripBehindLock, [IrqNext]_irqVars
    PROVE  TripBehindLock'
<1>1. Typed /\ Grown /\ Typed' /\ HolderWrites /\ DisarmedIsQuiet /\ StoredReason
    BY GroundedStep DEF Grounded
<1>2. /\ lock'.carries.flag \in 1..Len(flag') /\ lock.carries.flag \in 1..Len(flag)
      /\ Len(flag') \in Nat /\ Len(flag) \in Nat
    BY <1>1, NextLens, SomeLens
<1> SUFFICES ASSUME InCall', tripped', NEW i \in lock'.carries.flag..Len(flag')
             PROVE  flag'[i].up
    BY DEF TripBehindLock, AllUpFrom
<1>3. ASSUME InCall, tripped, lock'.carries.flag >= lock.carries.flag, i \in 1..Len(flag)
      PROVE  flag'[i].up
    BY <1>1, <1>2, <1>3, SomeLens DEF TripBehindLock, AllUpFrom, Grown
<1>4. CASE WatchdogBegins \/ OwnerTrips
    <2>1. PICK t \in Raisers, why \in Budgets : Trip(t, why)
        BY <1>4 DEF WatchdogBegins, OwnerTrips, Raisers
    <2>2. flag' = flag /\ lock'.carries = lock.carries
        BY <1>1, <2>1, TripEffect
    <2>3. InCall /\ tripped' = tripped
        BY <1>4 DEF WatchdogBegins, OwnerTrips, InCall
    <2> QED
        BY <1>1, <1>2, <1>3, <2>2, <2>3, SomeLens
<1>5. CASE WatchdogDone \/ OwnerTripped
    <2>1. PICK t \in Raisers : TripDone(t)
        BY <1>5 DEF WatchdogDone, OwnerTripped, Raisers
    <2>2. /\ lock'.carries.flag = Len(flag') /\ Len(flag') = Len(flag) + 1
          /\ flag'[Len(flag) + 1] = [up |-> TRUE, carries |-> seen[t].reason]
        BY <1>1, <2>1, TripDoneEffect
    <2>3. i = Len(flag) + 1
        BY <1>2, <2>2
    <2>4. flag'[i] = [up |-> TRUE, carries |-> seen[t].reason]
        BY <2>2, <2>3
    <2> QED
        BY <2>4, UpIsUp, Zenon
<1>6. CASE InterruptBegins
    <2>1. flag' = flag /\ lock' = lock /\ owner' = owner /\ tripped' = tripped
        BY <1>1, <1>6, InterruptEffect
    <2>2. InCall /\ tripped /\ lock'.carries.flag >= lock.carries.flag /\ i \in 1..Len(flag)
        BY <1>1, <1>2, <2>1, SomeLens DEF InCall
    <2> QED
        BY <1>3, <2>2
<1>7. CASE InterruptDone
    <2>1. /\ flag'[Len(flag) + 1] = [up |-> TRUE, carries |-> seen["foreign"].reason]
          /\ Len(flag') = Len(flag) + 1
          /\ lock' = lock /\ owner' = owner /\ tripped' = tripped
        BY <1>1, <1>7, InterruptDoneEffect
    <2>2. CASE i = Len(flag) + 1
        BY <2>1, <2>2, UpIsUp, Zenon
    <2>3. CASE i # Len(flag) + 1
        BY <1>1, <1>2, <1>3, <2>1, <2>3, SomeLens DEF InCall
    <2> QED
        BY <2>2, <2>3
<1>8. CASE ClearFlag \/ ClearReason
    <2>1. owner.at = "disarmed"
        BY <1>1, <1>8 DEF ClearFlag, ClearReason, DisarmedIsQuiet
    <2>2. owner'.at \in {"disarmed", "idle"}
        BY <1>1, <1>8, <2>1, ClearFlagEffect, ClearReasonEffect
    <2> QED
        BY <2>2 DEF InCall
<1>9. CASE Enter
    BY <1>9 DEF Enter
<1>10. CASE OwnerLearns /\ ~Enter
    <2>1. tripped' = tripped /\ InCall
        BY <1>10 DEF OwnerLearns, Raise, Return, Sample, Boundary, PollFlag, Disarm, InCall
    <2> QED
        BY <1>1, <1>2, <1>3, <1>10, <2>1, LearnEffect, SomeLens
<1>11. CASE UNCHANGED irqVars
    BY <1>1, <1>2, <1>3, <1>11, SomeLens DEF irqVars, InCall
<1> QED
    BY <1>4, <1>5, <1>6, <1>7, <1>8, <1>9, <1>10, <1>11, Grouped

LEMMA TripBehindBoundaryStep ==
    ASSUME Grounded, TripBehindLock, TripBehindBoundary, [IrqNext]_irqVars
    PROVE  TripBehindBoundary'
<1>1. Typed /\ Grown /\ Typed' /\ HolderWrites /\ DisarmedIsQuiet /\ StoredReason
    BY GroundedStep DEF Grounded
<1>2. /\ seen'["owner"].flag \in 1..Len(flag') /\ lock.carries.flag \in 1..Len(flag)
      /\ seen["owner"].flag \in 1..Len(flag) /\ Len(flag') \in Nat /\ Len(flag) \in Nat
    BY <1>1, NextLens, SomeLens
<1> SUFFICES ASSUME owner'.at = "boundary", tripped', NEW i \in seen'["owner"].flag..Len(flag')
             PROVE  flag'[i].up
    BY DEF TripBehindBoundary, AllUpFrom
<1>3. ASSUME owner.at = "boundary", tripped, seen'["owner"].flag = seen["owner"].flag,
             i \in 1..Len(flag)
      PROVE  flag'[i].up
    BY <1>1, <1>2, <1>3, SomeLens DEF TripBehindBoundary, AllUpFrom, Grown
<1>4. ASSUME InCall, tripped, seen'["owner"].flag >= lock.carries.flag, i \in 1..Len(flag)
      PROVE  flag'[i].up
    BY <1>1, <1>2, <1>4, SomeLens DEF TripBehindLock, AllUpFrom, Grown
<1>5. CASE WatchdogBegins
    <2>1. PICK why \in Budgets : Trip("watchdog", why)
        BY <1>5 DEF WatchdogBegins
    <2>2. flag' = flag /\ seen'["owner"] = seen["owner"]
        BY <1>1, <2>1, TripEffect DEF Raisers, Threads
    <2> QED
        BY <1>1, <1>2, <1>3, <1>5, <2>2, SomeLens DEF WatchdogBegins
<1>6. CASE OwnerTrips
    <2>1. PICK why \in Budgets : Trip("owner", why)
        BY <1>6 DEF OwnerTrips
    <2>2. flag' = flag /\ seen'["owner"].flag >= lock.carries.flag
        BY <1>1, <2>1, TripEffect DEF Raisers, Threads
    <2> QED
        BY <1>1, <1>2, <1>4, <1>6, <2>2, SomeLens DEF OwnerTrips, InCall
<1>7. CASE WatchdogDone
    <2>a. TripDone("watchdog") /\ "watchdog" \in Raisers /\ owner' = owner
        BY <1>7 DEF WatchdogDone, Raisers
    <2>1. /\ Len(flag') = Len(flag) + 1
          /\ flag'[Len(flag) + 1] = [up |-> TRUE, carries |-> seen["watchdog"].reason]
          /\ seen'["owner"] = seen["owner"] /\ owner' = owner
          /\ tripped' = (tripped \/ owner.at # "boundary")
        BY <1>1, <2>a, TripDoneEffect, SomeLens
    <2>2. CASE i = Len(flag) + 1
        BY <2>1, <2>2, UpIsUp, Zenon
    <2>3. CASE i # Len(flag) + 1
        <3>1. owner.at = "boundary" /\ tripped
            BY <2>1
        <3>2. i \in 1..Len(flag)
            BY <1>2, <2>1, <2>3
        <3> QED
            BY <1>3, <2>1, <3>1, <3>2
    <2> QED
        BY <2>2, <2>3
<1>8. CASE OwnerTripped
    <2>a. TripDone("owner") /\ "owner" \in Raisers
        BY <1>8 DEF OwnerTripped, Raisers
    <2>1. /\ seen'["owner"].flag = Len(flag') /\ Len(flag') = Len(flag) + 1
          /\ flag'[Len(flag) + 1] = [up |-> TRUE, carries |-> seen["owner"].reason]
        BY <1>1, <2>a, TripDoneEffect
    <2>2. i = Len(flag) + 1
        BY <1>2, <2>1
    <2>3. flag'[i] = [up |-> TRUE, carries |-> seen["owner"].reason]
        BY <2>1, <2>2
    <2> QED
        BY <2>3, UpIsUp, Zenon
<1>9. CASE InterruptBegins
    <2>1. /\ flag' = flag /\ owner' = owner /\ tripped' = tripped
          /\ seen'["owner"] = seen["owner"]
        BY <1>1, <1>9, InterruptEffect DEF Raisers
    <2>2. owner.at = "boundary" /\ tripped /\ i \in 1..Len(flag)
        BY <1>2, <2>1
    <2> QED
        BY <1>3, <2>1, <2>2
<1>10. CASE InterruptDone
    <2>1. /\ flag'[Len(flag) + 1] = [up |-> TRUE, carries |-> seen["foreign"].reason]
          /\ Len(flag') = Len(flag) + 1 /\ seen'["owner"] = seen["owner"] /\ owner' = owner /\ tripped' = tripped
        BY <1>1, <1>10, InterruptDoneEffect DEF Raisers
    <2>2. CASE i = Len(flag) + 1
        BY <2>1, <2>2, UpIsUp, Zenon
    <2>3. CASE i # Len(flag) + 1
        BY <1>1, <1>2, <1>3, <2>1, <2>3, SomeLens
    <2> QED
        BY <2>2, <2>3
<1>11. CASE ClearFlag \/ ClearReason
    <2>1. owner.at = "disarmed"
        BY <1>1, <1>11 DEF ClearFlag, ClearReason, DisarmedIsQuiet
    <2> QED
        BY <1>1, <1>11, <2>1, ClearFlagEffect, ClearReasonEffect
<1>12. CASE Sample
    <2>1. /\ seen' = Synced("owner") /\ lock' = [lock EXCEPT !.carries = seen'["owner"]]
          /\ owner.at = "sample" /\ tripped' = tripped /\ flag' = flag
        BY <1>12 DEF Sample
    <2>2. seen'["owner"].flag >= lock.carries.flag
        BY <1>1, <2>1, OwnerSynced
    <2> QED
        BY <1>1, <1>2, <1>4, <2>1, <2>2, SomeLens DEF InCall
<1>13. CASE OwnerLearns /\ ~Sample
    BY <1>1, <1>13 DEF OwnerLearns, Enter, Raise, Return, Boundary, PollFlag, Disarm, Typed
<1>14. CASE UNCHANGED irqVars
    BY <1>1, <1>2, <1>3, <1>14, SomeLens DEF irqVars
<1> QED
    BY <1>5, <1>6, <1>7, <1>8, <1>9, <1>10, <1>11, <1>12, <1>13, <1>14, Grouped
-----------------------------------------------------------------------------
(* What the raises carry                                                   *)

LEMMA AbortsCountedStep ==
    ASSUME Grounded, AbortsCounted, [IrqNext]_irqVars
    PROVE  /\ AbortsCounted'
           /\ NoAborts' => NoAborts /\ ~InterruptBegins /\ ~InterruptDone
<1>1. /\ Typed /\ Grown /\ Typed' /\ HolderWrites /\ "foreign" \in Threads
      /\ left \in [Threads -> Nat] /\ left["foreign"] \in Nat
      /\ writing \in [Threads -> IrqReasons]
    BY GroundedStep DEF Grounded, Typed, Threads
<1>2. MaxAborts \in Nat
    BY IrqFlagAssumption
<1>3. ASSUME left'["foreign"] = left["foreign"], writing'["foreign"] = writing["foreign"],
             Len(reason') = Len(reason) \/ reason'[Len(reason) + 1] # "abort"
      PROVE  AbortsCounted' /\ (NoAborts' => NoAborts)
    BY <1>1, <1>3, LenTypes DEF AbortsCounted, NoAborts, Grown
<1>4. ASSUME InterruptDone PROVE ~NoAborts
    BY <1>1, <1>4 DEF InterruptDone, AbortsCounted
<1>5. ASSUME InterruptBegins PROVE ~NoAborts' /\ left'["foreign"] <= MaxAborts
    <2>1. left'["foreign"] = left["foreign"] - 1
        BY <1>1, <1>5, InterruptEffect
    <2> QED
        BY <1>1, <1>2, <2>1 DEF AbortsCounted, NoAborts
<1>6. ASSUME ~InterruptBegins, ~InterruptDone PROVE AbortsCounted' /\ (NoAborts' => NoAborts)
    <2>1. CASE WatchdogBegins \/ OwnerTrips
        <3>1. PICK t \in Raisers, why \in Budgets : Trip(t, why)
            BY <2>1 DEF WatchdogBegins, OwnerTrips, Raisers
        <3>2. /\ writing' = [writing EXCEPT ![t] = why] /\ left'["foreign"] = left["foreign"]
              /\ reason'[Len(reason) + 1] = why
            BY <1>1, <3>1, TripEffect
        <3>3. t # "foreign" /\ why # "abort"
            BY DEF Raisers, Budgets
        <3> QED
            BY <1>1, <1>3, <3>2, <3>3
    <2>2. CASE WatchdogDone \/ OwnerTripped
        <3>1. PICK t \in Raisers : TripDone(t)
            BY <2>2 DEF WatchdogDone, OwnerTripped, Raisers
        <3>2. /\ writing' = [writing EXCEPT ![t] = "none"] /\ left' = left /\ reason' = reason
            BY <1>1, <3>1, TripDoneEffect
        <3>3. t # "foreign"
            BY DEF Raisers
        <3> QED
            BY <1>1, <1>3, <3>2, <3>3
    <2>3. CASE ClearFlag \/ ClearReason \/ OwnerLearns
        BY <1>1, <1>3, <2>3, ClearFlagEffect, ClearReasonEffect, LearnEffect
    <2>4. CASE UNCHANGED irqVars
        BY <1>3, <2>4 DEF irqVars
    <2> QED
        BY <1>6, <2>1, <2>2, <2>3, <2>4, Grouped
<1>7. CASE InterruptBegins
    BY <1>1, <1>5, <1>7, InterruptEffect, InterruptDoneEffect DEF AbortsCounted, NoAborts, InterruptDone
<1>8. CASE InterruptDone
    <2>1. left' = left /\ ~NoAborts /\ ~NoAborts'
        BY <1>1, <1>4, <1>8, InterruptDoneEffect DEF NoAborts
    <2> QED
        BY <1>8, <2>1 DEF AbortsCounted
<1> QED
    BY <1>6, <1>7, <1>8

\* The same of the next state.
NamedNext(j) == \A k \in j..Len(reason') : reason'[k] # "none"

LEMMA NamedKept ==
    ASSUME Typed, Grown, NEW j \in Nat, NamesAReason(j),
           Len(reason') = Len(reason) \/ reason'[Len(reason) + 1] # "none", j # 0
    PROVE  NamedNext(j)
BY LenTypes DEF NamesAReason, NamedNext, Grown

\* Only the clearing stores "none".
LEMMA NoneIsCleared ==
    ASSUME Grounded, [IrqNext]_irqVars, ~ClearReason
    PROVE  Len(reason') = Len(reason) \/ reason'[Len(reason) + 1] # "none"
<1>1. Typed
    BY DEF Grounded
<1>2. CASE WatchdogBegins \/ OwnerTrips
    <2>1. PICK t \in Raisers, why \in Budgets : Trip(t, why)
        BY <1>2 DEF WatchdogBegins, OwnerTrips, Raisers
    <2> QED
        BY <1>1, <2>1, TripEffect DEF Budgets
<1>3. CASE WatchdogDone \/ OwnerTripped
    BY <1>3 DEF WatchdogDone, OwnerTripped, TripDone
<1>4. CASE InterruptBegins \/ InterruptDone \/ ClearFlag \/ OwnerLearns
    BY <1>1, <1>4, InterruptEffect, InterruptDoneEffect, ClearFlagEffect, LearnEffect
<1>5. CASE UNCHANGED irqVars
    BY <1>5 DEF irqVars
<1> QED
    BY <1>2, <1>3, <1>4, <1>5, Grouped

LEMMA ClearingIsOutside ==
    ASSUME Grounded, ClearFlag \/ ClearReason
    PROVE  ~InCall /\ ~InCall' /\ \A t \in Raisers : writing'[t] = "none"
<1>1. Typed /\ HolderWrites /\ DisarmedIsQuiet /\ owner.at = "disarmed"
    BY DEF Grounded, ClearFlag, ClearReason, DisarmedIsQuiet
<1>2. owner'.at \in {"disarmed", "idle"} /\ writing' = writing
    BY <1>1, ClearFlagEffect, ClearReasonEffect
<1> QED
    BY <1>1, <1>2 DEF InCall, HolderWrites, DisarmedIsQuiet, Raisers

LEMMA WriterNamesStep ==
    ASSUME Grounded, WriterNames, [IrqNext]_irqVars
    PROVE  WriterNames'
<1>1. /\ Typed /\ Grown /\ Typed' /\ HolderWrites /\ DisarmedIsQuiet
      /\ writing \in [Threads -> IrqReasons] /\ Raisers \subseteq Threads
      /\ \A t \in Threads : seen[t].reason \in 1..Len(reason)
    BY GroundedStep DEF Grounded, Typed, Raisers, Threads, Views
<1> SUFFICES ASSUME NEW u \in Raisers, writing'[u] # "none"
             PROVE  NamedNext(seen'[u].reason)
    BY DEF WriterNames, NamesAReason, NamedNext
<1>2. ~ClearReason /\ ~ClearFlag
    BY ClearingIsOutside
<1>3. ASSUME writing[u] # "none", seen'[u] = seen[u] PROVE NamedNext(seen'[u].reason)
    <2> DEFINE j == seen[u].reason
    <2>1. PICK k \in Nat \ {0} : k = j
        BY <1>1, LenTypes
    <2>2. NamesAReason(k)
        BY <1>3, <2>1 DEF WriterNames
    <2>3. NamedNext(k)
        BY <1>1, <1>2, <2>2, NoneIsCleared, NamedKept
    <2> QED
        BY <1>3, <2>1, <2>3
<1>4. ASSUME NEW t \in Raisers, NEW why \in Budgets, Trip(t, why)
      PROVE  NamedNext(seen'[u].reason)
    <2>1. /\ Len(reason') = Len(reason) + 1 /\ reason'[Len(reason) + 1] = why
          /\ seen'[t].reason = Len(reason') /\ lock.holder = "nobody"
          /\ writing' = [writing EXCEPT ![t] = why]
        BY <1>1, <1>4, TripEffect
    <2>2. u = t
        BY <1>1, <2>1 DEF HolderWrites, Raisers
    <2>3. why # "none"
        BY DEF Budgets
    <2> QED
        BY <1>1, <2>1, <2>2, <2>3, LenTypes DEF NamedNext
<1>5. CASE WatchdogBegins \/ OwnerTrips
    BY <1>4, <1>5 DEF WatchdogBegins, OwnerTrips, Raisers
<1>6. CASE WatchdogDone \/ OwnerTripped
    <2>1. PICK t \in Raisers : TripDone(t)
        BY <1>6 DEF WatchdogDone, OwnerTripped, Raisers
    <2>2. writing' = [writing EXCEPT ![t] = "none"] /\ writing[t] # "none"
        BY <1>1, <2>1, TripDoneEffect
    <2> QED
        BY <1>1, <2>2 DEF HolderWrites
<1>7. CASE InterruptBegins \/ InterruptDone
    <2>1. seen'[u] = seen[u] /\ writing'[u] = writing[u]
        BY <1>1, <1>7, InterruptEffect, InterruptDoneEffect DEF Raisers
    <2> QED
        BY <1>3, <2>1
<1>8. CASE OwnerLearns
    <2>1. writing["owner"] = "none"
        BY <1>1, <1>8 DEF OwnerLearns, Enter, Raise, Return, Sample, Boundary, Disarm, PollFlag,
                          LockFree, HolderWrites, Raisers
    <2>2. u # "owner" /\ u \in Threads /\ writing[u] # "none"
        BY <1>1, <1>8, <2>1, LearnEffect
    <2> QED
        BY <1>1, <1>3, <1>8, <2>2, LearnEffect
<1>9. CASE UNCHANGED irqVars
    BY <1>3, <1>9 DEF irqVars
<1> QED
    BY <1>2, <1>5, <1>6, <1>7, <1>8, <1>9, Grouped

LEMMA FlagNamesStep ==
    ASSUME Grounded, BudgetBehindOwner, AbortsCounted, WriterNames, FlagNames, [IrqNext]_irqVars
    PROVE  FlagNames'
<1>1. /\ Typed /\ Grown /\ Typed' /\ HolderWrites /\ DisarmedIsQuiet
      /\ \A i \in 1..Len(flag) : flag[i].carries \in 1..Len(reason)
    BY GroundedStep DEF Grounded, Typed
<1>2. /\ seen'["owner"].flag \in 1..Len(flag') /\ Len(flag') \in Nat
      /\ seen["owner"].flag \in 1..Len(flag) /\ Len(flag) \in Nat
    BY <1>1, NextLens, SomeLens
<1> SUFFICES ASSUME InCall', NoAborts', NEW i \in seen'["owner"].flag..Len(flag'), flag'[i].up
             PROVE  NamedNext(flag'[i].carries)
    BY DEF FlagNames, NamesAReason, NamedNext
<1>3. ~ClearFlag /\ ~ClearReason
    BY ClearingIsOutside
<1>4. NoAborts /\ ~InterruptBegins /\ ~InterruptDone
    BY AbortsCountedStep
<1>5. ASSUME InCall, seen'["owner"].flag >= seen["owner"].flag, i \in 1..Len(flag)
      PROVE  NamedNext(flag'[i].carries)
    <2>1. PICK k \in Nat \ {0} : k = flag[i].carries /\ flag'[i] = flag[i]
        BY <1>1, <1>5, LenTypes DEF Grown
    <2>2. i \in seen["owner"].flag..Len(flag)
        BY <1>1, <1>2, <1>5, SomeLens
    <2>3. NamesAReason(k)
        BY <1>4, <1>5, <2>1, <2>2 DEF FlagNames
    <2>4. NamedNext(k)
        BY <1>1, <1>3, <2>3, NoneIsCleared, NamedKept
    <2> QED
        BY <2>1, <2>4
<1>6. ASSUME NEW t \in Raisers, TripDone(t), i = Len(flag) + 1
      PROVE  NamedNext(flag'[i].carries)
    <2>1. /\ writing[t] # "none" /\ reason' = reason
          /\ flag'[i] = [up |-> TRUE, carries |-> seen[t].reason]
        BY <1>1, <1>6, TripDoneEffect
    <2>2. NamesAReason(seen[t].reason)
        BY <2>1 DEF WriterNames
    <2> QED
        BY <2>1, <2>2 DEF NamesAReason, NamedNext
<1>7. CASE WatchdogBegins \/ OwnerTrips
    <2>1. PICK t \in Raisers, why \in Budgets : Trip(t, why)
        BY <1>7 DEF WatchdogBegins, OwnerTrips, Raisers
    <2>2. flag' = flag /\ seen'["owner"].flag >= seen["owner"].flag
        <3>1. /\ flag' = flag /\ seen'[t].flag >= seen[t].flag
              /\ \A u \in Threads : u # t => seen'[u] = seen[u]
            BY <1>1, <2>1, TripEffect
        <3>2. seen["owner"].flag \in Nat /\ "owner" \in Threads
            BY <1>1, SomeLens
        <3>3. CASE t = "owner"
            BY <3>1, <3>3
        <3>4. CASE t # "owner"
            BY <3>1, <3>2, <3>4
        <3> QED
            BY <3>1, <3>3, <3>4
    <2>3. InCall
        BY <1>7 DEF WatchdogBegins, OwnerTrips, InCall
    <2> QED
        BY <1>1, <1>2, <1>5, <2>2, <2>3, SomeLens
<1>8. CASE WatchdogDone \/ OwnerTripped
    <2>1. PICK t \in Raisers : TripDone(t)
        BY <1>8 DEF WatchdogDone, OwnerTripped, Raisers
    <2>a. /\ writing[t] # "none" /\ Len(flag') = Len(flag) + 1
          /\ seen'["owner"] = seen["owner"] \/ seen'["owner"].flag = Len(flag')
        BY <1>1, <2>1, TripDoneEffect, SomeLens
    <2>2. /\ writing[t] # "none" /\ Len(flag') = Len(flag) + 1
          /\ seen'["owner"].flag >= seen["owner"].flag
        BY <1>2, <2>a
    <2>3. InCall
        BY <1>1, <2>2 DEF HolderWrites, DisarmedIsQuiet, Raisers
    <2>4. i \in 1..Len(flag) \/ i = Len(flag) + 1
        BY <1>1, <1>2, <2>2, SomeLens
    <2> QED
        BY <1>5, <1>6, <2>1, <2>2, <2>3, <2>4
<1>9. CASE Enter
    <2>1. /\ owner.at = "idle" /\ flag' = flag
          /\ seen'["owner"].flag >= seen["owner"].flag
        BY <1>1, <1>9, LearnEffect DEF Enter, OwnerLearns
    <2>2. i \in 1..Len(flag) /\ i >= seen["owner"].flag /\ flag[i].up
        BY <1>1, <1>2, <2>1, SomeLens
    <2>3. BudgetUp(i)
        BY <1>1, <1>4, <2>2 DEF BudgetUp, AbortsCounted
    <2>4. i < seen["owner"].flag
        BY <1>1, <2>1, <2>2, <2>3 DEF BudgetBehindOwner, InCall, DisarmedIsQuiet
    <2> QED
        BY <2>2, <2>4, <1>1, SomeLens
<1>10. CASE OwnerLearns /\ ~Enter
    <2>1. InCall
        BY <1>10 DEF OwnerLearns, Raise, Return, Sample, Boundary, PollFlag, Disarm, InCall
    <2> QED
        BY <1>1, <1>2, <1>5, <1>10, <2>1, LearnEffect, SomeLens
<1>11. CASE UNCHANGED irqVars
    BY <1>1, <1>2, <1>5, <1>11, SomeLens DEF irqVars, InCall
<1> QED
    BY <1>3, <1>4, <1>7, <1>8, <1>9, <1>10, <1>11, Grouped

LEMMA RaiseNamesStep ==
    ASSUME Grounded, AbortsCounted, WriterNames, FlagNames, RaiseNames, [IrqNext]_irqVars
    PROVE  RaiseNames'
<1>1. /\ Typed /\ Grown /\ Typed' /\ HolderWrites /\ DisarmedIsQuiet
      /\ \A i \in 1..Len(flag) : flag[i].carries \in 1..Len(reason)
      /\ seen \in [Threads -> Views]
    BY GroundedStep DEF Grounded, Typed
<1> SUFFICES ASSUME owner'.at = "raise", NoAborts'
             PROVE  NamedNext(seen'["owner"].reason)
    BY DEF RaiseNames, NamesAReason, NamedNext
<1>2. ~ClearFlag /\ ~ClearReason
    BY ClearingIsOutside DEF InCall
<1>3. NoAborts /\ ~InterruptBegins /\ ~InterruptDone
    BY AbortsCountedStep
<1>4. ASSUME NEW k \in Nat \ {0}, NamesAReason(k), seen'["owner"].reason = k
      PROVE  NamedNext(seen'["owner"].reason)
    <2>1. NamedNext(k)
        BY <1>1, <1>2, <1>4, NoneIsCleared, NamedKept
    <2> QED
        BY <1>4, <2>1
<1>5. seen["owner"].reason \in Nat \ {0}
    BY <1>1, SomeLens, LenTypes
<1>6. CASE WatchdogBegins
    <2>1. seen'["owner"] = seen["owner"] /\ owner' = owner
        BY <1>1, <1>6, TripEffect DEF WatchdogBegins, Raisers, Threads
    <2> QED
        BY <1>3, <1>4, <1>5, <2>1 DEF RaiseNames
<1>7. CASE OwnerTrips
    BY <1>1, <1>7 DEF OwnerTrips, Typed
<1>8. CASE WatchdogDone
    <2>1. seen'["owner"] = seen["owner"] /\ owner' = owner
        BY <1>1, <1>8, TripDoneEffect DEF WatchdogDone, Raisers, Threads
    <2> QED
        BY <1>3, <1>4, <1>5, <2>1 DEF RaiseNames
<1>9. CASE OwnerTripped
    <2>1. seen'["owner"].reason = seen["owner"].reason /\ writing["owner"] # "none"
        BY <1>1, <1>9, TripDoneEffect DEF OwnerTripped, Raisers
    <2>2. NamesAReason(seen["owner"].reason)
        BY <2>1 DEF WriterNames, Raisers
    <2> QED
        BY <1>4, <1>5, <2>1, <2>2
<1>10. ASSUME NEW site \in Sites, PollFlag(site)
       PROVE  NamedNext(seen'["owner"].reason)
    <2>1. PICK i \in 1..Len(flag) :
             /\ Poll(i) /\ flag[i].up
             /\ seen' = [seen EXCEPT !["owner"] =
                           IF site = "check" THEN Fenced(seen["owner"], i)
                           ELSE [seen["owner"] EXCEPT !.flag = i]]
        BY <1>10 DEF PollFlag
    <2>2. site = "check" /\ owner.at = "lua"
        BY <1>1, <1>10 DEF PollFlag, Typed
    <2>3. NamesAReason(flag[i].carries)
        BY <1>3, <2>1, <2>2 DEF FlagNames, InCall, Poll
    <2>4. /\ seen'["owner"] = Fenced(seen["owner"], i)
          /\ Fenced(seen["owner"], i) \in Views
          /\ Fenced(seen["owner"], i).reason >= flag[i].carries
        BY <1>1, <2>1, <2>2, FlagLoaded DEF Threads
    <2>5. PICK k \in Nat \ {0} : k = seen'["owner"].reason
        BY <1>1, <2>4, LenTypes DEF Views
    <2>6. k >= flag[i].carries /\ flag[i].carries \in Nat
        BY <1>1, <2>4, <2>5, LenTypes
    <2>7. NamesAReason(k)
        BY <1>1, <2>3, <2>6, LenTypes DEF NamesAReason
    <2> QED
        BY <1>4, <2>5, <2>7
<1>11. CASE OwnerLearns
    <2>1. \E site \in Sites : PollFlag(site)
        BY <1>1, <1>11 DEF OwnerLearns, Enter, Raise, Return, Sample, Boundary, Disarm, Typed
    <2> QED
        BY <1>10, <2>1
<1>12. CASE UNCHANGED irqVars
    BY <1>3, <1>4, <1>5, <1>12 DEF irqVars, RaiseNames
<1> QED
    BY <1>2, <1>3, <1>6, <1>7, <1>8, <1>9, <1>11, <1>12, Grouped

-----------------------------------------------------------------------------
(* The theorems                                                            *)

IInv ==
  /\ Grounded
  /\ BudgetBehindLock /\ BudgetBehindOwner
  /\ TripBehindLock /\ TripBehindBoundary
  /\ AbortsCounted /\ FlagNames /\ WriterNames /\ RaiseNames

LEMMA IInvInit == IrqInit => IInv
<1> SUFFICES ASSUME IrqInit PROVE IInv
    OBVIOUS
<1>1. Grounded
    BY GroundedInit
<1> DEFINE f == [up |-> FALSE, carries |-> 1]
<1>2. flag = <<f>> /\ reason = <<"none">> /\ f.up = FALSE
    BY DEF IrqInit
<1> HIDE DEF f
<1>3. Len(flag) = 1 /\ ~flag[1].up /\ Len(reason) = 1 /\ reason[1] = "none"
    BY <1>2
<1>4. BudgetBehindLock /\ BudgetBehindOwner
    BY <1>3 DEF BudgetBehindLock, BudgetBehindOwner, BudgetUp
<1>5. TripBehindLock /\ TripBehindBoundary /\ FlagNames /\ RaiseNames /\ WriterNames
    BY DEF IrqInit, TripBehindLock, TripBehindBoundary, FlagNames, RaiseNames, WriterNames, InCall,
           Raisers, Threads
<1>6. AbortsCounted
    BY <1>3, IrqFlagAssumption DEF IrqInit, AbortsCounted, NoAborts, Threads
<1> QED
    BY <1>1, <1>4, <1>5, <1>6 DEF IInv

LEMMA IInvStep == IInv /\ [IrqNext]_irqVars => IInv'
<1> SUFFICES ASSUME IInv, [IrqNext]_irqVars PROVE IInv'
    OBVIOUS
<1>1. Grounded' /\ BudgetBehindLock' /\ BudgetBehindOwner'
    BY GroundedStep, BudgetBehindLockStep, BudgetBehindOwnerStep DEF IInv
<1>2. TripBehindLock' /\ TripBehindBoundary'
    BY TripBehindLockStep, TripBehindBoundaryStep DEF IInv
<1>3. AbortsCounted' /\ FlagNames' /\ WriterNames' /\ RaiseNames'
    BY AbortsCountedStep, FlagNamesStep, WriterNamesStep, RaiseNamesStep DEF IInv
<1> QED
    BY <1>1, <1>2, <1>3 DEF IInv

\* The two bytes' stores, the views of them, the lock and the phases of a raise
\* and of a call fit together as described above, in every execution.
THEOREM StoresCoherent == IrqSpec => []IInv
BY IInvInit, IInvStep, PTL DEF IrqSpec

LEMMA IInvBreach == IInv => BreachDiesWithItsCall
<1> SUFFICES ASSUME IInv, owner.at = "idle", NEW i \in seen["owner"].flag .. Len(flag),
                    flag[i].up, reason[flag[i].carries] # "abort"
             PROVE  FALSE
    BY DEF BreachDiesWithItsCall
<1>1. Typed /\ DisarmedIsQuiet /\ BudgetBehindOwner
    BY DEF IInv, Grounded
<1>2. i \in 1..Len(flag) /\ i >= seen["owner"].flag /\ BudgetUp(i)
    BY <1>1, SomeLens DEF BudgetUp
<1>3. i < seen["owner"].flag
    BY <1>1, <1>2 DEF BudgetBehindOwner, DisarmedIsQuiet, InCall
<1> QED
    BY <1>1, <1>2, <1>3, SomeLens

\* BreachDiesWithItsCall: a budget's raise never reaches the next call.  A raise is
\* made under the slot's lock while it is armed; disarming takes the lock, and the
\* clearing store comes after.
THEOREM BreachDies == IrqSpec => []BreachDiesWithItsCall
BY StoresCoherent, IInvBreach, PTL

LEMMA LeavingStep ==
    ASSUME IInv, [IrqNext]_irqVars, owner.at \in {"raise", "boundary"}, owner'.at = "left"
    PROVE  Raise \/ Boundary
<1>1. Typed /\ DisarmedIsQuiet
    BY DEF IInv, Grounded
<1>2. ~ClearFlag /\ ~ClearReason
    BY <1>1 DEF ClearFlag, ClearReason, DisarmedIsQuiet
<1>3. ~OwnerTripped
    BY <1>1 DEF OwnerTripped, Typed
<1> QED
    BY <1>1, <1>2, <1>3, Grouped
       DEF WatchdogBegins, WatchdogDone, OwnerTrips, InterruptBegins, InterruptDone, OwnerLearns, irqVars,
           Enter, Return, Sample, Disarm, PollFlag

LEMMA SuccessStep ==
    ASSUME IInv, [IrqNext]_irqVars, owner.at = "boundary", owner'.at = "left", owner'.got = "ok"
    PROVE  ~tripped
<1>1. Typed /\ TripBehindBoundary /\ Boundary
    BY LeavingStep DEF IInv, Grounded, Raise
<1>2. PICK i \in 1..Len(flag) :
         /\ Poll(i)
         /\ flag[i].up => \E j \in Fenced(seen["owner"], i).reason .. Len(reason) :
                             owner' = [owner EXCEPT !.at = "left", !.got = reason[j]]
    BY <1>1 DEF Boundary
<1>3. ASSUME flag[i].up PROVE FALSE
    <2>1. PICK j \in Fenced(seen["owner"], i).reason .. Len(reason) :
             owner' = [owner EXCEPT !.at = "left", !.got = reason[j]]
        BY <1>2, <1>3
    <2>2. reason[j] \in IrqReasons
        BY <1>1, <1>2, BothLoaded
    <2>3. owner'.got = reason[j]
        BY <1>1, <2>1 DEF Typed
    <2> QED
        BY <2>2, <2>3 DEF IrqReasons, Budgets
<1> QED
    BY <1>1, <1>2, <1>3 DEF TripBehindBoundary, AllUpFrom, Poll

\* NoSuccessPastATrip: the boundary's relaxed load cannot return a store from
\* before a trip, because the sample took the lock the trip was made under.
THEOREM NoSuccess == IrqSpec => NoSuccessPastATrip
<1>1. IInv /\ [IrqNext]_irqVars =>
        [owner.at = "boundary" /\ owner'.at = "left" /\ owner'.got = "ok" => ~tripped]_irqVars
    BY SuccessStep
<1> QED
    BY <1>1, StoresCoherent, PTL DEF IrqSpec, NoSuccessPastATrip

LEMMA FencedStep ==
    ASSUME IInv, [IrqNext]_irqVars, owner.at \in {"raise", "boundary"}, owner'.at = "left",
           left["foreign"] = MaxAborts
    PROVE  owner'.got # "none"
<1>1. /\ Typed /\ FlagNames /\ RaiseNames /\ NoAborts
      /\ \A i \in 1..Len(flag) : flag[i].carries \in 1..Len(reason)
    BY DEF IInv, Grounded, NoAborts, Typed
<1>2. CASE Raise
    <2>1. PICK i \in seen["owner"].reason .. Len(reason) :
             owner' \in {[owner EXCEPT !.at = "left", !.got = reason[i]],
                        [owner EXCEPT !.at = "lua"]}
        BY <1>2 DEF Raise
    <2>2. owner.at = "raise" /\ owner'.got = reason[i]
        BY <1>1, <1>2, <2>1 DEF Raise, Typed
    <2> QED
        BY <1>1, <2>2 DEF RaiseNames, NamesAReason
<1>3. CASE Boundary
    <2>1. owner.at = "boundary"
        BY <1>3 DEF Boundary
    <2>2. PICK i \in 1..Len(flag) :
             /\ Poll(i)
             /\ IF flag[i].up
                THEN \E j \in Fenced(seen["owner"], i).reason .. Len(reason) :
                        owner' = [owner EXCEPT !.at = "left", !.got = reason[j]]
                ELSE owner' = [owner EXCEPT !.at = "left", !.got = "ok"]
        BY <1>3 DEF Boundary
    <2>3. CASE ~flag[i].up
        BY <1>1, <2>2, <2>3 DEF Typed
    <2>4. CASE flag[i].up
        <3>1. PICK j \in Fenced(seen["owner"], i).reason .. Len(reason) :
                 owner' = [owner EXCEPT !.at = "left", !.got = reason[j]]
            BY <2>2, <2>4
        <3>2. NamesAReason(flag[i].carries)
            BY <1>1, <2>1, <2>2, <2>4 DEF FlagNames, InCall, Poll
        <3>3. j \in 1..Len(reason) /\ j >= flag[i].carries
            BY <1>1, <2>2, BothLoaded
        <3>4. reason[j] # "none"
            BY <1>1, <3>2, <3>3, LenTypes DEF NamesAReason
        <3> QED
            BY <1>1, <3>1, <3>4 DEF Typed
    <2> QED
        BY <2>3, <2>4
<1> QED
    BY <1>2, <1>3, LeavingStep

\* FencedRaiseNamesItsReason: what a fence takes over from a raise's release store
\* includes the reason stored before it, and no later reason is "none".
THEOREM FencedRaise == IrqSpec => FencedRaiseNamesItsReason
<1>1. IInv /\ [IrqNext]_irqVars =>
        [owner.at \in {"raise", "boundary"} /\ owner'.at = "left"
           /\ left["foreign"] = MaxAborts => owner'.got # "none"]_irqVars
    BY FencedStep
<1> QED
    BY <1>1, StoresCoherent, PTL DEF IrqSpec, FencedRaiseNamesItsReason

====
