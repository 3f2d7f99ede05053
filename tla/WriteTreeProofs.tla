--------------------------- MODULE WriteTreeProofs ---------------------------
(***************************************************************************)
(* The tree writer keeps its types, counts its depth and stores an object   *)
(* before it is named, under every fault and whatever happens to the work   *)
(* tree meanwhile.  Frames(O) says both at once: the frames whose entries   *)
(* name objects of O only.  The second part is about what a tree shows:     *)
(* GoodFrames(W, O) are the frames whose entries are those of different     *)
(* files, each as W says the file has been.                                 *)
(* The third is about the bytes of a tree: what the two parsers read out of *)
(* what the writer wrote, entry by entry.                                   *)
(***************************************************************************)
EXTENDS WriteTree, SequenceLemmas, TLAPS

Entries(O) == Seq([mode : ValidModes, name : Names \cup {0}, obj : O])

FrameRecords(O) ==
    [dir : Dirs, len : Nat,
     stage : {"looking", "opening", "reading", "leaving"},
     todo : SUBSET Names, at : Names \cup {0}, exec : BOOLEAN,
     size : Nat, held : SUBSET Contents, entries : Entries(O), ret : Codes,
     listed : SUBSET Names, skipped : SUBSET Names]

Frames(O) ==
    {f \in FrameRecords(O) : /\ f.todo \cup f.skipped \subseteq f.listed
                             /\ f.stage \in {"opening", "reading"} => f.at \in f.listed
                             /\ Len(f.entries) <= MaxTreeEntries}

TreeInv ==
    /\ work \in [Dirs -> [Names -> Nodes]]
    /\ edits \in 0..MaxEdits /\ runs \in 0..MaxRuns
    /\ exit \in Codes \cup {"none", "killed"}
    /\ stack \in Seq(Frames(stored))
    /\ depth = Len(stack) /\ depth <= MaxDepth
    /\ objects \subseteq stored
    /\ \A o \in stored : o.type = "tree" => o.entries \in Entries(stored)

-----------------------------------------------------------------------------
LEMMA SeqGrows ==
    ASSUME NEW S, NEW T, S \subseteq T
    PROVE  Seq(S) \subseteq Seq(T)
<1>1. SUFFICES ASSUME NEW s \in Seq(S) PROVE s \in Seq(T)
  OBVIOUS
<1>2. s \in [1..Len(s) -> T] /\ Len(s) \in Nat
  OBVIOUS
<1> QED
  BY <1>2

LEMMA FramesGrow ==
    ASSUME NEW O, NEW P, O \subseteq P
    PROVE  /\ Entries(O) \subseteq Entries(P)
           /\ Frames(O) \subseteq Frames(P)
           /\ Seq(Frames(O)) \subseteq Seq(Frames(P))
<1>1. [mode : ValidModes, name : Names \cup {0}, obj : O]
          \subseteq [mode : ValidModes, name : Names \cup {0}, obj : P]
  OBVIOUS
<1>2. Entries(O) \subseteq Entries(P)
  BY <1>1, SeqGrows DEF Entries
<1>3. FrameRecords(O) \subseteq FrameRecords(P)
  BY <1>2 DEF FrameRecords
<1>4. Frames(O) \subseteq Frames(P)
  BY <1>3 DEF Frames
<1> QED
  BY <1>2, <1>4, SeqGrows

LEMMA StackFacts ==
    ASSUME NEW S, stack \in Seq(S), stack # <<>>
    PROVE  /\ Len(stack) \in Nat /\ Len(stack) >= 1
           /\ Top \in S
           /\ Below \in Seq(S) /\ Len(Below) = Len(stack) - 1
<1>1. Len(stack) \in Nat /\ Len(stack) >= 1
  BY EmptySeq, LenProperties
<1>2. Top \in S
  BY <1>1, ElementOfSeq DEF Top
<1>3. Below \in Seq(S) /\ Len(Below) = Len(stack) - 1
  <2>1. \A i \in 1..(Len(stack) - 1) : stack[i] \in S
    BY <1>1, ElementOfSeq
  <2>2. /\ SubSeq(stack, 1, Len(stack) - 1) \in Seq(S)
        /\ Len(SubSeq(stack, 1, Len(stack) - 1)) =
              IF 1 <= Len(stack) - 1 THEN Len(stack) - 1 - 1 + 1 ELSE 0
    BY <1>1, <2>1, SubSeqProperties
  <2> DEFINE n == Len(stack)
             k == Len(SubSeq(stack, 1, n - 1))
  <2>3. n \in Nat /\ n >= 1 /\ k = IF 1 <= n - 1 THEN n - 1 - 1 + 1 ELSE 0
    BY <1>1, <2>2
  <2>4. k = n - 1
    <3> HIDE DEF k, n
    <3> QED
      BY <2>3
  <2> QED
    BY <2>2, <2>4, Zenon DEF Below
<1> QED
  BY <1>1, <1>2, <1>3

\* The innermost frame is replaced by another good one.
LEMMA Replaced ==
    ASSUME NEW S, NEW T, S \subseteq T, stack \in Seq(S), stack # <<>>,
           NEW g \in T
    PROVE  /\ Append(Below, g) \in Seq(T)
           /\ Len(Append(Below, g)) = Len(stack)
<1>1. Below \in Seq(T) /\ Len(Below) = Len(stack) - 1 /\ Len(stack) \in Nat
  BY StackFacts
<1> QED
  BY <1>1, AppendProperties

LEMMA NodeFacts ==
    ASSUME NEW x \in Nodes
    PROVE  /\ x.kind = "dir" => x.dir \in Dirs
           /\ x.kind = "file" => x.exec \in BOOLEAN /\ x.content \in Contents
  BY DEF Nodes, None, Other, Dir, Files, File

LEMMA NewFrame ==
    ASSUME TreeInv, NEW O, NEW d \in Dirs, NEW len \in Nat
    PROVE  Frame(d, len) \in Frames(O)
<1> DEFINE present == {n \in Names : work[d][n] # None}
<1>1. <<>> \in Entries(O) /\ Len(<<>>) = 0
  BY EmptySeq DEF Entries
<1>2. Frame(d, len) \in FrameRecords(O)
  BY <1>1 DEF Frame, FrameRecords, Codes
<1> QED
  BY <1>1, <1>2, LimitsAssumption DEF Frame, Frames

LEMMA FrameFields ==
    ASSUME NEW O, NEW f \in Frames(O)
    PROVE  /\ f \in FrameRecords(O)
           /\ f.dir \in Dirs /\ f.len \in Nat
           /\ f.todo \subseteq Names /\ f.at \in Names \cup {0}
           /\ f.exec \in BOOLEAN /\ f.ret \in Codes
           /\ f.entries \in Entries(O) /\ Len(f.entries) <= MaxTreeEntries
           /\ f.todo \cup f.skipped \subseteq f.listed
           /\ f.listed \subseteq Names
           /\ f.size \in Nat /\ f.held \subseteq Contents
           /\ f.stage \in {"opening", "reading"} => f.at \in f.listed
  BY DEF Frames, FrameRecords

LEMMA BrokenFrame ==
    ASSUME NEW O, NEW f \in Frames(O), NEW code \in Codes
    PROVE  Broken(f, code) \in Frames(O)
  BY DEF Broken, Frames, FrameRecords

\* An entry that was listed is taken up.
LEMMA TakenUp ==
    ASSUME NEW O, NEW f \in Frames(O), NEW n \in f.listed
    PROVE  [f EXCEPT !.todo = @ \ {n}, !.at = n] \in Frames(O)
<1> DEFINE g == [f EXCEPT !.todo = @ \ {n}, !.at = n]
<1>1. f \in FrameRecords(O) /\ n \in Names
  BY DEF Frames, FrameRecords
<1>2. g \in FrameRecords(O)
  BY <1>1 DEF FrameRecords
<1>3. /\ g.todo = f.todo \ {n} /\ g.at = n /\ g.listed = f.listed
      /\ g.skipped = f.skipped /\ g.entries = f.entries
  BY <1>1 DEF FrameRecords
<1>4. /\ g.todo \cup g.skipped \subseteq g.listed
      /\ g.at \in g.listed /\ Len(g.entries) <= MaxTreeEntries
  BY <1>3, FrameFields
<1> HIDE DEF g
<1>5. g \in Frames(O)
  BY <1>2, <1>4 DEF Frames
<1> QED
  BY <1>5 DEF g

\* Its stat is done, and it is to be opened.
LEMMA Statted ==
    ASSUME NEW O, NEW f \in Frames(O), NEW n \in f.listed, NEW x \in BOOLEAN
    PROVE  [f EXCEPT !.stage = "opening", !.todo = @ \ {n}, !.at = n,
                     !.ret = "OK", !.exec = x] \in Frames(O)
<1> DEFINE g == [f EXCEPT !.stage = "opening", !.todo = @ \ {n}, !.at = n,
                          !.ret = "OK", !.exec = x]
<1>1. f \in FrameRecords(O) /\ n \in Names /\ "OK" \in Codes
  BY DEF Frames, FrameRecords, Codes
<1>2. g \in FrameRecords(O)
  BY <1>1 DEF FrameRecords
<1>3. /\ g.todo = f.todo \ {n} /\ g.at = n /\ g.listed = f.listed
      /\ g.skipped = f.skipped /\ g.entries = f.entries
  BY <1>1 DEF FrameRecords
<1>4. /\ g.todo \cup g.skipped \subseteq g.listed
      /\ g.at \in g.listed /\ Len(g.entries) <= MaxTreeEntries
  BY <1>3, FrameFields
<1> HIDE DEF g
<1>5. g \in Frames(O)
  BY <1>2, <1>4 DEF Frames
<1> QED
  BY <1>5 DEF g

\* It is opened and measured, or its file is written over.
LEMMA OpenedFrame ==
    ASSUME NEW O, NEW f \in Frames(O), f.stage \in {"opening", "reading"},
           NEW size \in Nat, NEW held \in SUBSET Contents,
           NEW g, \/ g = [f EXCEPT !.stage = "reading", !.size = size, !.held = held]
                  \/ f.stage = "reading" /\ g = [f EXCEPT !.held = held]
    PROVE  g \in Frames(O)
<1>1. f \in FrameRecords(O)
  BY FrameFields
<1>2. g \in FrameRecords(O)
  BY <1>1 DEF FrameRecords
<1>3. /\ g.todo = f.todo /\ g.at = f.at /\ g.listed = f.listed
      /\ g.skipped = f.skipped /\ g.entries = f.entries
  BY <1>1 DEF FrameRecords
<1>4. /\ g.todo \cup g.skipped \subseteq g.listed
      /\ g.at \in g.listed /\ Len(g.entries) <= MaxTreeEntries
  BY <1>3, FrameFields
<1> QED
  BY <1>2, <1>4 DEF Frames

LEMMA PassedFrame ==
    ASSUME NEW O, NEW f \in Frames(O), NEW n \in f.listed, NEW code \in Codes
    PROVE  /\ Passed(f, n) \in Frames(O)
           /\ [Passed(f, n) EXCEPT !.ret = code] \in Frames(O)
<1>1. f \in FrameRecords(O) /\ n \in Names
  BY DEF Frames, FrameRecords
<1>2. /\ Passed(f, n) \in FrameRecords(O)
      /\ [Passed(f, n) EXCEPT !.ret = code] \in FrameRecords(O)
  BY <1>1 DEF Passed, FrameRecords, Codes
<1> QED
  BY <1>1, <1>2 DEF Passed, Frames, FrameRecords

LEMMA AddedFrame ==
    ASSUME NEW O, NEW f \in Frames(O), NEW mode, NEW n \in Names \cup {0},
           NEW obj \in O, NEW g \in Added(f, mode, n, obj)
    PROVE  g \in Frames(O)
<1> DEFINE e == [mode |-> mode, name |-> n, obj |-> obj]
           h == [f EXCEPT !.stage = "looking", !.ret = "OK",
                          !.entries = Append(@, e)]
<1>1. \/ \E code \in Codes : g = Broken(f, code)
      \/ mode \in ValidModes /\ ~(Len(f.entries) >= MaxTreeEntries) /\ g = h
  BY DEF Added, Codes
<1>2. CASE \E code \in Codes : g = Broken(f, code)
  BY <1>2, BrokenFrame
<1>3. CASE mode \in ValidModes /\ ~(Len(f.entries) >= MaxTreeEntries) /\ g = h
  <2>1. f \in FrameRecords(O) /\ f.entries \in Entries(O)
    BY FrameFields
  <2>2. e \in [mode : ValidModes, name : Names \cup {0}, obj : O]
    BY <1>3
  <2>3. /\ Append(f.entries, e) \in Entries(O)
        /\ Len(Append(f.entries, e)) = Len(f.entries) + 1
        /\ Len(f.entries) \in Nat
    BY <2>1, <2>2, AppendProperties, LenProperties DEF Entries
  <2>4. h \in FrameRecords(O) /\ h.entries = Append(f.entries, e)
    BY <2>1, <2>3 DEF FrameRecords, Codes
  <2>5. Len(h.entries) <= MaxTreeEntries /\ h.stage = "looking"
    BY <1>3, <2>3, <2>4, LimitsAssumption
  <2>6. h.todo \cup h.skipped \subseteq h.listed
    BY <2>1, FrameFields DEF FrameRecords
  <2> QED
    BY <1>3, <2>4, <2>5, <2>6 DEF Frames
<1> QED
  BY <1>1, <1>2, <1>3

\* What is sorted is what was there, in another order.
LEMMA SortedEntries ==
    ASSUME NEW O, NEW s \in Entries(O), NEW t \in Sorted(s)
    PROVE  t \in Entries(O)
<1> DEFINE E == [mode : ValidModes, name : Names \cup {0}, obj : O]
<1>1. PICK f \in Bijection(DOMAIN s, DOMAIN s) : t = [i \in DOMAIN s |-> s[f[i]]]
  BY DEF Sorted
<1>2. s \in Seq(E) /\ DOMAIN s = 1..Len(s) /\ Len(s) \in Nat
  BY LenProperties DEF Entries
<1>3. f \in [DOMAIN s -> DOMAIN s]
  BY <1>1 DEF Bijection, Injection, Surjection, IsInjective
<1>4. t \in [1..Len(s) -> E]
  BY <1>1, <1>2, <1>3, ElementOfSeq
<1> QED
  BY <1>2, <1>4, IsASeq DEF Entries
-----------------------------------------------------------------------------
LEMMA InitTree == Init => TreeInv
<1> SUFFICES ASSUME Init PROVE TreeInv
  OBVIOUS
<1>1. work \in [Dirs -> [Names -> Nodes]]
  BY TreesAssumption DEF Init
<1>2. stack \in Seq(Frames(stored)) /\ depth = Len(stack) /\ depth <= MaxDepth
  BY EmptySeq, LimitsAssumption DEF Init
<1> QED
  BY <1>1, <1>2, LimitsAssumption DEF Init, TreeInv

\* A step of the loop that changes the innermost frame and stores no tree.
LEMMA LoopStep ==
    ASSUME TreeInv, stack # <<>>, NEW g \in Frames(stored'), Becomes(g),
           UNCHANGED <<work, edits, depth, runs, exit>>,
           objects' \subseteq stored', stored \subseteq stored',
           \A o \in stored' : o.type = "tree" => o \in stored
    PROVE  TreeInv'
<1>1. Entries(stored) \subseteq Entries(stored') /\ Frames(stored) \subseteq Frames(stored')
  BY FramesGrow
<1>2. /\ stack' \in Seq(Frames(stored'))
      /\ Len(stack') = Len(stack)
  BY <1>1, Replaced DEF TreeInv, Becomes
<1> QED
  BY <1>1, <1>2 DEF TreeInv

LEMMA TopFacts ==
    ASSUME TreeInv, stack # <<>>
    PROVE  /\ Top \in Frames(stored)
           /\ work[Top.dir] \in [Names -> Nodes]
<1>1. Top \in Frames(stored)
  BY StackFacts DEF TreeInv
<1> QED
  BY <1>1, FrameFields DEF TreeInv

\* A call returns: the stack loses a frame and the one below stays good.
LEMMA ReturnStep ==
    ASSUME TreeInv, stack # <<>>, NEW code \in Codes, NEW tree,
           code = "OK" => tree \in stored',
           stored \subseteq stored',
           Returns(code, tree)
    PROVE  /\ stack' \in Seq(Frames(stored'))
           /\ Len(stack') = Len(stack) - 1
           /\ exit' \in Codes \cup {"none", "killed"}
<1>1. /\ stack \in Seq(Frames(stored')) /\ Len(stack) \in Nat /\ Len(stack) >= 1
      /\ exit \in Codes \cup {"none", "killed"}
  BY StackFacts, FramesGrow DEF TreeInv
<1>2. CASE Len(stack) = 1
  BY <1>1, <1>2, EmptySeq DEF Returns
<1>3. CASE Len(stack) # 1
  <2> DEFINE f == stack[Len(stack) - 1]
             rest == SubSeq(stack, 1, Len(stack) - 2)
             n == Len(stack)
             k == Len(rest)
  <2>1. f \in Frames(stored')
    <3>1. n \in Nat /\ n >= 1 /\ n # 1
      BY <1>1, <1>3
    <3>2. n - 1 \in 1..n
      <4> HIDE DEF n
      <4> QED
        BY <3>1
    <3> QED
      BY <1>1, <3>2, ElementOfSeq
  <2>2. \A i \in 1..(Len(stack) - 2) : stack[i] \in Frames(stored')
    BY <1>1, ElementOfSeq
  <2>3. /\ rest \in Seq(Frames(stored'))
        /\ k = IF 1 <= n - 2 THEN n - 2 - 1 + 1 ELSE 0
    BY <1>1, <2>2, SubSeqProperties
  <2>4. k = n - 2
    <3>1. n \in Nat /\ n >= 1 /\ n # 1
      BY <1>1, <1>3
    <3> HIDE DEF k, n
    <3> QED
      BY <2>3, <3>1
  <2>5. PICK g \in IF code = "OK" THEN Added(f, GIT_MODE_DIR, f.at, tree)
                   ELSE {Broken(f, code)} :
              stack' = Append(rest, g) /\ exit' = exit
    BY <1>3 DEF Returns
  <2>6. g \in Frames(stored')
    <3>1. f.at \in Names \cup {0}
      BY <2>1, FrameFields
    <3>2. CASE code = "OK"
      BY <2>1, <2>5, <3>1, <3>2, AddedFrame
    <3>3. CASE code # "OK"
      BY <2>1, <2>5, <3>3, BrokenFrame
    <3> QED
      BY <3>2, <3>3
  <2>7. /\ stack' \in Seq(Frames(stored'))
        /\ Len(stack') = k + 1
    <3> HIDE DEF rest
    <3> QED
      BY <2>3, <2>5, <2>6, AppendProperties
  <2>8. Len(stack') = Len(stack) - 1
    <3>1. n \in Nat
      BY <1>1
    <3> HIDE DEF k
    <3> QED
      BY <2>4, <2>7, <3>1
  <2> QED
    BY <1>1, <2>5, <2>7, <2>8
<1> QED
  BY <1>2, <1>3

LEMMA StepTree == TreeInv /\ [Next]_vars => TreeInv'
<1> SUFFICES ASSUME TreeInv, [Next]_vars PROVE TreeInv'
  OBVIOUS
<1> USE DEF In, store
<1>0. objects \subseteq stored
  BY DEF TreeInv
<1>1. CASE UNCHANGED vars
  BY <1>1 DEF vars, TreeInv
<1>2. CASE Start
  <2>1. CASE stack' = <<Frame(Root, 1)>> /\ depth' = depth + 1 /\ depth < MaxDepth
                 /\ exit' = "none"
    <3>1. Frame(Root, 1) \in Frames(stored)
      BY NewFrame, TreesAssumption
    <3>2. /\ stack' \in Seq(Frames(stored))
          /\ Len(stack') = 1
      BY <2>1, <3>1
    <3>3. depth = 0 /\ runs' \in 0..MaxRuns
      BY <1>2, EmptySeq, LimitsAssumption DEF Start, TreeInv
    <3> QED
      BY <1>2, <2>1, <3>2, <3>3, LimitsAssumption DEF Start, TreeInv
  <2>2. CASE \E code \in {"ERROR", "NOMEM"} : exit' = code
                 /\ UNCHANGED <<stack, depth>>
    BY <1>2, <2>2, LimitsAssumption DEF Start, TreeInv, Codes
  <2> QED
    BY <1>2, <2>1, <2>2 DEF Start
<1>3. ASSUME NEW n \in Names, Descend(n) PROVE TreeInv'
  <2> DEFINE f == [Top EXCEPT !.todo = @ \ {n}, !.at = n]
             h == Frame(work[Top.dir][n].dir, PathLength(n))
  <2>1. Top \in Frames(stored) /\ work[Top.dir][n] \in Nodes /\ stack # <<>>
    BY <1>3, TopFacts DEF Descend
  <2>2. f \in Frames(stored)
    <3>1. n \in Top.listed
      BY <1>3, <2>1, FrameFields DEF Descend
    <3> QED
      BY <2>1, <3>1, TakenUp
  <2>3. h \in Frames(stored)
    <3>1. work[Top.dir][n].dir \in Dirs
      BY <1>3, <2>1, NodeFacts DEF Descend
    <3>2. PathLength(n) \in Nat
      BY <2>1, FrameFields, TreesAssumption DEF PathLength
    <3> QED
      BY <3>1, <3>2, NewFrame
  <2>4. stack \in Seq(Frames(stored)) /\ Len(stack) \in Nat /\ depth = Len(stack)
    BY <2>1, StackFacts DEF TreeInv
  <2>5. /\ Append(Below, f) \in Seq(Frames(stored))
        /\ Len(Append(Below, f)) = Len(stack)
    BY <2>1, <2>2, <2>4, Replaced
  <2>6. stack' = Append(Append(Below, f), h)
    BY <1>3 DEF Descend
  <2>7. /\ stack' \in Seq(Frames(stored))
        /\ Len(stack') = Len(stack) + 1
    BY <2>3, <2>5, <2>6, AppendProperties
  <2> QED
    BY <1>3, <2>4, <2>7, LimitsAssumption DEF Descend, TreeInv
<1>4. ASSUME NEW n \in Names, CannotDescend(n) PROVE TreeInv'
  <2>1. PICK code \in Codes : Becomes(Broken(Top, code))
    BY <1>4 DEF CannotDescend, Codes
  <2>2. stack # <<>> /\ Broken(Top, code) \in Frames(stored)
    BY <1>4, TopFacts, BrokenFrame DEF CannotDescend
  <2> QED
    BY <1>0, <1>4, <2>1, <2>2, LoopStep DEF CannotDescend
<1>5. ASSUME NEW n \in Names, PassLong(n) PROVE TreeInv'
  <2> DEFINE g == [Passed(Top, n) EXCEPT !.ret = "BUFSIZE"]
  <2>1. stack # <<>> /\ Top \in Frames(stored) /\ n \in Top.listed
    BY <1>5, TopFacts, FrameFields DEF PassLong
  <2>2. g \in Frames(stored)
    BY <2>1, PassedFrame DEF Codes
  <2> QED
    BY <1>0, <1>5, <2>1, <2>2, LoopStep DEF PassLong
<1>6. ASSUME NEW n \in Names, Pass(n) PROVE TreeInv'
  <2>1. stack # <<>> /\ Top \in Frames(stored) /\ n \in Top.listed
    BY <1>6, TopFacts, FrameFields DEF Pass
  <2>2. Passed(Top, n) \in Frames(stored)
    BY <2>1, PassedFrame DEF Codes
  <2> QED
    BY <1>0, <1>6, <2>1, <2>2, LoopStep DEF Pass
<1>7. ASSUME NEW n \in Names, StatFile(n) PROVE TreeInv'
  <2> DEFINE g == [Top EXCEPT !.stage = "opening", !.todo = @ \ {n}, !.at = n,
                              !.ret = "OK", !.exec = work[Top.dir][n].exec]
  <2>1. stack # <<>> /\ Top \in Frames(stored) /\ work[Top.dir][n] \in Nodes
    BY <1>7, TopFacts DEF StatFile
  <2>2. work[Top.dir][n].exec \in BOOLEAN
    BY <1>7, <2>1, NodeFacts DEF StatFile
  <2>3. g \in Frames(stored)
    <3>1. n \in Top.listed
      BY <1>7, <2>1, FrameFields DEF StatFile
    <3> QED
      BY <2>1, <2>2, <3>1, Statted
  <2> QED
    BY <1>0, <1>7, <2>1, <2>3, LoopStep DEF StatFile
<1>8. CASE PassFile
  <2>1. stack # <<>> /\ Top \in Frames(stored)
    BY <1>8, TopFacts DEF PassFile
  <2>2. Top.at \in Top.listed
    BY <1>8, <2>1, FrameFields DEF PassFile
  <2>3. Passed(Top, Top.at) \in Frames(stored)
    BY <2>1, <2>2, PassedFrame DEF Codes
  <2> QED
    BY <1>0, <1>8, <2>1, <2>3, LoopStep DEF PassFile
<1>9. CASE FailFile
  <2>1. PICK code \in Codes : Becomes(Broken(Top, code))
    BY <1>9 DEF FailFile, Codes
  <2>2. stack # <<>> /\ Broken(Top, code) \in Frames(stored)
    BY <1>9, TopFacts, BrokenFrame DEF FailFile
  <2> QED
    BY <1>0, <1>9, <2>1, <2>2, LoopStep DEF FailFile
<1>15. CASE OpenFile
  <2> DEFINE g == [Top EXCEPT !.stage = "reading", !.size = Len(Found.content),
                              !.held = {Found.content}]
  <2>1. /\ stack # <<>> /\ Top.stage = "opening" /\ Found.kind = "file" /\ Becomes(g)
        /\ UNCHANGED <<work, edits, depth, store, runs, exit>>
    BY <1>15 DEF OpenFile, Opens
  <2>2. Top \in Frames(stored) /\ Found \in Nodes
    BY <2>1, TopFacts, FrameFields DEF Found
  <2>3. Found.content \in Contents /\ Len(Found.content) \in Nat
    BY <2>1, <2>2, NodeFacts, TreesAssumption
  <2>4. g \in Frames(stored)
    <3>1. Top.stage \in {"opening", "reading"} /\ {Found.content} \in SUBSET Contents
      BY <2>1, <2>3
    <3> QED
      BY <2>2, <2>3, <3>1, OpenedFrame, Zenon
  <2> HIDE DEF g
  <2> QED
    BY <1>0, <2>1, <2>4, LoopStep
<1>16. CASE FailBlob
  <2>1. PICK b \in BytesRead : BreaksOff(Blob(b)) \/ UNCHANGED store
    BY <1>16 DEF FailBlob
  <2>2. /\ stack # <<>> /\ Becomes(Broken(Top, "ERROR"))
        /\ UNCHANGED <<work, edits, depth, runs, exit>>
    BY <1>16 DEF FailBlob
  <2>3. objects' \subseteq stored' /\ stored' = stored
    BY <1>0, <2>1 DEF BreaksOff
  <2>4. Broken(Top, "ERROR") \in Frames(stored')
    BY <2>2, <2>3, TopFacts, BrokenFrame DEF Codes
  <2> QED
    BY <2>2, <2>3, <2>4, LoopStep
<1>10. CASE AddFile
  <2>1. PICK b \in BytesRead :
           /\ Keeps(Blob(b))
           /\ \E f \in Added(Top, FileMode(Top.exec), Top.at, Blob(b)) : Becomes(f)
    BY <1>10 DEF AddFile
  <2> DEFINE blob == Blob(b)
  <2>2. PICK g \in Added(Top, FileMode(Top.exec), Top.at, blob) : Becomes(g)
    BY <2>1
  <2>3. /\ stack # <<>> /\ UNCHANGED <<work, edits, depth, runs, exit>>
        /\ stored' = stored \cup {blob} /\ objects' \subseteq stored'
    BY <1>0, <1>10, <2>1 DEF AddFile, Keeps
  <2>4. Top \in Frames(stored') /\ Top.at \in Names \cup {0}
    BY <2>3, TopFacts, FramesGrow, FrameFields
  <2>5. g \in Frames(stored')
    BY <2>2, <2>3, <2>4, AddedFrame
  <2>6. blob.type # "tree"
    BY DEF Blob
  <2> HIDE DEF blob
  <2>7. \A o \in stored' : o.type = "tree" => o \in stored
    BY <2>3, <2>6
  <2> QED
    BY <2>2, <2>3, <2>5, <2>7, LoopStep
<1>11. CASE Leave
  <2> DEFINE code == IF Top.entries = <<>> THEN "ERROR" ELSE Top.ret
  <2>1. stack # <<>> /\ UNCHANGED <<objects, stored>>
    BY <1>11 DEF Leave, AtEnd
  <2>2. code \in Codes /\ code # "OK"
    BY <1>11, <2>1, TopFacts, FrameFields DEF Leave, Codes
  <2>3. Returns(code, Tree(<<>>))
    BY <1>11 DEF Leave
  <2>4. /\ stack' \in Seq(Frames(stored'))
        /\ Len(stack') = Len(stack) - 1
        /\ exit' \in Codes \cup {"none", "killed"}
    <3> HIDE DEF code
    <3> QED
      BY <2>1, <2>2, <2>3, ReturnStep
  <2> QED
    BY <1>0, <1>11, <2>1, <2>4, StackFacts, LimitsAssumption DEF Leave, TreeInv
<1>12. CASE LeaveWithTree
  <2>1. PICK s \in Sorted(Top.entries), code \in Codes :
           /\ Returns(code, Tree(s))
           /\ \/ code = "OK" /\ Keeps(Tree(s))
              \/ code # "OK" /\ (BreaksOff(Tree(s)) \/ UNCHANGED store)
    BY <1>12 DEF LeaveWithTree, Codes
  <2>2. /\ stack # <<>> /\ objects' \subseteq stored' /\ stored \subseteq stored'
        /\ stored' \subseteq stored \cup {Tree(s)}
        /\ code = "OK" => Tree(s) \in stored'
    BY <1>0, <1>12, <2>1 DEF LeaveWithTree, AtEnd, Keeps, BreaksOff
  <2>3. /\ stack' \in Seq(Frames(stored'))
        /\ Len(stack') = Len(stack) - 1
        /\ exit' \in Codes \cup {"none", "killed"}
    BY <2>1, <2>2, ReturnStep
  <2>4. s \in Entries(stored)
    BY <2>1, <2>2, TopFacts, FrameFields, SortedEntries
  <2>5. \A o \in stored' : o.type = "tree" => o.entries \in Entries(stored')
    <3>1. Entries(stored) \subseteq Entries(stored')
      BY <2>2, FramesGrow
    <3> QED
      BY <2>2, <2>4, <3>1 DEF TreeInv, Tree
  <2> QED
    BY <1>12, <2>2, <2>3, <2>5, StackFacts, LimitsAssumption
    DEF LeaveWithTree, TreeInv
<1>13. CASE Crash
  <2>1. objects' \subseteq stored' /\ stored' = stored
    BY <1>0, <1>13 DEF Crash, BreaksOff
  <2> QED
    BY <1>13, <2>1, EmptySeq, LimitsAssumption DEF Crash, TreeInv
<1>14. ASSUME NEW d \in Dirs, NEW n \in Names, Edit(d, n) PROVE TreeInv'
  <2>1. PICK node \in Files \cup {None} :
           /\ work' = [work EXCEPT ![d][n] = node]
           /\ IF IsReading(d, n) /\ node # None /\ work[d][n] # None
              THEN Becomes([Top EXCEPT !.held = @ \cup {node.content}])
              ELSE UNCHANGED stack
    BY <1>14 DEF Edit
  <2>2. work' \in [Dirs -> [Names -> Nodes]]
    BY <2>1 DEF TreeInv, Nodes
  <2>3. stack' \in Seq(Frames(stored)) /\ Len(stack') = Len(stack)
    <3> DEFINE g == [Top EXCEPT !.held = @ \cup {node.content}]
    <3>1. CASE IsReading(d, n) /\ node # None /\ Becomes(g)
      <4>1. stack # <<>> /\ Top.stage = "reading"
        BY <3>1 DEF IsReading
      <4>2. Top \in Frames(stored)
        BY <4>1, TopFacts
      <4>3. Top.held \cup {node.content} \in SUBSET Contents
        <5>1. Top.held \subseteq Contents
          BY <4>2, FrameFields
        <5>2. node.content \in Contents
          BY <3>1 DEF Files, File
        <5> QED
          BY <5>1, <5>2
      <4>4. g \in Frames(stored)
        <5>1. g = [Top EXCEPT !.held = Top.held \cup {node.content}]
          OBVIOUS
        <5>2. Top.size \in Nat
          BY <4>2, FrameFields
        <5> HIDE DEF g
        <5> QED
          BY <4>1, <4>2, <4>3, <5>1, <5>2, OpenedFrame, Zenon
      <4> HIDE DEF g
      <4> QED
        BY <3>1, <4>1, <4>4, Replaced DEF TreeInv, Becomes
    <3>2. CASE UNCHANGED stack
      BY <3>2 DEF TreeInv
    <3> QED
      BY <2>1, <3>1, <3>2
  <2> QED
    BY <1>0, <1>14, <2>2, <2>3, LimitsAssumption DEF Edit, TreeInv
<1> QED
  BY <1>1, <1>2, <1>3, <1>4, <1>5, <1>6, <1>7, <1>8, <1>9, <1>10, <1>11,
     <1>12, <1>13, <1>14, <1>15, <1>16 DEF Next, Step

LEMMA TreeInvariant == Spec => []TreeInv
  BY InitTree, StepTree, PTL DEF Spec

\* Types, for the whole of a command and after it.
THEOREM TreeTypeCorrect == Spec => []TypeOK
<1>1. ASSUME TreeInv PROVE TypeOK
  <2>1. \A i \in DOMAIN stack : stack[i] \in Frames(stored)
    BY <1>1, ElementOfSeq, LenProperties DEF TreeInv
  <2> QED
    BY <1>1, <2>1 DEF TreeInv, TypeOK, Frames, FrameRecords
<1> QED
  BY <1>1, TreeInvariant, PTL

\* However calls of write_tree_recursive return, the counter they share is
\* the number of those still open, and the recursion is no deeper than its
\* limit, also where a directory contains itself.
THEOREM DepthCounted == Spec => []DepthIsCounted
<1>1. TreeInv => DepthIsCounted
  BY DEF TreeInv, DepthIsCounted
<1> QED
  BY <1>1, TreeInvariant, PTL

\* No tree that was stored, and no entry under way, names an object that was
\* not stored before it, wherever the command fails or is killed.
THEOREM NothingMissing == Spec => []NothingDangles
<1>1. ASSUME TreeInv PROVE NothingDangles
  <2>1. ASSUME NEW s \in Entries(stored), NEW i \in DOMAIN s
        PROVE  s[i].obj \in stored
    <3> DEFINE E == [mode : ValidModes, name : Names \cup {0}, obj : stored]
    <3>1. s \in Seq(E) /\ i \in 1..Len(s)
      BY <2>1, LenProperties DEF Entries
    <3>2. s[i] \in E
      <4> HIDE DEF E
      <4> QED
        BY <3>1, ElementOfSeq
    <3> QED
      BY <3>2
  <2>2. \A i \in DOMAIN stack : stack[i].entries \in Entries(stored)
    BY <1>1, ElementOfSeq, LenProperties, FrameFields DEF TreeInv
  <2>3. \A t \in {o \in stored : o.type = "tree"} : t.entries \in Entries(stored)
    BY <1>1 DEF TreeInv
  <2> QED
    BY <2>1, <2>2, <2>3 DEF NothingDangles, Trees
<1> QED
  BY <1>1, TreeInvariant, PTL

-----------------------------------------------------------------------------
(* What a tree shows                                                       *)

Taken(f) == {f.entries[i].name : i \in DOMAIN f.entries}

\* What W says the file could be read as, and a mode W says it has had.
Shown(W, d, e) ==
    /\ e.name \in Names
    /\ e.obj.content \in Cuts(W[d][e.name])
    /\ \E x \in W[d][e.name] \cap Files : FileMode(x.exec) = e.mode

Had(nodes) == {x.content : x \in nodes \cap Files}

\* The names a frame has taken, passed over and still to come are different
\* ones, and so is the one it has before it.
Good(W, f) ==
    /\ \A i, j \in DOMAIN f.entries :
          f.entries[i].name = f.entries[j].name => i = j
    /\ \A i \in DOMAIN f.entries : Shown(W, f.dir, f.entries[i])
    /\ Taken(f) \cap (f.todo \cup f.skipped) = {}
    /\ f.todo \cap f.skipped = {}
    /\ f.stage \in {"opening", "reading"} =>
          /\ f.at \notin f.todo \cup f.skipped \cup Taken(f)
          /\ \E x \in W[f.dir][f.at] \cap Files : x.exec = f.exec
    /\ f.stage = "reading" =>
          /\ f.held \subseteq Had(W[f.dir][f.at])
          /\ \E c \in Had(W[f.dir][f.at]) : f.size = Len(c)
    /\ f.stage = "leaving" => f.ret # "OK"

GoodFrames(W, O) == {f \in Frames(O) : Good(W, f)}

\* Nothing the innermost call found is forgotten, and what its entries name is
\* whole in the store O, unless it has failed.  A call that waits for one below
\* never writes a tree: the builder refuses the directory.
Covered(f, O) ==
    /\ f.stage = "looking" => f.listed = Taken(f) \cup f.todo \cup f.skipped
    /\ f.stage \in {"opening", "reading"} =>
          f.listed = Taken(f) \cup f.todo \cup f.skipped \cup {f.at}
    /\ f.stage # "leaving" => \A i \in DOMAIN f.entries : f.entries[i].obj \in O

TrueTree(W, s) ==
    /\ \A i, j \in DOMAIN s : i < j => s[i].name < s[j].name
    /\ \E d \in Dirs : \A i \in DOMAIN s : Shown(W, d, s[i])

ShownInv ==
    /\ TreeInv
    /\ seen \in [Dirs -> [Names -> SUBSET Nodes]]
    /\ \A d \in Dirs, n \in Names : work[d][n] \in seen[d][n]
    /\ stack \in Seq(GoodFrames(seen, stored))
    /\ stack # <<>> => Covered(Top, objects)
    /\ \A o \in stored : o.type = "tree" => TrueTree(seen, o.entries)

-----------------------------------------------------------------------------
LEMMA FileNodes ==
    ASSUME NEW x \in Nodes, x.kind = "file"
    PROVE  x \in Files
  BY DEF Nodes, None, Other, Dir

LEMMA FileFields ==
    ASSUME NEW x \in Files
    PROVE  x.content \in Contents /\ x.exec \in BOOLEAN /\ x = File(x.content, x.exec)
  BY DEF Files, File

\* V says of every file all that W says, and perhaps more.
Extends(V, W) == \A d \in Dirs, n \in Names : W[d][n] \subseteq V[d][n]

LEMMA CutsGrow ==
    ASSUME NEW A, NEW B, A \subseteq B
    PROVE  Cuts(A) \subseteq Cuts(B) /\ Had(A) \subseteq Had(B)
<1> DEFINE HA == {f.content : f \in A \cap Files}
           HB == {f.content : f \in B \cap Files}
<1>1. HA \subseteq HB /\ HA = Had(A) /\ HB = Had(B)
  BY DEF Had
<1>2. /\ Cuts(A) = {SubSeq(c[1], 1, Len(c[2])) :
                        c \in {e \in HA \X HA : Len(e[2]) <= Len(e[1])}}
      /\ Cuts(B) = {SubSeq(c[1], 1, Len(c[2])) :
                        c \in {e \in HB \X HB : Len(e[2]) <= Len(e[1])}}
  BY DEF Cuts
<1> HIDE DEF HA, HB
<1> QED
  BY <1>1, <1>2

\* What fread gives of a file that was measured before.
LEMMA ReadIsCut ==
    ASSUME NEW nodes, NEW c \in Had(nodes), NEW m \in Had(nodes), Len(m) <= Len(c)
    PROVE  SubSeq(c, 1, Len(m)) \in Cuts(nodes)
<1> DEFINE H == {f.content : f \in nodes \cap Files}
           P == {e \in H \X H : Len(e[2]) <= Len(e[1])}
<1>1. c \in H /\ m \in H
  BY DEF Had
<1>2. <<c, m>> \in P
  <2> HIDE DEF H
  <2> QED
    BY <1>1
<1>3. <<c, m>>[1] = c /\ <<c, m>>[2] = m
  OBVIOUS
<1> HIDE DEF P
<1>4. SubSeq(c, 1, Len(m)) \in {SubSeq(e[1], 1, Len(e[2])) : e \in P}
  BY <1>2, <1>3
<1> QED
  BY <1>4 DEF Cuts, P

LEMMA GoodGrows ==
    ASSUME NEW V, NEW W, Extends(V, W), NEW O, NEW P, O \subseteq P
    PROVE  /\ \A d \in Dirs : \A e : Shown(W, d, e) => Shown(V, d, e)
           /\ GoodFrames(W, O) \subseteq GoodFrames(V, P)
           /\ Seq(GoodFrames(W, O)) \subseteq Seq(GoodFrames(V, P))
           /\ \A s : TrueTree(W, s) => TrueTree(V, s)
<1>1. \A d \in Dirs : \A e : Shown(W, d, e) => Shown(V, d, e)
  <2>1. SUFFICES ASSUME NEW d \in Dirs, NEW e, Shown(W, d, e) PROVE Shown(V, d, e)
    OBVIOUS
  <2>2. e.name \in Names /\ W[d][e.name] \subseteq V[d][e.name]
    BY <2>1 DEF Shown, Extends
  <2> QED
    BY <2>1, <2>2, CutsGrow DEF Shown
<1>2. ASSUME NEW f \in GoodFrames(W, O) PROVE f \in GoodFrames(V, P)
  <2>1. /\ f \in Frames(P)
        /\ f.dir \in Dirs /\ f.listed \subseteq Names
        /\ f.stage \in {"opening", "reading"} => f.at \in f.listed
    <3>1. f \in Frames(O) /\ f \in Frames(P)
      BY FramesGrow DEF GoodFrames
    <3> QED
      BY <3>1 DEF Frames, FrameRecords
  <2>2. Good(W, f)
    BY DEF GoodFrames
  <2>3. \A i \in DOMAIN f.entries : Shown(V, f.dir, f.entries[i])
    <3>1. \A i \in DOMAIN f.entries : Shown(W, f.dir, f.entries[i])
      BY <2>2 DEF Good
    <3> QED
      BY <1>1, <2>1, <3>1
  <2>4. f.stage \in {"opening", "reading"} => W[f.dir][f.at] \subseteq V[f.dir][f.at]
    BY <2>1 DEF Extends
  <2>5. /\ f.stage \in {"opening", "reading"} =>
              \E x \in V[f.dir][f.at] \cap Files : x.exec = f.exec
        /\ f.stage = "reading" =>
              /\ f.held \subseteq Had(V[f.dir][f.at])
              /\ \E c \in Had(V[f.dir][f.at]) : f.size = Len(c)
    <3>1. ASSUME f.stage = "reading"
          PROVE  Had(W[f.dir][f.at]) \subseteq Had(V[f.dir][f.at])
      <4>1. W[f.dir][f.at] \subseteq V[f.dir][f.at]
        BY <2>4, <3>1
      <4> DEFINE A == W[f.dir][f.at]
                 B == V[f.dir][f.at]
      <4> HIDE DEF A, B
      <4>2. A \subseteq B => Had(A) \subseteq Had(B)
        BY CutsGrow
      <4> QED
        BY <4>1, <4>2 DEF A, B
    <3>2. /\ f.stage \in {"opening", "reading"} =>
                \E x \in W[f.dir][f.at] \cap Files : x.exec = f.exec
          /\ f.stage = "reading" =>
                /\ f.held \subseteq Had(W[f.dir][f.at])
                /\ \E c \in Had(W[f.dir][f.at]) : f.size = Len(c)
      BY <2>2 DEF Good
    <3> QED
      BY <2>4, <3>1, <3>2
  <2>6. Good(V, f)
    BY <2>2, <2>3, <2>5 DEF Good
  <2> QED
    BY <2>1, <2>6 DEF GoodFrames
<1>3. \A s : TrueTree(W, s) => TrueTree(V, s)
  BY <1>1 DEF TrueTree
<1> QED
  BY <1>1, <1>2, <1>3, SeqGrows

LEMMA NewFrameIsGood ==
    ASSUME TreeInv, NEW W, NEW O, NEW P, NEW d \in Dirs, NEW len \in Nat
    PROVE  /\ Frame(d, len) \in GoodFrames(W, O)
           /\ Covered(Frame(d, len), P) /\ Frame(d, len).stage = "looking"
<1> DEFINE f == Frame(d, len)
<1>1. f \in Frames(O)
  BY NewFrame
<1>2. /\ f.entries = <<>> /\ f.skipped = {} /\ f.stage = "looking"
      /\ f.todo = f.listed
  BY DEF Frame
<1>3. Taken(f) = {} /\ DOMAIN f.entries = {}
  <2>1. DOMAIN <<>> = {}
    BY EmptySeq, LenProperties
  <2> HIDE DEF f
  <2> QED
    BY <1>2, <2>1 DEF Taken
<1> HIDE DEF f
<1>4. f \in GoodFrames(W, O) /\ Covered(f, P) /\ f.stage = "looking"
  BY <1>1, <1>2, <1>3 DEF GoodFrames, Good, Covered
<1> QED
  BY <1>4 DEF f

LEMMA BrokenIsGood ==
    ASSUME NEW W, NEW O, NEW P, NEW f \in GoodFrames(W, O),
           NEW code \in Codes, code # "OK"
    PROVE  /\ Broken(f, code) \in GoodFrames(W, O)
           /\ Covered(Broken(f, code), P) /\ Broken(f, code).stage = "leaving"
<1> DEFINE g == Broken(f, code)
<1>1. f \in Frames(O) /\ g \in Frames(O) /\ f \in FrameRecords(O)
  BY BrokenFrame, FrameFields DEF GoodFrames
<1>2. /\ g.dir = f.dir /\ g.entries = f.entries /\ g.todo = f.todo
      /\ g.skipped = f.skipped /\ g.stage = "leaving" /\ g.ret = code
  BY <1>1 DEF Broken, FrameRecords
<1>3. Good(W, f) /\ Taken(g) = Taken(f)
  BY <1>2 DEF GoodFrames, Taken
<1> HIDE DEF g
<1>4. g \in GoodFrames(W, O) /\ Covered(g, P) /\ g.stage = "leaving"
  BY <1>1, <1>2, <1>3 DEF GoodFrames, Good, Covered
<1> QED
  BY <1>4 DEF g

\* A frame from which only an entry still to come was taken.
LEMMA LessIsGood ==
    ASSUME NEW W, NEW O, NEW f \in GoodFrames(W, O), f.stage = "looking",
           NEW g \in Frames(O), g.dir = f.dir, g.entries = f.entries,
           g.todo \subseteq f.todo, g.skipped \subseteq f.skipped \cup f.todo,
           g.todo \cap g.skipped = {}, g.stage = "looking"
    PROVE  g \in GoodFrames(W, O) /\ Taken(g) = Taken(f)
<1>1. Good(W, f) /\ Taken(g) = Taken(f)
  BY DEF GoodFrames, Taken
<1> QED
  BY <1>1 DEF GoodFrames, Good

\* The sort keeps the names different, and puts them in order.
LEMMA SortedIsTrue ==
    ASSUME NEW W, NEW O, NEW f \in GoodFrames(W, O), NEW s \in Sorted(f.entries)
    PROVE  /\ TrueTree(W, s)
           /\ {s[i].name : i \in DOMAIN s} = Taken(f)
           /\ \A i \in DOMAIN s : \E j \in DOMAIN f.entries : s[i] = f.entries[j]
<1> DEFINE e == f.entries
           E == [mode : ValidModes, name : Names \cup {0}, obj : O]
<1>1. PICK h \in Bijection(DOMAIN e, DOMAIN e) : s = [i \in DOMAIN e |-> e[h[i]]]
  BY DEF Sorted
<1>2. \A i, j \in DOMAIN s : i < j => s[i].name <= s[j].name
  BY DEF Sorted
<1>3. f \in Frames(O) /\ f.dir \in Dirs /\ e \in Seq(E) /\ Good(W, f)
  BY FrameFields DEF GoodFrames, Entries
<1>4. /\ DOMAIN e = 1..Len(e) /\ Len(e) \in Nat /\ DOMAIN s = DOMAIN e
      /\ \A i \in DOMAIN e : e[i].name \in Nat
  <2>1. DOMAIN e = 1..Len(e) /\ Len(e) \in Nat /\ DOMAIN s = DOMAIN e
    BY <1>1, <1>3, LenProperties
  <2>2. \A i \in DOMAIN e : e[i] \in E
    <3> HIDE DEF e, E
    <3> QED
      BY <1>3, <2>1, ElementOfSeq
  <2>3. \A x \in E : x.name \in Nat
    <3>1. Names \cup {0} \subseteq Nat
      BY TreesAssumption
    <3> QED
      BY ONLY <3>1
  <2> HIDE DEF e, E
  <2> QED
    BY <2>1, <2>2, <2>3
<1>5. /\ h \in [DOMAIN e -> DOMAIN e]
      /\ \A i, j \in DOMAIN e : h[i] = h[j] => i = j
      /\ \A k \in DOMAIN e : \E i \in DOMAIN e : h[i] = k
  BY <1>1 DEF Bijection, Injection, Surjection, IsInjective
<1>6. \A i \in DOMAIN s : h[i] \in DOMAIN e /\ s[i] = e[h[i]]
  BY <1>1, <1>4, <1>5
<1>7. \A i, j \in DOMAIN e : e[i].name = e[j].name => i = j
  BY <1>3 DEF Good
<1>8. ASSUME NEW i \in DOMAIN s, NEW j \in DOMAIN s, i < j
      PROVE  s[i].name < s[j].name
  <2>1. s[i].name \in Nat /\ s[j].name \in Nat /\ s[i].name <= s[j].name
    BY <1>2, <1>4, <1>6, <1>8
  <2>2. i # j /\ i \in DOMAIN e /\ j \in DOMAIN e
    BY <1>4, <1>8
  <2>3. h[i] # h[j] /\ h[i] \in DOMAIN e /\ h[j] \in DOMAIN e
    BY <1>5, <2>2
  <2>4. s[i].name = e[h[i]].name /\ s[j].name = e[h[j]].name
    BY <1>6
  <2>5. s[i].name # s[j].name
    <3> HIDE DEF e
    <3> QED
      BY ONLY <1>7, <2>3, <2>4
  <2> QED
    BY <2>1, <2>5
<1>9. \A i \in DOMAIN s : Shown(W, f.dir, s[i])
  BY <1>3, <1>6 DEF Good
<1>10. {s[i].name : i \in DOMAIN s} = Taken(f)
  <2>1. \A i \in DOMAIN e : s[i].name = e[h[i]].name /\ h[i] \in DOMAIN e
    BY <1>4, <1>6
  <2>2. \A k \in DOMAIN e : \E i \in DOMAIN e : s[i].name = e[k].name
    BY <1>5, <2>1
  <2>3. Taken(f) = {e[k].name : k \in DOMAIN e} /\ DOMAIN s = DOMAIN e
    BY <1>4 DEF Taken
  <2>4. ASSUME NEW x PROVE x \in {s[i].name : i \in DOMAIN s} <=> x \in Taken(f)
    <3>1. x \in Taken(f) <=> \E k \in DOMAIN e : x = e[k].name
      BY ONLY <2>3
    <3>2. x \in {s[i].name : i \in DOMAIN s} <=> \E i \in DOMAIN e : x = s[i].name
      BY ONLY <2>3
    <3>3. ASSUME NEW i \in DOMAIN e, x = s[i].name
          PROVE  \E k \in DOMAIN e : x = e[k].name
      BY ONLY <2>1, <3>3, Zenon
    <3>4. ASSUME NEW k \in DOMAIN e, x = e[k].name
          PROVE  \E i \in DOMAIN e : x = s[i].name
      BY ONLY <2>2, <3>4, Zenon
    <3> QED
      BY ONLY <3>1, <3>2, <3>3, <3>4
  <2> QED
    BY <2>4
<1> QED
  BY <1>3, <1>6, <1>8, <1>9, <1>10 DEF TrueTree

\* The blob of the file before it was stored, and its entry made.
LEMMA AddedIsGood ==
    ASSUME NEW W, NEW O, NEW P, NEW f \in GoodFrames(W, O), f.stage = "reading",
           Covered(f, P), NEW mode, NEW obj \in O, obj \in P,
           Shown(W, f.dir, [mode |-> mode, name |-> f.at, obj |-> obj]),
           NEW g \in Added(f, mode, f.at, obj)
    PROVE  g \in GoodFrames(W, O) /\ Covered(g, P)
<1> DEFINE e == [mode |-> mode, name |-> f.at, obj |-> obj]
           h == [f EXCEPT !.stage = "looking", !.ret = "OK",
                          !.entries = Append(@, e)]
           n == Len(f.entries)
<1>1. \/ \E code \in Codes \ {"OK"} : g = Broken(f, code)
      \/ g = h
  BY DEF Added, Codes
<1>2. CASE \E code \in Codes \ {"OK"} : g = Broken(f, code)
  BY <1>2, BrokenIsGood
<1>3. CASE g = h
  <2>1. /\ f \in Frames(O) /\ f \in FrameRecords(O) /\ Good(W, f)
        /\ f.at \in Names \cup {0}
    BY FrameFields DEF GoodFrames
  <2>2. g \in Frames(O)
    BY <2>1, AddedFrame
  <2>3. /\ g.dir = f.dir /\ g.todo = f.todo /\ g.skipped = f.skipped
        /\ g.stage = "looking" /\ g.listed = f.listed
        /\ g.entries = Append(f.entries, e)
    BY <1>3, <2>1 DEF FrameRecords
  <2>4. /\ n \in Nat /\ DOMAIN f.entries = 1..n
        /\ DOMAIN g.entries = 1..(n + 1)
        /\ \A i \in 1..n : g.entries[i] = f.entries[i]
        /\ g.entries[n + 1] = e
    <3> DEFINE E == [mode : ValidModes, name : Names \cup {0}, obj : O]
    <3>1. f.entries \in Seq(E)
      BY <2>1, FrameFields DEF Entries
    <3>2. g.entries \in Seq(E)
      BY <2>2, FrameFields DEF Entries
    <3> HIDE DEF E, e
    <3>3. f.entries \in Seq(E \cup {e})
      BY <3>1, SeqGrows
    <3> QED
      BY <2>3, <3>1, <3>3, AppendProperties, LenProperties
  <2>5. e.name = f.at
    OBVIOUS
  <2>6. Taken(g) = Taken(f) \cup {f.at}
    <3>1. \A i \in 1..(n + 1) : i \in 1..n \/ i = n + 1
      BY <2>4
    <3>2. Taken(g) = {g.entries[i].name : i \in 1..(n + 1)}
      BY <2>4 DEF Taken
    <3>3. Taken(f) = {f.entries[i].name : i \in 1..n}
      BY <2>4 DEF Taken
    <3>4. n + 1 \in 1..(n + 1) /\ 1..n \subseteq 1..(n + 1)
      BY <2>4
    <3> HIDE DEF e, n
    <3> QED
      BY ONLY <2>4, <2>5, <3>1, <3>2, <3>3, <3>4
  <2>7. f.at \notin f.todo \cup f.skipped \cup Taken(f)
    BY <2>1 DEF Good
  <2>8. ASSUME NEW i \in DOMAIN g.entries, NEW j \in DOMAIN g.entries,
               g.entries[i].name = g.entries[j].name
        PROVE  i = j
    <3>1. \A k \in 1..n : f.entries[k].name # f.at
      BY <2>4, <2>7 DEF Taken
    <3>2. \A k, l \in 1..n : f.entries[k].name = f.entries[l].name => k = l
      BY <2>1, <2>4 DEF Good
    <3>3. /\ i \in 1..n \/ i = n + 1
          /\ j \in 1..n \/ j = n + 1
      BY <2>4
    <3> HIDE DEF e, n
    <3> QED
      BY <2>4, <2>5, <2>8, <3>1, <3>2, <3>3
  <2>9. ASSUME NEW i \in DOMAIN g.entries PROVE Shown(W, g.dir, g.entries[i])
    <3>1. i \in 1..n \/ i = n + 1
      BY <2>4
    <3>2. \A k \in 1..n : Shown(W, f.dir, f.entries[k])
      BY <2>1, <2>4 DEF Good
    <3>3. Shown(W, f.dir, e)
      OBVIOUS
    <3> HIDE DEF e, n
    <3> QED
      BY <2>3, <2>4, <3>1, <3>2, <3>3
  <2>10. /\ Taken(g) \cap (g.todo \cup g.skipped) = {}
         /\ g.todo \cap g.skipped = {}
    BY <2>1, <2>3, <2>6, <2>7 DEF Good
  <2>11. Covered(g, P)
    <3>1. \A k \in 1..n : f.entries[k].obj \in P
      BY <2>4 DEF Covered
    <3>2. \A k \in 1..(n + 1) : k \in 1..n \/ k = n + 1
      BY <2>4
    <3>3. e.obj \in P
      OBVIOUS
    <3>4. f.listed = Taken(f) \cup f.todo \cup f.skipped \cup {f.at}
      BY DEF Covered
    <3> HIDE DEF e, n
    <3>5. \A k \in DOMAIN g.entries : g.entries[k].obj \in P
      BY ONLY <2>4, <3>1, <3>2, <3>3
    <3> QED
      BY <2>3, <2>6, <3>4, <3>5 DEF Covered
  <2> HIDE DEF h
  <2>12. Good(W, g)
    BY <2>3, <2>8, <2>9, <2>10 DEF Good
  <2> QED
    BY <2>2, <2>3, <2>11, <2>12 DEF GoodFrames
<1> QED
  BY <1>1, <1>2, <1>3

-----------------------------------------------------------------------------
LEMMA InitShown == Init => ShownInv
<1> SUFFICES ASSUME Init PROVE ShownInv
  OBVIOUS
<1>1. TreeInv
  BY InitTree
<1>2. /\ seen \in [Dirs -> [Names -> SUBSET Nodes]]
      /\ \A d \in Dirs, n \in Names : work[d][n] \in seen[d][n]
  BY <1>1 DEF Init, TreeInv
<1> QED
  BY <1>1, <1>2, EmptySeq DEF Init, ShownInv

LEMMA TopShown ==
    ASSUME ShownInv, stack # <<>>
    PROVE  /\ Top \in GoodFrames(seen, stored)
           /\ Top \in Frames(stored) /\ Top \in FrameRecords(stored)
           /\ Good(seen, Top) /\ Covered(Top, objects)
           /\ Top.dir \in Dirs /\ Top.todo \subseteq Top.listed
           /\ Top.listed \subseteq Names
           /\ work[Top.dir] \in [Names -> Nodes]
<1>1. Top \in GoodFrames(seen, stored)
  BY StackFacts DEF ShownInv
<1>2. Top \in Frames(stored) /\ Good(seen, Top)
  BY <1>1 DEF GoodFrames
<1>3. Top \in FrameRecords(stored)
  BY <1>2, FrameFields
<1> QED
  BY <1>1, <1>2, <1>3, FrameFields, TopFacts DEF ShownInv, FrameRecords

\* The innermost frame after a step that replaces it.
LEMMA NewTop ==
    ASSUME NEW S, NEW s \in Seq(S), NEW g
    PROVE  Append(s, g)[Len(Append(s, g))] = g
<1>1. s \in Seq(S \cup {g})
  BY SeqGrows
<1> QED
  BY <1>1, AppendProperties

\* A step of the loop that stores no tree.
LEMMA ShownLoop ==
    ASSUME ShownInv, TreeInv', stack # <<>>, UNCHANGED <<work, seen>>,
           stored \subseteq stored',
           \A o \in stored' : o.type = "tree" => o \in stored,
           NEW g \in GoodFrames(seen, stored'), Covered(g, objects'), Becomes(g)
    PROVE  ShownInv'
<1>1. Extends(seen, seen)
  BY DEF Extends
<1>2. GoodFrames(seen, stored) \subseteq GoodFrames(seen, stored')
  BY <1>1, GoodGrows
<1>3. stack' = Append(Below, g) /\ stack' \in Seq(GoodFrames(seen', stored'))
  BY <1>2, Replaced DEF ShownInv, Becomes
<1>4. Top' = g
  <2>1. Below \in Seq(GoodFrames(seen, stored))
    BY StackFacts DEF ShownInv
  <2> QED
    BY <1>3, <2>1, NewTop DEF Top
<1>5. /\ seen' \in [Dirs -> [Names -> SUBSET Nodes]]
      /\ \A d \in Dirs, n \in Names : work'[d][n] \in seen'[d][n]
      /\ \A o \in stored' : o.type = "tree" => TrueTree(seen', o.entries)
  BY DEF ShownInv
<1> QED
  BY <1>3, <1>4, <1>5 DEF ShownInv, In

\* A call returns: the one below has failed, or there is none.
LEMMA ShownReturn ==
    ASSUME ShownInv, TreeInv', stack # <<>>, UNCHANGED <<work, seen>>,
           stored \subseteq stored',
           \A o \in stored' : o.type = "tree" => TrueTree(seen, o.entries),
           NEW code \in Codes, NEW tree, Returns(code, tree)
    PROVE  ShownInv'
<1> DEFINE G == GoodFrames(seen, stored')
           n == Len(stack)
<1>1. stack \in Seq(G) /\ n \in Nat /\ n >= 1
  <2>1. Extends(seen, seen)
    BY DEF Extends
  <2>2. stack \in Seq(G)
    BY <2>1, GoodGrows DEF ShownInv
  <2> QED
    BY <2>2, StackFacts
<1>2. CASE n = 1
  <2>1. stack' = <<>> /\ stack' \in Seq(GoodFrames(seen', stored'))
    BY <1>2, EmptySeq DEF Returns
  <2> QED
    BY <2>1 DEF ShownInv
<1>3. CASE n # 1
  <2> DEFINE f == stack[n - 1]
             rest == SubSeq(stack, 1, n - 2)
  <2>1. f \in G
    <3>1. n - 1 \in 1..n
      <4> HIDE DEF n
      <4> QED
        BY <1>1, <1>3
    <3> QED
      BY <1>1, <3>1, ElementOfSeq
  <2>2. rest \in Seq(G)
    <3>1. \A i \in 1..(n - 2) : stack[i] \in G
      BY <1>1, ElementOfSeq
    <3> QED
      BY <1>1, <3>1, SubSeqProperties
  <2>3. PICK c \in Codes \ {"OK"} : stack' = Append(rest, Broken(f, c))
    BY <1>3 DEF Returns, Added, GIT_MODE_DIR, ValidModes, Codes
  <2> DEFINE g == Broken(f, c)
  <2>4. g \in G /\ Covered(g, objects')
    BY <2>1, BrokenIsGood
  <2> HIDE DEF g, rest, G
  <2>5. stack' \in Seq(G) /\ stack'[Len(stack')] = g
    BY <2>2, <2>3, <2>4, AppendProperties, NewTop DEF g
  <2> QED
    BY <2>4, <2>5 DEF ShownInv, Top, In, G
<1> QED
  BY <1>2, <1>3

LEMMA StepShown == ShownInv /\ [Next]_vars => ShownInv'
<1> SUFFICES ASSUME ShownInv, [Next]_vars PROVE ShownInv'
  OBVIOUS
<1> USE DEF In, store
<1>0. TreeInv /\ TreeInv' /\ objects \subseteq stored
  BY StepTree DEF ShownInv, TreeInv
<1>1. CASE UNCHANGED vars
  BY <1>0, <1>1 DEF vars, ShownInv, Top
<1>2. CASE Start
  <2>1. UNCHANGED <<work, objects, stored, seen>> /\ stack = <<>>
    BY <1>2 DEF Start
  <2>2. CASE stack' = <<Frame(Root, 1)>>
    <3> DEFINE g == Frame(Root, 1)
    <3>1. g \in GoodFrames(seen, stored) /\ Covered(g, objects)
      BY <1>0, NewFrameIsGood, TreesAssumption
    <3> HIDE DEF g
    <3>2. stack' \in Seq(GoodFrames(seen, stored)) /\ stack'[Len(stack')] = g
      BY <2>2, <3>1 DEF g
    <3> QED
      BY <1>0, <2>1, <3>1, <3>2 DEF ShownInv, Top
  <2>3. CASE stack' = stack
    BY <1>0, <2>1, <2>3 DEF ShownInv
  <2> QED
    BY <1>2, <2>2, <2>3 DEF Start
<1>3. ASSUME NEW n \in Names, Descend(n) PROVE ShownInv'
  <2> DEFINE f == [Top EXCEPT !.todo = @ \ {n}, !.at = n]
             h == Frame(work[Top.dir][n].dir, PathLength(n))
             G == GoodFrames(seen, stored)
  <2>1. /\ stack # <<>> /\ Top.stage = "looking" /\ n \in Top.todo
        /\ UNCHANGED <<work, objects, stored, seen>>
        /\ stack' = Append(Append(Below, f), h)
    BY <1>3 DEF Descend
  <2>2. /\ Top \in G /\ Top \in Frames(stored) /\ Top \in FrameRecords(stored)
        /\ n \in Top.listed /\ work[Top.dir][n] \in Nodes
    BY <2>1, TopShown
  <2>3. f \in G
    <3>1. f \in Frames(stored)
      <4>1. Top \in Frames(stored) /\ n \in Top.listed
        BY <2>2
      <4> QED
        BY <4>1, TakenUp, Zenon
    <3>2. /\ f.dir = Top.dir /\ f.entries = Top.entries /\ f.stage = "looking"
          /\ f.todo = Top.todo \ {n} /\ f.skipped = Top.skipped
      BY <2>1, <2>2 DEF FrameRecords
    <3>3. Top.todo \cap Top.skipped = {}
      BY <2>2 DEF GoodFrames, Good
    <3> HIDE DEF f
    <3> QED
      BY <2>1, <2>2, <3>1, <3>2, <3>3, LessIsGood
  <2>4. h \in G /\ Covered(h, objects)
    <3>1. work[Top.dir][n].dir \in Dirs
      BY <1>3, <2>2, NodeFacts DEF Descend
    <3>2. PathLength(n) \in Nat
      BY <2>2, FrameFields, TreesAssumption DEF PathLength
    <3> QED
      BY <1>0, <3>1, <3>2, NewFrameIsGood
  <2> HIDE DEF f, h
  <2>5. Append(Below, f) \in Seq(G)
    BY <2>1, <2>3, Replaced DEF ShownInv
  <2> HIDE DEF G
  <2>6. stack' \in Seq(G) /\ stack'[Len(stack')] = h
    BY <2>1, <2>4, <2>5, AppendProperties, NewTop
  <2> QED
    BY <1>0, <2>1, <2>4, <2>6 DEF ShownInv, Top, G
<1>4. ASSUME NEW n \in Names, CannotDescend(n) PROVE ShownInv'
  <2>1. PICK code \in Codes \ {"OK"} : Becomes(Broken(Top, code))
    BY <1>4 DEF CannotDescend, Codes
  <2>2. stack # <<>> /\ UNCHANGED <<work, objects, stored, seen>>
    BY <1>4 DEF CannotDescend
  <2>3. /\ Broken(Top, code) \in GoodFrames(seen, stored)
        /\ Covered(Broken(Top, code), objects)
    BY <2>2, TopShown, BrokenIsGood
  <2> QED
    BY <1>0, <2>1, <2>2, <2>3, ShownLoop
<1>5. ASSUME NEW n, n \in Top.todo, stack # <<>>, Top.stage = "looking",
             NEW g \in Frames(stored), g.dir = Top.dir,
             g.entries = Top.entries, g.stage = "looking",
             g.listed = Top.listed,
             g.todo = Top.todo \ {n}, g.skipped = Top.skipped \cup {n},
             Becomes(g), UNCHANGED <<work, objects, stored, seen>>
      PROVE  ShownInv'
  <2>1. /\ Top \in GoodFrames(seen, stored) /\ Good(seen, Top)
        /\ Covered(Top, objects)
    BY <1>5, TopShown
  <2>2. /\ g.skipped \subseteq Top.skipped \cup Top.todo
        /\ g.todo \subseteq Top.todo /\ g.todo \cap g.skipped = {}
    BY <1>5, <2>1 DEF Good
  <2>3. g \in GoodFrames(seen, stored) /\ Taken(g) = Taken(Top)
    BY <1>5, <2>1, <2>2, LessIsGood
  <2>4. Covered(g, objects)
    BY <1>5, <2>1, <2>3 DEF Covered
  <2> QED
    BY <1>0, <1>5, <2>3, <2>4, ShownLoop
<1>6. ASSUME NEW n \in Names, PassLong(n) \/ Pass(n) PROVE ShownInv'
  <2>1. PICK code \in {"OK", "BUFSIZE"} :
           Becomes([Passed(Top, n) EXCEPT !.ret = code])
    <3>1. CASE PassLong(n)
      BY <3>1 DEF PassLong
    <3>2. CASE Pass(n)
      <4>1. stack # <<>>
        BY <3>2 DEF Pass
      <4>2. Passed(Top, n) = [Passed(Top, n) EXCEPT !.ret = "OK"]
        BY <4>1, TopShown DEF Passed, FrameRecords
      <4> QED
        BY <3>2, <4>2 DEF Pass
    <3> QED
      BY <1>6, <3>1, <3>2
  <2> DEFINE g == [Passed(Top, n) EXCEPT !.ret = code]
  <2>2. /\ stack # <<>> /\ Top.stage = "looking" /\ n \in Top.todo
        /\ UNCHANGED <<work, objects, stored, seen>>
    BY <1>6 DEF PassLong, Pass
  <2>3. /\ Top \in Frames(stored) /\ Top \in FrameRecords(stored)
        /\ n \in Top.listed
    BY <2>2, TopShown
  <2>4. g \in Frames(stored)
    BY <2>3, PassedFrame DEF Codes
  <2>5. /\ g.dir = Top.dir /\ g.entries = Top.entries /\ g.stage = "looking"
        /\ g.listed = Top.listed
        /\ g.todo = Top.todo \ {n} /\ g.skipped = Top.skipped \cup {n}
    BY <2>3 DEF Passed, FrameRecords
  <2> HIDE DEF g
  <2>6. Becomes(g)
    BY <2>1 DEF g
  <2> QED
    BY <1>5, <2>2, <2>4, <2>5, <2>6
<1>7. ASSUME NEW n \in Names, StatFile(n) PROVE ShownInv'
  <2> DEFINE g == [Top EXCEPT !.stage = "opening", !.todo = @ \ {n}, !.at = n,
                              !.ret = "OK", !.exec = work[Top.dir][n].exec]
  <2>1. /\ stack # <<>> /\ Top.stage = "looking" /\ n \in Top.todo
        /\ work[Top.dir][n].kind = "file"
        /\ UNCHANGED <<work, objects, stored, seen>> /\ Becomes(g)
    BY <1>7 DEF StatFile
  <2>2. /\ Top \in Frames(stored) /\ Top \in FrameRecords(stored)
        /\ n \in Top.listed /\ Good(seen, Top) /\ Covered(Top, objects)
        /\ Top.dir \in Dirs /\ work[Top.dir][n] \in Nodes
    BY <2>1, TopShown
  <2>3. work[Top.dir][n] \in Files
    BY <2>1, <2>2, FileNodes
  <2>4. g \in Frames(stored)
    <3>1. /\ Top \in Frames(stored) /\ n \in Top.listed
          /\ work[Top.dir][n].exec \in BOOLEAN
      BY <2>2, <2>3, FileFields
    <3> QED
      BY <3>1, Statted, Zenon
  <2>5. /\ g.dir = Top.dir /\ g.entries = Top.entries /\ g.stage = "opening"
        /\ g.listed = Top.listed /\ g.at = n /\ g.exec = work[Top.dir][n].exec
        /\ g.todo = Top.todo \ {n} /\ g.skipped = Top.skipped
    BY <2>2 DEF FrameRecords
  <2> HIDE DEF g
  <2>6. Taken(g) = Taken(Top)
    BY <2>5 DEF Taken
  <2>7. \E x \in seen[g.dir][g.at] \cap Files : x.exec = g.exec
    <3>1. work[Top.dir][n] \in seen[Top.dir][n]
      BY <2>2 DEF ShownInv
    <3> QED
      BY <2>3, <2>5, <3>1
  <2>8. Good(seen, g) /\ Covered(g, objects)
    <3>1. /\ Taken(Top) \cap (Top.todo \cup Top.skipped) = {}
          /\ Top.todo \cap Top.skipped = {}
          /\ Top.listed = Taken(Top) \cup Top.todo \cup Top.skipped
      BY <2>1, <2>2 DEF Good, Covered
    <3>2. /\ Taken(g) \cap (g.todo \cup g.skipped) = {}
          /\ g.todo \cap g.skipped = {}
          /\ g.at \notin g.todo \cup g.skipped \cup Taken(g)
          /\ g.listed = Taken(g) \cup g.todo \cup g.skipped \cup {g.at}
      BY <2>1, <2>5, <2>6, <3>1
    <3> QED
      BY <2>1, <2>2, <2>5, <2>7, <3>2 DEF Good, Covered
  <2>9. g \in GoodFrames(seen, stored)
    BY <2>4, <2>8 DEF GoodFrames
  <2> QED
    BY <1>0, <2>1, <2>8, <2>9, ShownLoop
<1>8. CASE PassFile
  <2> DEFINE g == Passed(Top, Top.at)
  <2>1. /\ stack # <<>> /\ Top.stage = "opening" /\ Becomes(g)
        /\ UNCHANGED <<work, objects, stored, seen>>
    BY <1>8 DEF PassFile
  <2>2. /\ Top \in Frames(stored) /\ Top \in FrameRecords(stored)
        /\ Good(seen, Top) /\ Covered(Top, objects) /\ Top.at \in Top.listed
    BY <2>1, TopShown, FrameFields
  <2>3. g \in Frames(stored)
    BY <2>2, PassedFrame DEF Codes
  <2>4. /\ g.dir = Top.dir /\ g.entries = Top.entries /\ g.stage = "looking"
        /\ g.listed = Top.listed /\ g.todo = Top.todo \ {Top.at}
        /\ g.skipped = Top.skipped \cup {Top.at}
    BY <2>2 DEF Passed, FrameRecords
  <2> HIDE DEF g
  <2>5. Taken(g) = Taken(Top)
    BY <2>4 DEF Taken
  <2>6. Good(seen, g) /\ Covered(g, objects)
    <3>1. /\ Taken(Top) \cap (Top.todo \cup Top.skipped) = {}
          /\ Top.todo \cap Top.skipped = {}
          /\ Top.at \notin Top.todo \cup Top.skipped \cup Taken(Top)
          /\ Top.listed = Taken(Top) \cup Top.todo \cup Top.skipped \cup {Top.at}
      BY <2>1, <2>2 DEF Good, Covered
    <3>2. /\ Taken(g) \cap (g.todo \cup g.skipped) = {}
          /\ g.todo \cap g.skipped = {}
          /\ g.listed = Taken(g) \cup g.todo \cup g.skipped
      BY <2>4, <2>5, <3>1
    <3> QED
      BY <2>1, <2>2, <2>4, <3>2 DEF Good, Covered
  <2>7. g \in GoodFrames(seen, stored)
    BY <2>3, <2>6 DEF GoodFrames
  <2> QED
    BY <1>0, <2>1, <2>6, <2>7, ShownLoop
<1>9. CASE FailFile
  <2>1. PICK code \in Codes \ {"OK"} : Becomes(Broken(Top, code))
    BY <1>9 DEF FailFile, Codes
  <2>2. stack # <<>> /\ UNCHANGED <<work, objects, stored, seen>>
    BY <1>9 DEF FailFile
  <2>3. /\ Broken(Top, code) \in GoodFrames(seen, stored)
        /\ Covered(Broken(Top, code), objects)
    BY <2>2, TopShown, BrokenIsGood
  <2> QED
    BY <1>0, <2>1, <2>2, <2>3, ShownLoop
<1>15. CASE OpenFile
  <2> DEFINE g == [Top EXCEPT !.stage = "reading", !.size = Len(Found.content),
                              !.held = {Found.content}]
  <2>1. /\ stack # <<>> /\ Top.stage = "opening" /\ Found.kind = "file" /\ Becomes(g)
        /\ UNCHANGED <<work, objects, stored, seen>>
    BY <1>15 DEF OpenFile, Opens
  <2>2. /\ Top \in Frames(stored) /\ Top \in FrameRecords(stored)
        /\ Good(seen, Top) /\ Covered(Top, objects) /\ Top.dir \in Dirs
        /\ Top.at \in Top.listed /\ Top.listed \subseteq Names /\ Found \in Nodes
    <3>1. /\ Top \in Frames(stored) /\ Top \in FrameRecords(stored)
          /\ Good(seen, Top) /\ Covered(Top, objects) /\ Top.dir \in Dirs
          /\ Top.listed \subseteq Names /\ work[Top.dir] \in [Names -> Nodes]
      BY <2>1, TopShown
    <3> QED
      BY <2>1, <3>1, FrameFields DEF Found
  <2>3. Found \in Files /\ Found.content \in Contents /\ Len(Found.content) \in Nat
    BY <2>1, <2>2, FileNodes, NodeFacts, TreesAssumption
  <2>4. g \in Frames(stored)
    <3>1. Top.stage \in {"opening", "reading"} /\ {Found.content} \in SUBSET Contents
      BY <2>1, <2>3
    <3> QED
      BY <2>2, <2>3, <3>1, OpenedFrame, Zenon
  <2>5. /\ g.dir = Top.dir /\ g.entries = Top.entries /\ g.stage = "reading"
        /\ g.listed = Top.listed /\ g.at = Top.at /\ g.exec = Top.exec
        /\ g.todo = Top.todo /\ g.skipped = Top.skipped
        /\ g.size = Len(Found.content) /\ g.held = {Found.content}
    BY <2>2 DEF FrameRecords
  <2> HIDE DEF g
  <2>6. Taken(g) = Taken(Top)
    BY <2>5 DEF Taken
  <2>7. Found.content \in Had(seen[Top.dir][Top.at])
    <3>1. Found \in seen[Top.dir][Top.at]
      BY <2>2 DEF ShownInv, Found
    <3> QED
      BY <2>3, <3>1 DEF Had
  <2>8. Good(seen, g) /\ Covered(g, objects)
    BY <2>1, <2>2, <2>5, <2>6, <2>7 DEF Good, Covered
  <2>9. g \in GoodFrames(seen, stored)
    BY <2>4, <2>8 DEF GoodFrames
  <2> QED
    BY <1>0, <2>1, <2>8, <2>9, ShownLoop
<1>16. CASE FailBlob
  <2>1. PICK b \in BytesRead : BreaksOff(Blob(b)) \/ UNCHANGED store
    BY <1>16 DEF FailBlob
  <2>2. /\ stack # <<>> /\ Becomes(Broken(Top, "ERROR")) /\ UNCHANGED <<work, seen>>
        /\ stored' = stored
    BY <1>16, <2>1 DEF FailBlob, BreaksOff
  <2>3. /\ Broken(Top, "ERROR") \in GoodFrames(seen, stored')
        /\ Covered(Broken(Top, "ERROR"), objects')
    BY <2>2, TopShown, BrokenIsGood DEF Codes
  <2> QED
    BY <1>0, <2>2, <2>3, ShownLoop
<1>10. CASE AddFile
  <2>1. PICK b \in BytesRead :
           /\ Keeps(Blob(b))
           /\ \E f \in Added(Top, FileMode(Top.exec), Top.at, Blob(b)) : Becomes(f)
    BY <1>10 DEF AddFile
  <2> DEFINE blob == Blob(b)
             mode == FileMode(Top.exec)
  <2>2. PICK g \in Added(Top, mode, Top.at, blob) : Becomes(g)
    BY <2>1
  <2>3. /\ stack # <<>> /\ Top.stage = "reading" /\ UNCHANGED <<work, seen>>
        /\ stored' = stored \cup {blob} /\ objects' = objects \cup {blob}
    BY <1>10, <2>1 DEF AddFile, Keeps
  <2>4. /\ Top \in GoodFrames(seen, stored) /\ Top \in Frames(stored)
        /\ Good(seen, Top) /\ Covered(Top, objects) /\ Top.dir \in Dirs
        /\ Top.at \in Top.listed /\ Top.listed \subseteq Names
    BY <2>3, TopShown, FrameFields
  <2>5. Top \in GoodFrames(seen, stored') /\ Covered(Top, objects')
    <3>1. Extends(seen, seen)
      BY DEF Extends
    <3>2. Top \in GoodFrames(seen, stored')
      BY <2>3, <2>4, <3>1, GoodGrows
    <3> QED
      BY <2>3, <2>4, <3>2 DEF Covered
  <2>6. b \in Cuts(seen[Top.dir][Top.at])
    <3>1. PICK c \in Top.held : Len(c) >= Top.size /\ b = SubSeq(c, 1, Top.size)
      BY <2>1 DEF BytesRead
    <3>2. PICK m \in Had(seen[Top.dir][Top.at]) : Top.size = Len(m)
      BY <2>3, <2>4 DEF Good
    <3>3. c \in Had(seen[Top.dir][Top.at])
      BY <2>3, <2>4, <3>1 DEF Good
    <3>4. Len(m) <= Len(c)
      <4>1. c \in Contents /\ Top.size \in Nat
        BY <2>4, <3>1, FrameFields
      <4>2. Len(c) \in Nat
        BY <4>1, TreesAssumption
      <4> QED
        BY <3>1, <3>2, <4>1, <4>2
    <3> QED
      BY <3>1, <3>2, <3>3, <3>4, ReadIsCut
  <2>7. \E x \in seen[Top.dir][Top.at] \cap Files : FileMode(x.exec) = mode
    BY <2>3, <2>4 DEF Good
  <2>8. Shown(seen, Top.dir, [mode |-> mode, name |-> Top.at, obj |-> blob])
    <3>1. blob.content = b
      BY DEF Blob
    <3> HIDE DEF blob, mode
    <3> QED
      BY <2>4, <2>6, <2>7, <3>1 DEF Shown
  <2>9. blob.type # "tree"
    BY DEF Blob
  <2> HIDE DEF blob, mode
  <2>10. g \in GoodFrames(seen, stored') /\ Covered(g, objects')
    BY <2>2, <2>3, <2>5, <2>8, AddedIsGood
  <2> QED
    BY <1>0, <2>2, <2>3, <2>9, <2>10, ShownLoop
<1>11. CASE Leave
  <2> DEFINE code == IF Top.entries = <<>> THEN "ERROR" ELSE Top.ret
  <2>1. stack # <<>> /\ UNCHANGED <<work, objects, stored, seen>> /\ Returns(code, Tree(<<>>))
    BY <1>11 DEF Leave, AtEnd
  <2>2. code \in Codes
    BY <2>1, TopShown, FrameFields DEF Codes
  <2>3. \A o \in stored' : o.type = "tree" => TrueTree(seen, o.entries)
    BY <2>1 DEF ShownInv
  <2> HIDE DEF code
  <2> QED
    BY <1>0, <2>1, <2>2, <2>3, ShownReturn
<1>12. CASE LeaveWithTree
  <2>1. PICK s \in Sorted(Top.entries), code \in Codes :
           /\ Returns(code, Tree(s))
           /\ stored' \in {stored, stored \cup {Tree(s)}}
    BY <1>12 DEF LeaveWithTree, Codes, Keeps, BreaksOff
  <2>2. stack # <<>> /\ UNCHANGED <<work, seen>>
    BY <1>12 DEF LeaveWithTree, AtEnd
  <2>3. TrueTree(seen, s)
    BY <2>1, <2>2, TopShown, SortedIsTrue
  <2>4. \A o \in stored' : o.type = "tree" => TrueTree(seen, o.entries)
    BY <2>1, <2>3 DEF ShownInv, Tree
  <2> QED
    BY <1>0, <2>1, <2>2, <2>4, ShownReturn
<1>13. CASE Crash
  <2>1. stored' = stored
    BY <1>13 DEF Crash, BreaksOff
  <2> QED
    BY <1>0, <1>13, <2>1, EmptySeq DEF Crash, ShownInv
<1>14. ASSUME NEW d \in Dirs, NEW n \in Names, Edit(d, n) PROVE ShownInv'
  <2>1. PICK node \in Files \cup {None} :
           /\ work' = [work EXCEPT ![d][n] = node]
           /\ seen' = [seen EXCEPT ![d][n] = @ \cup {node}]
           /\ IF IsReading(d, n) /\ node # None /\ work[d][n] # None
              THEN Becomes([Top EXCEPT !.held = @ \cup {node.content}])
              ELSE UNCHANGED stack
    BY <1>14 DEF Edit
  <2>2. UNCHANGED <<objects, stored>>
    BY <1>14 DEF Edit
  <2>3. /\ seen \in [Dirs -> [Names -> SUBSET Nodes]]
        /\ work \in [Dirs -> [Names -> Nodes]]
        /\ node \in Nodes
    BY <1>0 DEF ShownInv, TreeInv, Nodes
  <2>4. Extends(seen', seen)
    BY <2>1, <2>3 DEF Extends
  <2>5. seen' \in [Dirs -> [Names -> SUBSET Nodes]]
    BY <2>1, <2>3
  <2>6. \A c \in Dirs, m \in Names : work'[c][m] \in seen'[c][m]
    BY <2>1, <2>3 DEF ShownInv
  <2>7. /\ stack \in Seq(GoodFrames(seen', stored))
        /\ \A o \in stored' : o.type = "tree" => TrueTree(seen', o.entries)
    BY <2>2, <2>4, GoodGrows DEF ShownInv
  <2>8. /\ stack' \in Seq(GoodFrames(seen', stored))
        /\ stack' # <<>> => Covered(Top', objects)
    <3>1. CASE UNCHANGED stack
      BY <2>7, <3>1 DEF ShownInv, Top
    <3>2. CASE IsReading(d, n) /\ node # None
               /\ Becomes([Top EXCEPT !.held = @ \cup {node.content}])
      <4> DEFINE g == [Top EXCEPT !.held = Top.held \cup {node.content}]
                 G == GoodFrames(seen', stored)
      <4>1. /\ stack # <<>> /\ Top.stage = "reading" /\ Becomes(g)
            /\ Top.dir = d /\ Top.at = n
        BY <3>2 DEF IsReading
      <4>2. /\ Top \in Frames(stored) /\ Top \in FrameRecords(stored)
            /\ Covered(Top, objects)
        BY <4>1, TopShown
      <4>3. Top \in G /\ Good(seen', Top)
        <5>1. Top \in GoodFrames(seen', stored)
          BY <2>7, <4>1, StackFacts
        <5> QED
          BY <5>1 DEF GoodFrames
      <4>4. node \in Files /\ node.content \in Contents
        BY <2>1, <3>2 DEF Files, File
      <4>5. Top.held \cup {node.content} \in SUBSET Contents
        <5>1. Top.held \subseteq Contents
          BY <4>2, FrameFields
        <5> QED
          BY <4>4, <5>1
      <4>6. g \in Frames(stored)
        <5>1. Top.size \in Nat
          BY <4>2, FrameFields
        <5>2. Top.stage \in {"opening", "reading"}
          BY <4>1
        <5> QED
          BY <4>1, <4>2, <4>5, <5>1, <5>2, OpenedFrame, Zenon
      <4>7. /\ g.dir = Top.dir /\ g.entries = Top.entries /\ g.stage = Top.stage
            /\ g.listed = Top.listed /\ g.at = Top.at /\ g.exec = Top.exec
            /\ g.todo = Top.todo /\ g.skipped = Top.skipped
            /\ g.size = Top.size /\ g.held = Top.held \cup {node.content}
        BY <4>2 DEF FrameRecords
      <4> HIDE DEF g
      <4>8. Taken(g) = Taken(Top)
        BY <4>7 DEF Taken
      <4>9. node.content \in Had(seen'[g.dir][g.at])
        <5>1. node \in seen'[d][n]
          BY <2>1, <2>3
        <5> QED
          BY <4>1, <4>4, <4>7, <5>1 DEF Had
      <4>10. Good(seen', g) /\ Covered(g, objects)
        BY <4>1, <4>2, <4>3, <4>7, <4>8, <4>9 DEF Good, Covered
      <4>11. g \in G
        BY <4>6, <4>10 DEF GoodFrames
      <4> HIDE DEF G
      <4>12. Below \in Seq(G) /\ Append(Below, g) \in Seq(G)
        BY <2>7, <4>1, <4>11, StackFacts, Replaced DEF G
      <4>13. stack' = Append(Below, g) /\ stack'[Len(stack')] = g
        BY <4>1, <4>12, NewTop DEF Becomes
      <4> QED
        BY <4>10, <4>12, <4>13 DEF G, Top
    <3> QED
      BY <2>1, <3>1, <3>2
  <2> QED
    BY <1>0, <2>2, <2>5, <2>6, <2>7, <2>8 DEF ShownInv
<1> QED
  BY <1>1, <1>2, <1>3, <1>4, <1>6, <1>7, <1>8, <1>9, <1>10, <1>11,
     <1>12, <1>13, <1>14, <1>15, <1>16 DEF Next, Step

LEMMA ShownInvariant == Spec => []ShownInv
  BY InitShown, StepShown, PTL DEF Spec

\* Whatever happens to the files while the tree is being written, each tree
\* that was stored is in order and shows of each file a mode it has had and
\* what can be read of it: the beginning of a content it has had, of the
\* length of a content it has had.
THEOREM TreesShowFiles == Spec => []TreesAreTrue
<1>1. ASSUME ShownInv PROVE TreesAreTrue
  BY <1>1 DEF ShownInv, TreesAreTrue, Trees, TrueTree, Shown
<1> QED
  BY <1>1, ShownInvariant, PTL

\* write-tree says OK only for a tree that has every file it did not pass over,
\* and that is whole in the store, with all it names.
THEOREM NothingForgotten == Spec => TreeIsComplete
<1>1. ASSUME ShownInv, [Next]_vars, stack # <<>>, exit' = "OK", stack' = <<>>
      PROVE  /\ printed' \in objects'
             /\ \A i \in DOMAIN printed'.entries : printed'.entries[i].obj \in objects'
             /\ {printed'.entries[i].name : i \in DOMAIN printed'.entries}
                    = stack[1].listed \ stack[1].skipped
  <2> USE DEF In
  <2>1. /\ stack \in Seq(GoodFrames(seen, stored))
        /\ Below \in Seq(GoodFrames(seen, stored))
    BY <1>1, StackFacts DEF ShownInv
  <2>2. \A g : ~Becomes(g)
    <3>1. ASSUME NEW g, Becomes(g) PROVE FALSE
      <4>1. Below \in Seq(GoodFrames(seen, stored) \cup {g})
        BY <2>1, SeqGrows
      <4>2. Append(Below, g) # <<>>
        BY <4>1, AppendProperties, EmptySeq
      <4> QED
        BY <1>1, <3>1, <4>2 DEF Becomes
    <3> QED
      BY <3>1
  <2>3. \A n \in Names : ~Descend(n)
    <3>1. ASSUME NEW n \in Names, Descend(n) PROVE FALSE
      <4> DEFINE f == [Top EXCEPT !.todo = @ \ {n}, !.at = n]
                 h == Frame(work[Top.dir][n].dir, PathLength(n))
                 S == GoodFrames(seen, stored) \cup {f, h}
      <4>1. Below \in Seq(S)
        BY <2>1, SeqGrows
      <4>2. f \in S /\ h \in S /\ stack' = Append(Append(Below, f), h)
        BY <3>1 DEF Descend
      <4> HIDE DEF S, f, h
      <4>3. Append(Append(Below, f), h) # <<>>
        BY <4>1, <4>2, AppendProperties, EmptySeq
      <4> QED
        BY <1>1, <4>2, <4>3
    <3> QED
      BY <3>1
  <2>4. ASSUME NEW code, NEW tree, Returns(code, tree)
        PROVE  Len(stack) = 1 /\ code = "OK" /\ printed' = tree
    <3>1. CASE Len(stack) # 1
      <4> DEFINE rest == SubSeq(stack, 1, Len(stack) - 2)
      <4>1. PICK g : stack' = Append(rest, g)
        BY <2>4, <3>1 DEF Returns
      <4>2. \A i \in 1..(Len(stack) - 2) : stack[i] \in GoodFrames(seen, stored)
        BY <2>1, ElementOfSeq, LenProperties
      <4>3. rest \in Seq(GoodFrames(seen, stored))
        BY <2>1, <4>2, SubSeqProperties, LenProperties
      <4> HIDE DEF rest
      <4>4. rest \in Seq(GoodFrames(seen, stored) \cup {g})
        BY <4>3, SeqGrows
      <4>5. Append(rest, g) # <<>>
        BY <4>4, AppendProperties, EmptySeq
      <4> QED
        BY <1>1, <4>1, <4>5
    <3> QED
      BY <1>1, <2>4, <3>1 DEF Returns
  <2>5. ~Leave
    BY <2>4 DEF Leave
  <2>6. LeaveWithTree
    <3>1. \A n \in Names : ~CannotDescend(n) /\ ~PassLong(n) /\ ~Pass(n) /\ ~StatFile(n)
      BY <2>2 DEF CannotDescend, PassLong, Pass, StatFile
    <3>2. ~PassFile /\ ~OpenFile /\ ~FailFile /\ ~FailBlob /\ ~AddFile
      BY <2>2 DEF PassFile, OpenFile, FailFile, FailBlob, AddFile
    <3>3. ~Start /\ ~Crash /\ \A d \in Dirs, n \in Names : ~Edit(d, n)
      BY <1>1, <2>2 DEF Start, Crash, Edit
    <3>4. stack' # stack
      BY <1>1
    <3>5. ~UNCHANGED vars
      BY <3>4 DEF vars
    <3>6. Next
      BY <1>1, <3>5
    <3> QED
      BY <2>3, <2>5, <3>1, <3>2, <3>3, <3>6 DEF Next, Step
  <2>7. PICK s \in Sorted(Top.entries) :
           /\ Len(stack) = 1 /\ printed' = Tree(s)
           /\ objects' = objects \cup {Tree(s)}
    BY <2>4, <2>6 DEF LeaveWithTree, Keeps
  <2>8. /\ Top = stack[1] /\ Good(seen, Top) /\ Covered(Top, objects)
        /\ Top \in GoodFrames(seen, stored)
    BY <1>1, <2>7, TopShown DEF Top
  <2>9. /\ {s[i].name : i \in DOMAIN s} = Taken(Top)
        /\ \A i \in DOMAIN s : \E j \in DOMAIN Top.entries : s[i] = Top.entries[j]
    BY <2>7, <2>8, SortedIsTrue
  <2>10. Top.stage = "looking" /\ Top.todo = {}
    BY <2>6, <2>8 DEF LeaveWithTree, AtEnd, Good
  <2>11. Taken(Top) = Top.listed \ Top.skipped
    BY <2>8, <2>10 DEF Good, Covered
  <2>12. \A i \in DOMAIN s : s[i].obj \in objects'
    <3>1. \A j \in DOMAIN Top.entries : Top.entries[j].obj \in objects'
      BY <2>7, <2>8, <2>10 DEF Covered
    <3> QED
      BY <2>9, <3>1
  <2>13. printed'.entries = s /\ printed' \in objects'
    BY <2>7 DEF Tree
  <2> QED
    BY <2>8, <2>9, <2>11, <2>12, <2>13
<1>2. ShownInv /\ [Next]_vars =>
         [stack # <<>> /\ exit' = "OK" /\ stack' = <<>> =>
             /\ printed' \in objects'
             /\ \A i \in DOMAIN printed'.entries : printed'.entries[i].obj \in objects'
             /\ {printed'.entries[i].name : i \in DOMAIN printed'.entries}
                    = stack[1].listed \ stack[1].skipped]_vars
  BY <1>1
<1> QED
  BY <1>2, ShownInvariant, PTL DEF Spec, TreeIsComplete

-----------------------------------------------------------------------------
(* The bytes of a tree, and what the parsers make of them                  *)

\* Where a loop stops that meets the end of its field in time.
LEMMA StopAt ==
    ASSUME NEW data, Len(data) \in Nat, NEW kind, NEW size \in Nat,
           NEW from \in Nat, NEW k \in Nat, from <= k, k <= Len(data),
           data[k].kind = kind, k - from <= size - 1,
           \A j \in from..k - 1 : data[j].kind # kind
    PROVE  Stop(data, from, kind, size) = k
<1> DEFINE Stops(x) == /\ x > Len(data) \/ data[x].kind = kind \/ x - from >= size - 1
                       /\ \A j \in from..x - 1 :
                             j - from < size - 1 /\ data[j].kind # kind
<1>1. k \in from..Len(data) + 1 /\ Stops(k)
  <2>1. \A j \in from..k - 1 : j - from < size - 1
    OBVIOUS
  <2> QED
    BY <2>1
<1>2. ASSUME NEW x \in from..Len(data) + 1, Stops(x) PROVE x = k
  <2>1. ~(k < x)
    <3>1. SUFFICES ASSUME k < x PROVE FALSE
      OBVIOUS
    <3>2. k \in from..x - 1
      BY <3>1
    <3> QED
      BY <1>2, <3>2
  <2>2. ~(x < k)
    <3>1. SUFFICES ASSUME x < k PROVE FALSE
      OBVIOUS
    <3>2. x \in from..k - 1 /\ ~(x > Len(data)) /\ ~(x - from >= size - 1)
      BY <3>1
    <3> QED
      BY <1>2, <3>2
  <2> QED
    BY <2>1, <2>2
<1>3. Stop(data, from, kind, size) = CHOOSE x \in from..Len(data) + 1 : Stops(x)
  BY DEF Stop
<1> HIDE DEF Stops
<1> QED
  BY <1>1, <1>2, <1>3

\* A loop stops somewhere: at the least place where it has to.
LEMMA StopExists ==
    ASSUME NEW data, Len(data) \in Nat, NEW kind, NEW size \in Nat,
           NEW from \in Nat, from <= Len(data) + 1
    PROVE  Stop(data, from, kind, size) \in from..Len(data) + 1
<1> DEFINE Must(x) == x > Len(data) \/ data[x].kind = kind \/ x - from >= size - 1
           Places == {x \in from..Len(data) + 1 : Must(x)}
           Stops(x) == /\ Must(x)
                       /\ \A j \in from..x - 1 :
                             j - from < size - 1 /\ data[j].kind # kind
<1>1. Places # {} /\ Places \in SUBSET Nat
  <2>1. Len(data) + 1 \in Places
    OBVIOUS
  <2> QED
    BY <2>1
<1>2. PICK k \in Places : \A x \in Places : k <= x
  BY <1>1, LeastNatural
<1>3. k \in from..Len(data) + 1 /\ Stops(k)
  <2>1. ASSUME NEW j \in from..k - 1 PROVE j - from < size - 1 /\ data[j].kind # kind
    <3>1. j \notin Places /\ j \in from..Len(data) + 1
      BY <1>2
    <3>2. ~Must(j) /\ j \in Nat
      BY <3>1
    <3> QED
      BY <3>2
  <2> QED
    BY <1>2, <2>1
<1>4. Stop(data, from, kind, size) = CHOOSE x \in from..Len(data) + 1 : Stops(x)
  BY DEF Stop
<1> HIDE DEF Stops
<1> QED
  BY <1>3, <1>4

\* An entry is not empty, and it ends in the data.
LEMMA AfterIsBehind ==
    ASSUME NEW data, Len(data) \in Nat, NEW o \in 1..Len(data), IsEntry(data, o)
    PROVE  After(data, o) \in o + 1..Len(data) + 1
<1> DEFINE m == ModeEnd(data, o)
           n == NameEnd(data, o)
<1>0. DigestSize \in Nat \ {0} /\ ModeBuf \in Nat /\ NameBuf \in Nat
  BY FormatAssumption
<1>1. m \in o..Len(data) + 1
  BY <1>0, StopExists DEF ModeEnd
<1>2. m <= Len(data)
  BY DEF IsEntry, IsAt
<1>3. n \in m + 1..Len(data) + 1
  <2>1. m + 1 \in Nat /\ m + 1 <= Len(data) + 1
    BY <1>1, <1>2
  <2>2. n = Stop(data, m + 1, "null", NameBuf)
    BY DEF NameEnd
  <2> HIDE DEF m, n
  <2> QED
    BY <1>0, <2>1, <2>2, StopExists
<1>4. After(data, o) = n + DigestSize + 1 /\ After(data, o) <= Len(data) + 1
  BY DEF After, IsEntry
<1> HIDE DEF m, n
<1> QED
  BY <1>0, <1>1, <1>3, <1>4

\* The parser's function, from position k on.
ParsesFrom(data, k, f) ==
    /\ f = [o \in k..Len(data) + 1 |-> f[o]]
    /\ \A o \in k..Len(data) + 1 :
          f[o] = IF o > Len(data) THEN <<>>
                 ELSE IF ~IsEntry(data, o) THEN <<Malformed>>
                 ELSE <<EntryAt(data, o)>> \o f[After(data, o)]

LEMMA ParserExists ==
    ASSUME NEW data, Len(data) \in Nat
    PROVE  \E f : ParsesFrom(data, 1, f)
<1> DEFINE L == Len(data)
           Without == {j \in 0..L : \A f : ~ParsesFrom(data, L + 1 - j, f)}
<1>1. L \in Nat
  OBVIOUS
<1>2. SUFFICES ASSUME Without # {} PROVE FALSE
  <2>1. L \in 0..L /\ L + 1 - L = 1
    BY <1>1
  <2>2. L \notin Without
    BY <1>2
  <2> QED
    BY <2>1, <2>2
<1>3. PICK j \in Without : \A i \in Without : j <= i
  <2>1. Without \in SUBSET Nat
    BY <1>1
  <2> QED
    BY <1>2, <2>1, LeastNatural
<1>4. j # 0
  <2> DEFINE f == [o \in L + 1..L + 1 |-> <<>>]
  <2>1. ParsesFrom(data, L + 1, f)
    BY <1>1 DEF ParsesFrom
  <2> QED
    BY <1>1, <1>3, <2>1
<1> DEFINE k == L + 1 - j
<1>5. k \in 1..L /\ L + 1 - (j - 1) = k + 1
  BY <1>1, <1>3, <1>4
<1>6. PICK f : ParsesFrom(data, k + 1, f)
  <2>1. j - 1 \in 0..L /\ ~(j <= j - 1)
    BY <1>1, <1>3, <1>4
  <2>2. j - 1 \notin Without
    BY <1>3, <2>1
  <2> QED
    BY <1>5, <2>1, <2>2
<1> DEFINE new == IF ~IsEntry(data, k) THEN <<Malformed>>
                  ELSE <<EntryAt(data, k)>> \o f[After(data, k)]
           g == [o \in k..L + 1 |-> IF o = k THEN new ELSE f[o]]
<1>7. ParsesFrom(data, k, g)
  <2> HIDE DEF k, L, new
  <2>1. g = [o \in k..L + 1 |-> g[o]]
    OBVIOUS
  <2>2. ASSUME NEW o \in k..L + 1
        PROVE  g[o] = IF o > L THEN <<>>
                      ELSE IF ~IsEntry(data, o) THEN <<Malformed>>
                      ELSE <<EntryAt(data, o)>> \o g[After(data, o)]
    <3>1. ASSUME o <= L, IsEntry(data, o)
          PROVE  g[After(data, o)] = f[After(data, o)]
      <4>1. After(data, o) \in o + 1..L + 1
        BY <1>1, <1>5, <3>1, AfterIsBehind DEF L
      <4>2. After(data, o) \in k..L + 1 /\ After(data, o) # k
        BY <1>1, <1>5, <4>1
      <4> QED
        BY <4>2
    <3>2. CASE o = k
      <4>1. ~(o > L) /\ o <= L
        BY <1>1, <1>5, <3>2
      <4>2. g[o] = new
        BY <3>2
      <4> QED
        BY <3>1, <3>2, <4>1, <4>2 DEF new
    <3>3. CASE o # k
      <4>1. o \in k + 1..L + 1 /\ (~(o > L) => o <= L)
        BY <1>1, <1>5, <3>3
      <4>2. g[o] = f[o]
        BY <3>3
      <4>3. f[o] = IF o > L THEN <<>>
                   ELSE IF ~IsEntry(data, o) THEN <<Malformed>>
                   ELSE <<EntryAt(data, o)>> \o f[After(data, o)]
        BY <1>6, <4>1 DEF ParsesFrom, L
      <4> HIDE DEF g
      <4> QED
        BY <3>1, <4>1, <4>2, <4>3
    <3> QED
      BY <3>2, <3>3
  <2> HIDE DEF g
  <2> QED
    BY <2>1, <2>2 DEF ParsesFrom, L
<1> QED
  BY <1>3, <1>7

LEMMA ParsedIs ==
    ASSUME NEW data, Len(data) \in Nat
    PROVE  \E f : ParsesFrom(data, 1, f) /\ Parsed(data) = f[1]
<1> DEFINE Eq(f) == f = [o \in 1..Len(data) + 1 |->
                            IF o > Len(data) THEN <<>>
                            ELSE IF ~IsEntry(data, o) THEN <<Malformed>>
                            ELSE <<EntryAt(data, o)>> \o f[After(data, o)]]
           g == CHOOSE f : Eq(f)
<1>1. \E f : Eq(f)
  <2>1. PICK f : ParsesFrom(data, 1, f)
    BY ParserExists
  <2>2. Eq(f)
    BY <2>1 DEF ParsesFrom
  <2> QED
    BY <2>2
<1>2. Eq(g)
  <2> HIDE DEF Eq
  <2> QED
    BY <1>1
<1>3. Parsed(data) = g[1]
  BY DEF Parsed
<1> HIDE DEF g
<1>4. ParsesFrom(data, 1, g)
  BY <1>2 DEF ParsesFrom
<1> QED
  BY <1>3, <1>4

LEMMA BytesUpToIs ==
    ASSUME NEW S, NEW s, Len(s) \in Nat,
           \A i \in 1..Len(s) : EntryBytes(s[i]) \in Seq(S)
    PROVE  /\ BytesUpTo(s)[0] = <<>>
           /\ \A i \in 1..Len(s) :
                 BytesUpTo(s)[i] = BytesUpTo(s)[i - 1] \o EntryBytes(s[i])
           /\ \A i \in 0..Len(s) : BytesUpTo(s)[i] \in Seq(S)
<1> DEFINE N == Len(s)
           IsUpTo(f, n) == /\ f = [i \in 0..n |-> f[i]]
                           /\ \A i \in 0..n :
                                f[i] = IF i = 0 THEN <<>>
                                       ELSE f[i - 1] \o EntryBytes(s[i])
           Eq(f) == f = [i \in 0..N |-> IF i = 0 THEN <<>>
                                        ELSE f[i - 1] \o EntryBytes(s[i])]
           up == BytesUpTo(s)
<1>1. N \in Nat
  OBVIOUS
<1>2. \E f : IsUpTo(f, N)
  <2> DEFINE Without == {n \in 0..N : \A f : ~IsUpTo(f, n)}
  <2>1. SUFFICES ASSUME Without # {} PROVE FALSE
    BY <1>1
  <2>2. PICK n \in Without : \A k \in Without : n <= k
    <3>1. Without \in SUBSET Nat
      BY <1>1
    <3> QED
      BY <2>1, <3>1, LeastNatural
  <2>3. n # 0
    <3>1. IsUpTo([i \in 0..0 |-> <<>>], 0)
      OBVIOUS
    <3> QED
      BY <2>2, <3>1
  <2>4. PICK f : IsUpTo(f, n - 1)
    <3>1. n - 1 \in 0..N /\ ~(n <= n - 1)
      BY <1>1, <2>2, <2>3
    <3> QED
      BY <2>2, <3>1
  <2> DEFINE g == [i \in 0..n |-> IF i = n THEN f[n - 1] \o EntryBytes(s[n]) ELSE f[i]]
  <2>5. IsUpTo(g, n)
    <3>1. g = [i \in 0..n |-> g[i]]
      OBVIOUS
    <3>2. ASSUME NEW i \in 0..n
          PROVE  g[i] = IF i = 0 THEN <<>> ELSE g[i - 1] \o EntryBytes(s[i])
      <4>0. n \in Nat \ {0}
        BY <1>1, <2>2, <2>3
      <4>1. CASE i = n
        <5>1. n - 1 \in 0..n /\ n - 1 # n /\ i # 0
          BY <4>0, <4>1
        <5>2. g[n - 1] = f[n - 1]
          BY <5>1
        <5>3. g[n] = f[n - 1] \o EntryBytes(s[n])
          <6>1. n \in 0..n
            BY <4>0
          <6> HIDE DEF Without
          <6> QED
            BY <6>1
        <5> HIDE DEF g
        <5> QED
          BY <4>1, <5>1, <5>2, <5>3
      <4>2. CASE i # n
        <5>1. i \in 0..n - 1 /\ g[i] = f[i]
          BY <4>0, <4>2
        <5>2. f[i] = IF i = 0 THEN <<>> ELSE f[i - 1] \o EntryBytes(s[i])
          BY <2>4, <5>1
        <5>3. i # 0 => g[i - 1] = f[i - 1]
          <6>1. i # 0 => i - 1 \in 0..n /\ i - 1 # n
            BY <4>0
          <6> QED
            BY <6>1
        <5> HIDE DEF g
        <5> QED
          BY <5>1, <5>2, <5>3
      <4> QED
        BY <4>1, <4>2
    <3> QED
      BY <3>1, <3>2
  <2> QED
    BY <2>2, <2>5
<1>3. Eq(up)
  <2>1. \E f : Eq(f)
    BY <1>2
  <2>2. up = CHOOSE f : Eq(f)
    BY DEF BytesUpTo
  <2> HIDE DEF Eq
  <2> QED
    BY <2>1, <2>2
<1>4. /\ up[0] = <<>>
      /\ \A i \in 1..N : up[i] = up[i - 1] \o EntryBytes(s[i])
  <2> HIDE DEF up
  <2>1. \A i \in 0..N : up[i] = IF i = 0 THEN <<>> ELSE up[i - 1] \o EntryBytes(s[i])
    BY <1>3
  <2>2. 0 \in 0..N /\ \A i \in 1..N : i \in 0..N /\ i # 0
    BY <1>1
  <2> HIDE DEF Eq
  <2> QED
    BY <2>1, <2>2
<1> HIDE DEF up
<1>5. \A i \in 0..N : up[i] \in Seq(S)
  <2> DEFINE Not == {i \in 0..N : up[i] \notin Seq(S)}
  <2>1. SUFFICES ASSUME Not # {} PROVE FALSE
    OBVIOUS
  <2>2. PICK i \in Not : \A j \in Not : i <= j
    <3>1. Not \in SUBSET Nat
      BY <1>1
    <3> QED
      BY <2>1, <3>1, LeastNatural
  <2>3. i # 0
    BY <1>4, <2>2, EmptySeq
  <2>4. i - 1 \in 0..N /\ ~(i <= i - 1) /\ i \in 1..N
    BY <1>1, <2>2, <2>3
  <2>5. up[i - 1] \in Seq(S) /\ up[i] = up[i - 1] \o EntryBytes(s[i])
    BY <1>4, <2>2, <2>4
  <2>6. EntryBytes(s[i]) \in Seq(S)
    BY <2>4
  <2>7. up[i] \in Seq(S)
    <3> DEFINE a == up[i - 1]
               b == EntryBytes(s[i])
    <3>1. a \in Seq(S) /\ b \in Seq(S)
      BY <2>5, <2>6
    <3> HIDE DEF a, b
    <3>2. a \o b \in Seq(S)
      BY <3>1, ConcatProperties
    <3> QED
      BY <2>5, <3>2 DEF a, b
  <2> QED
    BY <2>2, <2>7
<1> QED
  BY <1>4, <1>5 DEF up

\* The data begins with some bytes.
Begins(S, data, x) == x \in Seq(S) /\ \E z \in Seq(S) : data = x \o z

\* After them the data holds others.
Holds(data, x, y) ==
    /\ Len(x) + Len(y) <= Len(data)
    /\ \A i \in 1..Len(y) : data[Len(x) + i] = y[i]
    /\ SubSeq(data, Len(x) + 1, Len(x) + Len(y)) = y

LEMMA BeginsFacts ==
    ASSUME NEW S, NEW data, NEW x \in Seq(S), NEW y \in Seq(S), Begins(S, data, x \o y)
    PROVE  Begins(S, data, x) /\ Holds(data, x, y) /\ data \in Seq(S)
<1>1. PICK z \in Seq(S) : data = (x \o y) \o z
  BY DEF Begins
<1>2. (x \o y) \o z = x \o (y \o z)
  BY ConcatAssociative
<1>3. y \o z \in Seq(S) /\ Len(y \o z) = Len(y) + Len(z)
      /\ \A i \in 1..Len(y) + Len(z) :
            (y \o z)[i] = IF i <= Len(y) THEN y[i] ELSE z[i - Len(y)]
  BY ConcatProperties
<1> DEFINE w == y \o z
<1>4. data = x \o w /\ w \in Seq(S)
  BY <1>1, <1>2, <1>3
<1>5. /\ data \in Seq(S) /\ Len(data) = Len(x) + Len(w)
      /\ \A i \in 1..Len(x) + Len(w) : data[i] = IF i <= Len(x) THEN x[i] ELSE w[i - Len(x)]
  <2> HIDE DEF w
  <2>1. /\ x \o w \in Seq(S) /\ Len(x \o w) = Len(x) + Len(w)
        /\ \A i \in 1..Len(x) + Len(w) :
              (x \o w)[i] = IF i <= Len(x) THEN x[i] ELSE w[i - Len(x)]
    BY <1>4, ConcatProperties
  <2> QED
    BY <1>4, <2>1
<1>6. Begins(S, data, x)
  BY <1>4 DEF Begins
<1> DEFINE lx == Len(x)
           ly == Len(y)
           lz == Len(z)
           ld == Len(data)
<1>7. lx \in Nat /\ ly \in Nat /\ lz \in Nat /\ ld = lx + (ly + lz)
  BY <1>3, <1>5
<1>8. \A i \in 1..ly : data[lx + i] = y[i]
  <2>1. ASSUME NEW i \in 1..ly PROVE data[lx + i] = y[i]
    <3>1. w[i] = y[i]
      <4>1. i \in 1..ly + lz /\ i <= ly
        BY <1>7
      <4> QED
        BY <1>3, <4>1
    <3>2. lx + i \in 1..Len(x) + Len(w) /\ ~(lx + i <= Len(x)) /\ (lx + i) - Len(x) = i
      BY <1>3, <1>7
    <3> HIDE DEF w
    <3>3. data[lx + i] = w[i]
      BY <1>5, <3>2
    <3> QED
      BY <3>1, <3>3
  <2> QED
    BY <2>1
<1>9. SubSeq(data, lx + 1, lx + ly) = y
  <2> DEFINE part == SubSeq(data, lx + 1, lx + ly)
  <2>1. \A i \in lx + 1..lx + ly : data[i] \in S
    <3>1. \A i \in lx + 1..lx + ly : i \in 1..Len(data)
      BY <1>7
    <3> QED
      BY <1>5, <3>1, ElementOfSeq
  <2>2. /\ part \in Seq(S)
        /\ Len(part) = IF lx + 1 <= lx + ly THEN (lx + ly) - (lx + 1) + 1 ELSE 0
        /\ \A i \in 1..(lx + ly) - (lx + 1) + 1 : part[i] = data[(lx + 1) + i - 1]
    <3>1. lx + 1 \in Int /\ lx + ly \in Int
      BY <1>7
    <3> HIDE DEF lx, ly
    <3> QED
      BY <2>1, <3>1, SubSeqProperties
  <2>3. Len(part) = ly /\ \A i \in 1..ly : part[i] = data[lx + i]
    <3>1. (lx + ly) - (lx + 1) + 1 = ly
      BY <1>7
    <3>2. \A i \in 1..ly : (lx + 1) + i - 1 = lx + i
      BY <1>7
    <3> HIDE DEF part, lx, ly
    <3>3. Len(part) = ly
      BY <1>7, <2>2, <3>1
    <3>4. ASSUME NEW i \in 1..ly PROVE part[i] = data[lx + i]
      BY <2>2, <3>1, <3>2
    <3> QED
      BY <3>3, <3>4
  <2> HIDE DEF part
  <2>4. part = y
    BY <1>8, <2>2, <2>3, SeqEqual
  <2> QED
    BY <2>4 DEF part
<1>10. lx + ly <= ld
  <2> HIDE DEF lx, ly, lz, ld
  <2> QED
    BY <1>7
<1> QED
  BY <1>5, <1>6, <1>8, <1>9, <1>10 DEF Holds

LEMMA PrefixesBegin ==
    ASSUME NEW S, NEW s, Len(s) \in Nat,
           \A j \in 1..Len(s) : EntryBytes(s[j]) \in Seq(S),
           NEW i \in 0..Len(s)
    PROVE  Begins(S, TreeBytes(s), BytesUpTo(s)[i])
<1> DEFINE N == Len(s)
           up == BytesUpTo(s)
           data == TreeBytes(s)
           Not == {k \in 0..N : ~Begins(S, data, up[N - k])}
<1>1. /\ N \in Nat /\ data = up[N]
      /\ \A j \in 1..N : up[j] = up[j - 1] \o EntryBytes(s[j])
      /\ \A j \in 0..N : up[j] \in Seq(S)
  BY BytesUpToIs DEF TreeBytes
<1> HIDE DEF up, data
<1>2. Not \in SUBSET Nat
  BY <1>1
<1>4. Begins(S, data, up[N])
  <2>1. up[N] \in Seq(S)
    BY <1>1
  <2>2. up[N] \o <<>> = up[N] /\ <<>> \in Seq(S)
    BY <2>1, ConcatEmptySeq, EmptySeq
  <2> QED
    BY <1>1, <2>1, <2>2 DEF Begins
<1>5. ASSUME NEW k \in Not, \A j \in Not : k <= j PROVE FALSE
  <2>1. k # 0
    BY <1>1, <1>4
  <2>2. k - 1 \in 0..N /\ ~(k <= k - 1) /\ N - (k - 1) \in 1..N
        /\ (N - (k - 1)) - 1 = N - k /\ N - k \in 0..N
    BY <1>1, <2>1
  <2>3. Begins(S, data, up[N - (k - 1)])
    BY <1>5, <2>2
  <2> DEFINE x == up[N - k]
             y == EntryBytes(s[N - (k - 1)])
  <2>4. up[N - (k - 1)] = x \o y /\ x \in Seq(S) /\ y \in Seq(S)
    BY <1>1, <2>2
  <2> HIDE DEF x, y
  <2>5. Begins(S, data, x)
    BY <2>3, <2>4, BeginsFacts
  <2> QED
    BY <2>5 DEF x
<1>6. Not = {}
  <2> HIDE DEF Not
  <2> QED
    BY <1>2, <1>5, LeastNatural
<1>7. N - i \in 0..N /\ N - (N - i) = i
  BY <1>1
<1>8. Begins(S, data, up[i])
  BY <1>6, <1>7
<1>9. Begins(S, TreeBytes(s), BytesUpTo(s)[i])
  BY <1>8 DEF data, up
<1> QED
  BY <1>9

FieldsIn(S, e) ==
    /\ ModeBytes(e) \in Seq(S) /\ Space \in Seq(S) /\ NameBytes(e) \in Seq(S)
    /\ Null \in Seq(S) /\ HashBytes(e) \in Seq(S)

LEMMA EntryBytesType ==
    ASSUME NEW S, NEW e, FieldsIn(S, e)
    PROVE  EntryBytes(e) \in Seq(S)
<1> DEFINE a == ModeBytes(e) \o Space
           b == a \o NameBytes(e)
           c == b \o Null
<1>1. a \in Seq(S)
  BY ConcatProperties DEF FieldsIn
<1> HIDE DEF a
<1>2. b \in Seq(S)
  BY <1>1, ConcatProperties DEF FieldsIn
<1> HIDE DEF b
<1>3. c \in Seq(S)
  BY <1>2, ConcatProperties DEF FieldsIn
<1> HIDE DEF c
<1>4. c \o HashBytes(e) \in Seq(S)
  BY <1>3, ConcatProperties DEF FieldsIn
<1> QED
  BY <1>4 DEF EntryBytes, a, b, c

\* The bytes of an entry, field by field, behind what is there.
LEMMA EntryUnfolds ==
    ASSUME NEW S, NEW e, FieldsIn(S, e), NEW x \in Seq(S)
    PROVE  x \o EntryBytes(e)
             = ((((x \o ModeBytes(e)) \o Space) \o NameBytes(e)) \o Null) \o HashBytes(e)
<1> DEFINE m == ModeBytes(e)
           n == NameBytes(e)
           h == HashBytes(e)
           a == m \o Space
           b == a \o n
           c == b \o Null
<1>1. m \in Seq(S) /\ Space \in Seq(S) /\ n \in Seq(S) /\ Null \in Seq(S) /\ h \in Seq(S)
  BY DEF FieldsIn
<1> HIDE DEF m, n, h
<1>2. a \in Seq(S) /\ Associates(x, m, Space)
  BY <1>1, Associative
<1> HIDE DEF a
<1>3. b \in Seq(S) /\ Associates(x, a, n)
  BY <1>1, <1>2, Associative
<1> HIDE DEF b
<1>4. c \in Seq(S) /\ Associates(x, b, Null)
  BY <1>1, <1>3, Associative
<1> HIDE DEF c
<1>5. Associates(x, c, h)
  BY <1>1, <1>4, Associative
<1>6. x \o EntryBytes(e) = x \o (c \o h)
  BY DEF EntryBytes, c, b, a, m, n, h
<1>7. ((((x \o m) \o Space) \o n) \o Null) \o h = x \o (c \o h)
  BY <1>2, <1>3, <1>4, <1>5, Zenon DEF Associates, a, b, c
<1> QED
  BY <1>6, <1>7 DEF m, n, h

LEMMA FieldFacts ==
    ASSUME NEW kind, NEW of, NEW size \in Nat
    PROVE  /\ Len(Field(kind, of, size)) = size
           /\ \A i \in 1..size : Field(kind, of, size)[i].kind = kind
  BY DEF Field

\* The data shows an entry at o, and goes on at `next`.
Line(e) == [mode |-> ModeBytes(e), name |-> NameBytes(e), hash |-> HashBytes(e)]

Shows(data, o, e, next) ==
    /\ o \in 1..Len(data) /\ IsEntry(data, o)
    /\ EntryAt(data, o) = Line(e) /\ After(data, o) = next

NameFits(e) == Length[e.name] \in Nat /\ Length[e.name] < NameBuf

\* The bytes of an entry, wherever they are, are read as that entry.
LEMMA ParseOne ==
    ASSUME NEW S, NEW e, FieldsIn(S, e), NameFits(e), NEW data, NEW x \in Seq(S),
           Begins(S, data, x \o EntryBytes(e))
    PROVE  Shows(data, Len(x) + 1, e, Len(x \o EntryBytes(e)) + 1)
<1> DEFINE m == ModeBytes(e)
           n == NameBytes(e)
           h == HashBytes(e)
           a == x \o m
           b == a \o Space
           c == b \o n
           d == c \o Null
           w == d \o h
           ln == Length[e.name]
           lx == Len(x)
           L == Len(data)
<1>1. m \in Seq(S) /\ Space \in Seq(S) /\ n \in Seq(S) /\ Null \in Seq(S) /\ h \in Seq(S)
  BY DEF FieldsIn
<1>2. /\ ln \in Nat /\ ln < NameBuf /\ NameBuf \in Nat
      /\ ModeLength = 6 /\ ModeBuf \in Nat /\ 6 < ModeBuf /\ DigestSize \in Nat \ {0}
  BY FormatAssumption DEF NameFits, ModeLength
<1>3. /\ Len(m) = 6 /\ \A i \in 1..6 : m[i].kind = "mode"
      /\ Len(n) = ln /\ \A i \in 1..ln : n[i].kind = "name"
      /\ Len(h) = DigestSize
  <2> HIDE DEF ln
  <2>1. m = Field("mode", e.mode, ModeLength) /\ n = Field("name", e.name, ln)
        /\ h = Field("hash", e.obj, DigestSize)
    BY DEF ModeBytes, NameBytes, HashBytes, ln
  <2> HIDE DEF m, n, h
  <2>2. Len(m) = 6 /\ \A i \in 1..6 : m[i].kind = "mode"
    <3>1. ModeLength \in Nat
      BY <1>2
    <3>2. Len(m) = ModeLength /\ \A i \in 1..ModeLength : m[i].kind = "mode"
      BY <2>1, <3>1, FieldFacts
    <3> QED
      BY <1>2, <3>2
  <2>3. Len(n) = ln /\ \A i \in 1..ln : n[i].kind = "name"
    BY <1>2, <2>1, FieldFacts
  <2>4. Len(h) = DigestSize
    BY <1>2, <2>1, FieldFacts
  <2> QED
    BY <2>2, <2>3, <2>4
<1>4. Len(Space) = 1 /\ Space[1].kind = "space" /\ Len(Null) = 1 /\ Null[1].kind = "null"
  BY DEF Space, Null
<1>5. x \o EntryBytes(e) = w
  BY EntryUnfolds
<1> HIDE DEF m, n, h, ln
<1>6. a \in Seq(S) /\ Len(a) = lx + 6
  <2>1. a \in Seq(S) /\ Len(a) = Len(x) + Len(m)
    BY <1>1, ConcatProperties
  <2> QED
    BY <1>3, <2>1
<1> HIDE DEF a
<1>7. b \in Seq(S) /\ Len(b) = lx + 6 + 1
  <2>1. b \in Seq(S) /\ Len(b) = Len(a) + Len(Space)
    BY <1>1, <1>6, ConcatProperties
  <2> QED
    BY <1>4, <1>6, <2>1
<1> HIDE DEF b
<1>8. c \in Seq(S) /\ Len(c) = (lx + 6 + 1) + ln
  <2>1. c \in Seq(S) /\ Len(c) = Len(b) + Len(n)
    BY <1>1, <1>7, ConcatProperties
  <2> QED
    BY <1>3, <1>7, <2>1
<1> HIDE DEF c
<1>9. d \in Seq(S) /\ Len(d) = (lx + 6 + 1) + ln + 1
  <2>1. d \in Seq(S) /\ Len(d) = Len(c) + Len(Null)
    BY <1>1, <1>8, ConcatProperties
  <2> QED
    BY <1>4, <1>8, <2>1
<1> HIDE DEF d
<1>10. Len(w) = (lx + 6 + 1) + ln + 1 + DigestSize
  <2>1. Len(w) = Len(d) + Len(h)
    BY <1>1, <1>9, ConcatProperties
  <2> QED
    BY <1>3, <1>9, <2>1
<1>11. Begins(S, data, d) /\ Holds(data, d, h) /\ data \in Seq(S)
  BY <1>1, <1>5, <1>9, BeginsFacts
<1>12. Begins(S, data, c) /\ Holds(data, c, Null)
  BY <1>1, <1>8, <1>11, BeginsFacts DEF d
<1>13. Begins(S, data, b) /\ Holds(data, b, n)
  BY <1>1, <1>7, <1>12, BeginsFacts DEF c
<1>14. Begins(S, data, a) /\ Holds(data, a, Space)
  BY <1>1, <1>6, <1>13, BeginsFacts DEF b
<1>15. Holds(data, x, m)
  BY <1>1, <1>14, BeginsFacts DEF a
<1>16. lx \in Nat /\ L \in Nat
  BY <1>11, LenProperties
<1> HIDE DEF lx
<1> DEFINE o == lx + 1
           k == lx + 7
           q == k + ln + 1
<1>17. k <= L /\ data[k].kind = "space" /\ SubSeq(data, o, k - 1) = m
       /\ \A j \in o..k - 1 : data[j].kind = "mode"
  <2>1. k <= L
    BY <1>4, <1>6, <1>14, <1>16 DEF Holds
  <2>2. data[k] = Space[1]
    <3>1. data[Len(a) + 1] = Space[1]
      BY <1>4, <1>14 DEF Holds
    <3>2. Len(a) + 1 = k
      BY <1>6, <1>16
    <3> QED
      BY <3>1, <3>2
  <2>3. SubSeq(data, o, k - 1) = m
    <3>1. SubSeq(data, lx + 1, lx + 6) = m
      BY <1>3, <1>15 DEF Holds, lx
    <3>2. k - 1 = lx + 6
      BY <1>16
    <3> QED
      BY <3>1, <3>2
  <2>4. ASSUME NEW j \in o..k - 1 PROVE data[j].kind = "mode"
    <3>1. j - lx \in 1..6 /\ lx + (j - lx) = j
      BY <1>16
    <3>2. data[lx + (j - lx)] = m[j - lx]
      BY <1>3, <1>15, <3>1 DEF Holds, lx
    <3> QED
      BY <1>3, <3>1, <3>2
  <2> QED
    BY <1>4, <2>1, <2>2, <2>3, <2>4
<1>18. q <= L /\ data[q].kind = "null" /\ SubSeq(data, k + 1, q - 1) = n
       /\ \A j \in k + 1..q - 1 : data[j].kind = "name"
  <2>0. Len(b) = k /\ Len(c) = q - 1 /\ k \in Nat /\ q \in Nat
    BY <1>2, <1>7, <1>8, <1>16
  <2> HIDE DEF q
  <2>1. q <= L
    <3>1. Len(c) + Len(Null) <= L
      BY <1>12 DEF Holds
    <3> QED
      BY <1>4, <2>0, <3>1
  <2>2. data[q] = Null[1]
    <3>1. data[Len(c) + 1] = Null[1]
      BY <1>4, <1>12 DEF Holds
    <3>2. Len(c) + 1 = q
      BY <2>0
    <3> QED
      BY <3>1, <3>2
  <2>3. SubSeq(data, k + 1, q - 1) = n
    <3>1. SubSeq(data, Len(b) + 1, Len(b) + Len(n)) = n
      BY <1>13 DEF Holds
    <3>2. Len(b) + Len(n) = q - 1
      BY <1>2, <1>3, <2>0 DEF q
    <3> HIDE DEF k
    <3> QED
      BY <2>0, <3>1, <3>2
  <2>4. ASSUME NEW j \in k + 1..q - 1 PROVE data[j].kind = "name"
    <3>1. j - k \in 1..ln /\ k + (j - k) = j
      <4>1. k + 1 <= j /\ j <= q - 1 /\ j \in Int /\ q = k + ln + 1
        BY <2>0 DEF q
      <4> HIDE DEF k
      <4> QED
        BY <1>2, <2>0, <4>1
    <3>2. data[k + (j - k)] = n[j - k]
      <4>1. \A i \in 1..Len(n) : data[Len(b) + i] = n[i]
        BY <1>13 DEF Holds
      <4> HIDE DEF k, ln
      <4> QED
        BY <1>3, <2>0, <3>1, <4>1
    <3> HIDE DEF k, ln
    <3> QED
      BY <1>3, <3>1, <3>2
  <2> QED
    BY <1>4, <2>1, <2>2, <2>3, <2>4
<1>19. q + DigestSize <= L /\ SubSeq(data, q + 1, q + DigestSize) = h
  <2>1. Len(d) = q /\ Len(h) = DigestSize
    BY <1>2, <1>3, <1>9, <1>16
  <2> HIDE DEF q
  <2> QED
    BY <1>11, <2>1 DEF Holds
<1>20. ModeEnd(data, o) = k
  <2>1. \A j \in o..k - 1 : data[j].kind # "space"
    BY <1>17
  <2>2. o \in Nat /\ k \in Nat /\ o <= k /\ k - o <= ModeBuf - 1
    BY <1>2, <1>16
  <2> HIDE DEF o, k
  <2> QED
    BY <1>2, <1>16, <1>17, <2>1, <2>2, StopAt DEF ModeEnd
<1>21. NameEnd(data, o) = q
  <2>1. \A j \in k + 1..q - 1 : data[j].kind # "null"
    BY <1>18
  <2>2. k + 1 \in Nat /\ q \in Nat /\ k + 1 <= q /\ q - (k + 1) <= NameBuf - 1
    BY <1>2, <1>16
  <2> HIDE DEF o, k, q
  <2>3. Stop(data, k + 1, "null", NameBuf) = q
    BY <1>2, <1>16, <1>18, <2>1, <2>2, StopAt
  <2> QED
    BY <1>20, <2>3 DEF NameEnd
<1>22. q \in Nat /\ o \in Nat /\ o >= 1 /\ o <= k /\ k < q /\ (q + DigestSize + 1) - 1 = q + DigestSize
  BY <1>2, <1>16
<1>23. After(data, o) = q + DigestSize + 1
  BY <1>21 DEF After
<1>24. Len(w) + 1 = q + DigestSize + 1
  BY <1>2, <1>10, <1>16
<1>25. IsEntry(data, o)
  <2> HIDE DEF o, k, q, L
  <2>1. After(data, o) <= L + 1
    BY <1>2, <1>16, <1>19, <1>22, <1>23
  <2> QED
    BY <1>17, <1>18, <1>20, <1>21, <2>1 DEF IsEntry, IsAt, L
<1>26. EntryAt(data, o) = Line(e)
  <2> HIDE DEF o, k, q
  <2>1. After(data, o) - 1 = q + DigestSize
    BY <1>22, <1>23
  <2> QED
    BY <1>17, <1>18, <1>19, <1>20, <1>21, <2>1 DEF EntryAt, Line, m, n, h
<1>27. o \in 1..L
  BY <1>16, <1>17
<1> HIDE DEF q, w
<1>28. After(data, o) = Len(w) + 1
  BY <1>23, <1>24
<1> QED
  BY <1>5, <1>25, <1>26, <1>27, <1>28 DEF Shows, lx

EntriesFit(S, s) ==
    /\ Len(s) \in Nat
    /\ \A i \in 1..Len(s) : FieldsIn(S, s[i]) /\ NameFits(s[i])

\* The lines from an entry on.
LinesFrom(s, i) == [j \in 1..Len(s) - i |-> Line(s[i + j])]

LEMMA LinesUnfold ==
    ASSUME NEW s, Len(s) \in Nat, NEW i \in 1..Len(s)
    PROVE  LinesFrom(s, i - 1) = <<Line(s[i])>> \o LinesFrom(s, i)
<1> DEFINE N == Len(s)
           Lines == {Line(s[j]) : j \in 1..N}
           one == <<Line(s[i])>>
           all == LinesFrom(s, i - 1)
           rest == LinesFrom(s, i)
<1>1. N \in Nat /\ i \in 1..N
  OBVIOUS
<1>2. /\ rest \in Seq(Lines) /\ Len(rest) = N - i
      /\ \A j \in 1..N - i : rest[j] = Line(s[i + j])
  <2>1. \A j \in 1..N - i : Line(s[i + j]) \in Lines
    <3>1. \A j \in 1..N - i : i + j \in 1..N
      BY <1>1
    <3> QED
      BY <3>1
  <2>2. N - i \in Nat
    BY <1>1
  <2> HIDE DEF Lines, N
  <2> QED
    BY <2>1, <2>2 DEF LinesFrom, N
<1>3. /\ all \in Seq(Lines) /\ Len(all) = N - i + 1
      /\ \A j \in 1..N - i + 1 : all[j] = Line(s[(i - 1) + j])
  <2>1. \A j \in 1..N - (i - 1) : Line(s[(i - 1) + j]) \in Lines
    <3>1. \A j \in 1..N - (i - 1) : (i - 1) + j \in 1..N
      BY <1>1
    <3> QED
      BY <3>1
  <2>2. N - (i - 1) \in Nat /\ N - (i - 1) = N - i + 1
    BY <1>1
  <2> HIDE DEF Lines, N
  <2> QED
    BY <2>1, <2>2 DEF LinesFrom, N
<1>4. one \in Seq(Lines) /\ Len(one) = 1 /\ one[1] = Line(s[i])
  OBVIOUS
<1> HIDE DEF N, Lines, one, all, rest
<1>5. /\ one \o rest \in Seq(Lines) /\ Len(one \o rest) = Len(one) + Len(rest)
      /\ \A j \in 1..Len(one) + Len(rest) :
            (one \o rest)[j] = IF j <= Len(one) THEN one[j] ELSE rest[j - Len(one)]
  BY <1>2, <1>4, ConcatProperties
<1> DEFINE both == one \o rest
<1>6. both \in Seq(Lines) /\ Len(both) = N - i + 1
  BY <1>1, <1>2, <1>4, <1>5
<1>7. ASSUME NEW j \in 1..N - i + 1 PROVE both[j] = all[j]
  <2>1. both[j] = IF j <= 1 THEN one[j] ELSE rest[j - 1]
    BY <1>1, <1>2, <1>4, <1>5
  <2> HIDE DEF both
  <2>2. all[j] = Line(s[(i - 1) + j])
    BY <1>3
  <2>3. CASE j = 1
    <3>1. (i - 1) + j = i
      BY <1>1, <2>3
    <3> QED
      BY <1>4, <2>1, <2>2, <2>3, <3>1
  <2>4. CASE j # 1
    <3>1. ~(j <= 1) /\ j - 1 \in 1..N - i /\ i + (j - 1) = (i - 1) + j
      BY <1>1, <2>4
    <3>2. rest[j - 1] = Line(s[i + (j - 1)])
      BY <1>2, <3>1
    <3> QED
      BY <2>1, <2>2, <3>1, <3>2
  <2> QED
    BY <2>3, <2>4
<1> HIDE DEF both
<1>8. both = all
  BY <1>3, <1>6, <1>7, SeqEqual
<1> QED
  BY <1>8 DEF both, one, all, rest

\* The parser's function at the place where an entry begins, and at the end.
LEMMA ParsedFrom ==
    ASSUME NEW S, NEW s, EntriesFit(S, s),
           NEW f, ParsesFrom(TreeBytes(s), 1, f)
    PROVE  \A i \in 0..Len(s) : f[Len(BytesUpTo(s)[i]) + 1] = LinesFrom(s, i)
<1> DEFINE N == Len(s)
           up == BytesUpTo(s)
           data == TreeBytes(s)
           At(i) == Len(up[i]) + 1
           Not == {k \in 0..N : f[At(N - k)] # LinesFrom(s, N - k)}
<1>1. /\ N \in Nat
      /\ \A i \in 1..N : EntryBytes(s[i]) \in Seq(S) /\ FieldsIn(S, s[i]) /\ NameFits(s[i])
  BY EntryBytesType DEF EntriesFit
<1>2. /\ data = up[N]
      /\ \A j \in 1..N : up[j] = up[j - 1] \o EntryBytes(s[j])
      /\ \A j \in 0..N : up[j] \in Seq(S)
  BY <1>1, BytesUpToIs DEF TreeBytes
<1>3. \A i \in 0..N : Begins(S, data, up[i])
  BY <1>1, PrefixesBegin
<1>4. data \in Seq(S) /\ Len(data) \in Nat
  <2>1. data \in Seq(S)
    BY <1>1, <1>2
  <2> QED
    BY <2>1, LenProperties
<1> HIDE DEF up, data
<1>5. ASSUME NEW i \in 1..N PROVE Shows(data, At(i - 1), s[i], At(i))
  <2> DEFINE x == up[i - 1]
  <2>1. i - 1 \in 0..N /\ i \in 0..N
    BY <1>1
  <2>2. x \in Seq(S) /\ Begins(S, data, x \o EntryBytes(s[i]))
    BY <1>2, <1>3, <2>1
  <2> HIDE DEF x
  <2>3. Shows(data, Len(x) + 1, s[i], Len(x \o EntryBytes(s[i])) + 1)
    BY <1>1, <2>2, ParseOne
  <2> QED
    BY <1>2, <2>3 DEF x
<1>6. \A o \in 1..Len(data) + 1 :
          f[o] = IF o > Len(data) THEN <<>>
                 ELSE IF ~IsEntry(data, o) THEN <<Malformed>>
                 ELSE <<EntryAt(data, o)>> \o f[After(data, o)]
  BY DEF ParsesFrom, data
<1>7. f[At(N)] = LinesFrom(s, N)
  <2>1. Len(data) + 1 \in 1..Len(data) + 1 /\ Len(data) + 1 > Len(data)
    BY <1>4
  <2>2. f[Len(data) + 1] = <<>>
    BY <1>6, <2>1
  <2>3. LinesFrom(s, N) = <<>>
    <3>1. 1..N - N = {}
      BY <1>1
    <3> QED
      BY <3>1 DEF LinesFrom
  <2> QED
    BY <1>2, <2>2, <2>3
<1>8. ASSUME NEW i \in 1..N PROVE f[At(i - 1)] = <<Line(s[i])>> \o f[At(i)]
  <2> DEFINE o == At(i - 1)
             p == At(i)
  <2>1. Shows(data, o, s[i], p)
    BY <1>5
  <2> HIDE DEF o, p
  <2>2. o \in 1..Len(data) + 1 /\ ~(o > Len(data)) /\ IsEntry(data, o)
        /\ EntryAt(data, o) = Line(s[i]) /\ After(data, o) = p
    BY <1>4, <2>1 DEF Shows
  <2>3. f[o] = <<Line(s[i])>> \o f[p]
    BY <1>6, <2>2
  <2> QED
    BY <2>3 DEF o, p
<1> HIDE DEF At
<1>9. ASSUME NEW k \in Not, \A j \in Not : k <= j PROVE FALSE
  <2>1. k # 0
    BY <1>1, <1>7
  <2>2. k - 1 \in 0..N /\ ~(k <= k - 1)
    BY <1>1, <2>1
  <2> DEFINE i == N - (k - 1)
  <2>3. f[At(i)] = LinesFrom(s, i)
    BY <1>9, <2>2
  <2>4. i \in 1..N /\ i - 1 = N - k
    BY <1>1, <2>1
  <2> HIDE DEF i
  <2>5. f[At(i - 1)] = LinesFrom(s, i - 1)
    BY <1>1, <1>8, <2>3, <2>4, LinesUnfold
  <2> QED
    BY <2>4, <2>5
<1>10. Not = {}
  <2>1. Not \in SUBSET Nat
    BY <1>1
  <2> HIDE DEF Not
  <2> QED
    BY <1>9, <2>1, LeastNatural
<1>11. ASSUME NEW i \in 0..N PROVE f[At(i)] = LinesFrom(s, i)
  <2>1. N - i \in 0..N /\ N - (N - i) = i
    BY <1>1
  <2> QED
    BY <1>10, <2>1
<1> QED
  BY <1>11 DEF At, up

\* What is put together is what is taken apart.
LEMMA ParsedTree ==
    ASSUME NEW S, NEW s, EntriesFit(S, s)
    PROVE  Parsed(TreeBytes(s)) = [i \in 1..Len(s) |-> Line(s[i])]
<1>1. /\ Len(s) \in Nat
      /\ \A i \in 1..Len(s) : EntryBytes(s[i]) \in Seq(S)
  BY EntryBytesType DEF EntriesFit
<1>2. /\ BytesUpTo(s)[0] = <<>>
      /\ \A i \in 0..Len(s) : BytesUpTo(s)[i] \in Seq(S)
  BY <1>1, BytesUpToIs
<1>3. Len(TreeBytes(s)) \in Nat
  <2>1. TreeBytes(s) \in Seq(S)
    BY <1>1, <1>2 DEF TreeBytes
  <2> QED
    BY <2>1, LenProperties
<1>4. PICK f : ParsesFrom(TreeBytes(s), 1, f) /\ Parsed(TreeBytes(s)) = f[1]
  BY <1>3, ParsedIs
<1>5. f[Len(BytesUpTo(s)[0]) + 1] = LinesFrom(s, 0)
  BY <1>1, <1>4, ParsedFrom
<1>6. Len(BytesUpTo(s)[0]) + 1 = 1
  BY <1>2
<1>7. LinesFrom(s, 0) = [i \in 1..Len(s) |-> Line(s[i])]
  BY <1>1 DEF LinesFrom
<1> QED
  BY <1>4, <1>5, <1>6, <1>7

LEMMA LineIsNoError ==
    ASSUME NEW e
    PROVE  Line(e) # Malformed
<1>1. DOMAIN Line(e) = {"mode", "name", "hash"}
  BY DEF Line
<1>2. DOMAIN Malformed = {"error"}
  BY DEF Malformed
<1> QED
  BY <1>1, <1>2

\* The bytes of the trees that name stored of O.
BytesOf(O) ==
    {[kind |-> "space"], [kind |-> "null"]}
    \cup {[kind |-> k, of |-> x, at |-> i] :
             k \in {"mode", "name", "hash"}, x \in ValidModes \cup Names \cup O, i \in Nat}

LEMMA EntryFits ==
    ASSUME NEW O, NEW e \in [mode : ValidModes, name : Names \cup {0}, obj : O],
           e.name \in Names
    PROVE  FieldsIn(BytesOf(O), e) /\ NameFits(e)
<1> DEFINE All == ValidModes \cup Names \cup O
<1>1. ASSUME NEW kind \in {"mode", "name", "hash"}, NEW of \in All, NEW size \in Nat
      PROVE  Field(kind, of, size) \in Seq(BytesOf(O))
  <2>1. \A i \in 1..size : [kind |-> kind, of |-> of, at |-> i] \in BytesOf(O)
    BY DEF BytesOf
  <2> QED
    BY <2>1 DEF Field
<1>2. e.mode \in All /\ e.name \in All /\ e.obj \in All
  OBVIOUS
<1>3. ModeLength \in Nat /\ DigestSize \in Nat /\ Length[e.name] \in Nat
      /\ Length[e.name] < NameBuf
  BY FormatAssumption, TreesAssumption DEF ModeLength
<1> HIDE DEF All
<1>4. ModeBytes(e) \in Seq(BytesOf(O))
  BY <1>1, <1>2, <1>3 DEF ModeBytes
<1>5. NameBytes(e) \in Seq(BytesOf(O))
  BY <1>1, <1>2, <1>3 DEF NameBytes
<1>6. HashBytes(e) \in Seq(BytesOf(O))
  BY <1>1, <1>2, <1>3 DEF HashBytes
<1>7. Space \in Seq(BytesOf(O)) /\ Null \in Seq(BytesOf(O))
  <2>1. [kind |-> "space"] \in BytesOf(O) /\ [kind |-> "null"] \in BytesOf(O)
    BY DEF BytesOf
  <2> HIDE DEF BytesOf
  <2> QED
    BY <2>1 DEF Space, Null
<1> QED
  BY <1>3, <1>4, <1>5, <1>6, <1>7 DEF FieldsIn, NameFits

\* Each tree that was stored is shown as it is: ls-tree and cat-file give every
\* entry, in its place, whatever the names' lengths and however many they are.
THEOREM TreesListed == Spec => []TreesAreListed
<1>1. ASSUME ShownInv PROVE TreesAreListed
  <2>1. SUFFICES ASSUME NEW t \in stored, t.type = "tree"
                 PROVE  /\ LsTree(t) = [i \in DOMAIN t.entries |-> Line(t.entries[i])]
                        /\ CatFile(t) = [i \in DOMAIN t.entries |->
                                            [mode |-> ModeBytes(t.entries[i]),
                                             hash |-> HashBytes(t.entries[i])]]
    BY DEF TreesAreListed, Trees, Line
  <2> DEFINE s == t.entries
             lines == [i \in DOMAIN s |-> Line(s[i])]
  <2>2. s \in Entries(stored) /\ TrueTree(seen, s)
    BY <1>1, <2>1 DEF ShownInv, TreeInv
  <2>3. Len(s) \in Nat /\ DOMAIN s = 1..Len(s)
    BY <2>2, LenProperties DEF Entries
  <2>4. EntriesFit(BytesOf(stored), s)
    <3>1. ASSUME NEW i \in 1..Len(s)
          PROVE  FieldsIn(BytesOf(stored), s[i]) /\ NameFits(s[i])
      <4>1. s[i] \in [mode : ValidModes, name : Names \cup {0}, obj : stored]
        BY <2>2, <2>3, ElementOfSeq DEF Entries
      <4>2. s[i].name \in Names
        BY <2>2, <2>3 DEF TrueTree, Shown
      <4> HIDE DEF s
      <4> QED
        BY <4>1, <4>2, EntryFits
    <3> QED
      BY <2>3, <3>1 DEF EntriesFit
  <2> HIDE DEF s
  <2>5. Parsed(TreeBytes(s)) = lines
    BY <2>3, <2>4, ParsedTree
  <2>6. \A i \in DOMAIN s : lines[i] # Malformed /\ lines[i] = Line(s[i])
    BY LineIsNoError
  <2>7. LsTree(t) = lines
    BY <2>1, <2>5 DEF LsTree, s
  <2>8. CatFile(t) = [i \in DOMAIN s |-> [mode |-> lines[i].mode, hash |-> lines[i].hash]]
    <3>1. CatFile(t) = [i \in DOMAIN lines |->
                           IF lines[i] = Malformed THEN Malformed
                           ELSE [mode |-> lines[i].mode, hash |-> lines[i].hash]]
      <4> HIDE DEF lines
      <4> QED
        BY <2>1, <2>5, Zenon DEF CatFile, s
    <3>2. DOMAIN lines = DOMAIN s
      OBVIOUS
    <3> HIDE DEF lines
    <3> QED
      BY <2>6, <3>1, <3>2
  <2>9. \A i \in DOMAIN s : lines[i].mode = ModeBytes(s[i]) /\ lines[i].hash = HashBytes(s[i])
    BY DEF Line
  <2> HIDE DEF lines
  <2>10. CatFile(t) = [i \in DOMAIN s |->
                          [mode |-> ModeBytes(s[i]), hash |-> HashBytes(s[i])]]
    BY <2>8, <2>9
  <2> QED
    BY <2>7, <2>10 DEF s, lines
<1> QED
  BY <1>1, ShownInvariant, PTL
=============================================================================
