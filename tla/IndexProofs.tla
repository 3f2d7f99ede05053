---------------------------- MODULE IndexProofs ----------------------------
(***************************************************************************)
(* Theorems about module Index for every value of its constants.            *)
(***************************************************************************)
EXTENDS Index, SequenceLemmas, TLAPS, SequenceTheorems

\* What a sort returns: the same entries, in order, with no path repeated
\* that was not repeated before.
LEMMA SortedFormFacts ==
    ASSUME NEW E, NEW s \in Seq(E), NEW t \in SortedForms(s)
    PROVE  /\ t \in Seq(E) /\ Len(t) = Len(s)
           /\ Sorted(t)
           /\ Range(t) = Range(s)
           /\ Distinct(s) => Distinct(t)
<1> PICK f \in Bijection(DOMAIN s, DOMAIN s) : t = [i \in DOMAIN s |-> s[f[i]]]
  BY DEF SortedForms, Rearranged
<1>1. /\ f \in [DOMAIN s -> DOMAIN s]
      /\ \A a, b \in DOMAIN s : f[a] = f[b] => a = b
      /\ \A b \in DOMAIN s : \E a \in DOMAIN s : f[a] = b
  BY BijectionFacts
<1>2. DOMAIN s = 1..Len(s) /\ Len(s) \in Nat
  OBVIOUS
<1>3. t \in Seq(E) /\ Len(t) = Len(s) /\ DOMAIN t = DOMAIN s
  <2>1. t \in [1..Len(s) -> E]
    BY <1>1, <1>2
  <2> QED
    BY <1>2, <2>1
<1>4. Sorted(t)
  BY DEF SortedForms
<1>5. Range(t) = Range(s)
  BY <1>1, <1>3 DEF Range
<1>6. Distinct(s) => Distinct(t)
  BY <1>1, <1>3 DEF Distinct
<1> QED
  BY <1>3, <1>4, <1>5, <1>6

\* What a write that was cut off can leave: never more entries than announced.
LEMMA TornImageFacts ==
    ASSUME NEW s \in Seq(Entry), NEW image \in TornImages(s)
    PROVE  /\ image \in FileType
           /\ Len(image.recs) <= image.count
<1>1. CASE image = Stub
  BY <1>1 DEF Stub, FileType
<1>2. CASE \E n \in 0..Len(s) : image = Image(Len(s), SubSeq(s, 1, n))
  <2> PICK n \in 0..Len(s) : image = Image(Len(s), SubSeq(s, 1, n))
    BY <1>2
  <2>1. SubSeq(s, 1, n) \in Seq(Entry) /\ Len(SubSeq(s, 1, n)) = n
    <3>1. \A i \in 1..n : s[i] \in Entry
      BY ElementOfSeq, LenProperties
    <3> QED
      BY <3>1, LenProperties
  <2> QED
    BY <2>1, LenProperties DEF Image, FileType
<1>3. CASE \E n \in 1..Len(s) : \E q \in Cut[s[n].path] :
             image = Image(Len(s), Append(SubSeq(s, 1, n - 1), CutEntry(s[n], q)))
  <2> PICK n \in 1..Len(s) : \E q \in Cut[s[n].path] :
             image = Image(Len(s), Append(SubSeq(s, 1, n - 1), CutEntry(s[n], q)))
    BY <1>3
  <2> PICK q \in Cut[s[n].path] :
             image = Image(Len(s), Append(SubSeq(s, 1, n - 1), CutEntry(s[n], q)))
    OBVIOUS
  <2>1. Len(s) \in Nat /\ \A i \in 1..Len(s) : s[i] \in Entry
    BY ElementOfSeq, LenProperties
  <2>2. SubSeq(s, 1, n - 1) \in Seq(Entry) /\ Len(SubSeq(s, 1, n - 1)) = n - 1
    BY <2>1
  <2>3. CutEntry(s[n], q) \in Entry
    BY <2>1, PathsAssumption DEF CutEntry, Entry
  <2> DEFINE recs == Append(SubSeq(s, 1, n - 1), CutEntry(s[n], q))
  <2>4. recs \in Seq(Entry) /\ Len(recs) = n
    BY <2>2, <2>3, AppendProperties
  <2> HIDE DEF recs
  <2> QED
    BY <2>1, <2>4 DEF recs, Image, FileType
<1> QED
  BY <1>1, <1>2, <1>3 DEF TornImages

LEMMA TreeOfType ==
    ASSUME NEW s \in Seq(Entry)
    PROVE  TreeOf(s) \in Seq(Entry)
<1>1. Len(s) \in Nat /\ DOMAIN s = 1..Len(s) /\ \A i \in 1..Len(s) : s[i] \in Entry
  BY ElementOfSeq, LenProperties
<1>2. TreeOf(s) \in [1..Len(s) -> Entry]
  BY <1>1 DEF TreeOf, TreeMode, Entry, ModeNames
<1> QED
  BY <1>1, <1>2

-----------------------------------------------------------------------------
(* Types                                                                   *)

LEMMA LoadTypeFacts ==
    /\ Idle \in LoadType
    /\ \A l \in LoadType, s \in Seq(Entry) :
         /\ [l EXCEPT !.left = s] \in LoadType
         /\ [l EXCEPT !.left = s].kind = l.kind
         /\ [l EXCEPT !.left = s].left = s
         /\ [l EXCEPT !.left = s].missing = l.missing
    /\ \A s \in Seq(Entry), b \in BOOLEAN :
         /\ [kind |-> "file", left |-> s, missing |-> b] \in LoadType
         /\ [kind |-> "tree", left |-> s, missing |-> b] \in LoadType
  BY EmptySeq DEF Idle, LoadType

LEMMA AddEntryType ==
    ASSUME TypeOK, NEW e \in Entry, AddEntry(e)
    PROVE  /\ open' \in BOOLEAN /\ dirty' \in BOOLEAN
           /\ entries' \in Seq(Entry) /\ capacity' \in Nat
           /\ ret' \in {"OK", "INVALID", "OVERFLOW", "NOMEM"}
<1>1. CappedCapacity \in Nat
  BY CapacityAssumption DEF CappedCapacity, TypeOK
<1>2. CASE Update(e)
  <2> PICK i \in FoundAt(entries, e.path) :
        entries' = [entries EXCEPT ![i] = [@ EXCEPT !.sha1 = e.sha1,
                                                    !.mode = e.mode]]
    BY <1>2 DEF Update
  <2>1. i \in 1..Len(entries) /\ entries[i] \in Entry /\ entries \in Seq(Entry)
    BY LenProperties, ElementOfSeq DEF FoundAt, TypeOK
  <2>2. [entries[i] EXCEPT !.sha1 = e.sha1, !.mode = e.mode] \in Entry
    BY <2>1 DEF Entry
  <2>3. entries' \in Seq(Entry)
    BY <2>1, <2>2, ExceptSeq
  <2> QED
    BY <1>2, <2>3 DEF Update, TypeOK
<1>3. CASE Insert(e)
  BY <1>1, <1>3, AppendProperties DEF Insert, TypeOK
<1>4. CASE AddFails(e)
  BY <1>1, <1>4 DEF AddFails, Refused, Full, InsertNoMemory, handle, TypeOK
<1> QED
  BY <1>2, <1>3, <1>4 DEF AddEntry

LEMMA NoHandleType ==
    ASSUME DropHandle
    PROVE  /\ open' \in BOOLEAN /\ dirty' \in BOOLEAN
           /\ entries' \in Seq(Entry) /\ capacity' \in Nat
  BY EmptySeq DEF DropHandle

LEMMA InitType == Init => TypeOK
<1>1. <<>> \in Seq(Entry)
  BY EmptySeq
<1>2. Absent \in FileType
  BY <1>1 DEF Absent, FileType
<1>3. Idle \in LoadType
  BY LoadTypeFacts
<1>4. ForeignTrees \subseteq Seq(Entry)
  BY TreesAssumption
<1>5. SUFFICES ASSUME Init PROVE TypeOK
  OBVIOUS
<1>6. file \in FileType /\ trees \in SUBSET Seq(Entry)
  BY <1>2, <1>4, <1>5 DEF Init
<1>7. load \in LoadType
  BY <1>3, <1>5 DEF Init
<1>8. /\ open \in BOOLEAN /\ dirty \in BOOLEAN
      /\ entries \in Seq(Entry) /\ capacity \in Nat /\ intent \in Seq(Entry)
      /\ ret = "OK"
  BY <1>1, <1>5 DEF Init
<1> QED
  BY <1>6, <1>7, <1>8 DEF TypeOK

LEMMA StepType == TypeOK /\ [Next]_vars => TypeOK'
<1> SUFFICES ASSUME TypeOK, [Next]_vars PROVE TypeOK'
  OBVIOUS
<1> USE DEF handle
<1>1. CASE UNCHANGED vars
  BY <1>1 DEF vars, TypeOK
<1>2. CASE New
  BY <1>2, EmptySeq, CapacityAssumption DEF New, TypeOK
<1>3. CASE Free
  <2>1. UNCHANGED <<file, trees, load, ret, intent>> /\ DropHandle
    BY <1>3 DEF Free
  <2> QED
    BY <2>1, NoHandleType DEF TypeOK
<1>4. CASE Clear
  BY <1>4, EmptySeq DEF Clear, TypeOK
<1>5. ASSUME NEW p \in Paths, NEW sha \in Shas, NEW mode \in Modes,
             Add(p, sha, mode)
      PROVE  TypeOK'
  <2> DEFINE e == [path |-> p, sha1 |-> sha, mode |-> mode]
  <2>1. e \in Entry
    BY ModesAssumption DEF Entry
  <2>2. AddEntry(e) /\ UNCHANGED <<file, trees, load, intent>>
    BY <1>5 DEF Add
  <2> HIDE DEF e
  <2> QED
    BY <2>1, <2>2, AddEntryType DEF TypeOK
<1>6. ASSUME NEW p \in Paths, RemovePath(p)
      PROVE  TypeOK'
  <2>1. CASE \E i \in FoundAt(entries, p) : entries' = RemoveAt(entries, i)
    <3>1. entries' \in Seq(Entry)
      BY <2>1, RemoveAtFacts DEF FoundAt, TypeOK
    <3> QED
      BY <1>6, <3>1 DEF RemovePath, TypeOK
  <2>2. CASE UNCHANGED <<entries, dirty>>
    BY <1>6, <2>2 DEF RemovePath, TypeOK
  <2> QED
    BY <1>6, <2>1, <2>2 DEF RemovePath
<1>7. CASE ReadNothing
  BY <1>7 DEF ReadNothing, TypeOK
<1>8. CASE BeginRead
  <2>1. file.recs \in Seq(Entry) /\ (Len(file.recs) < file.count) \in BOOLEAN
    BY DEF TypeOK, FileType
  <2>2. load' \in LoadType
    BY <1>8, <2>1, LoadTypeFacts DEF BeginRead
  <2> QED
    BY <1>8, <2>2, EmptySeq DEF BeginRead, TypeOK
<1>9. CASE ReadEntry
  <2>1. Head(load.left) \in Entry /\ Tail(load.left) \in Seq(Entry)
    BY <1>9, HeadTailProperties DEF ReadEntry, TypeOK, LoadType
  <2>2. entries' \in Seq(Entry)
    BY <1>9, <2>1, AppendProperties DEF ReadEntry, TypeOK
  <2>3. capacity' \in Nat
    BY <1>9 DEF ReadEntry, DoubledCapacity, TypeOK
  <2>4. load' = [load EXCEPT !.left = Tail(load.left)]
    BY <1>9 DEF ReadEntry
  <2>5. load' \in LoadType
    BY <2>1, <2>4, LoadTypeFacts DEF TypeOK
  <2> QED
    BY <1>9, <2>2, <2>3, <2>5 DEF ReadEntry, TypeOK
<1>10. CASE ReadEntryNoMemory
  BY <1>10, LoadTypeFacts DEF ReadEntryNoMemory, TypeOK
<1>11. CASE EndRead
  BY <1>11, LoadTypeFacts DEF EndRead, TypeOK
<1>12. CASE WriteNotOpened
  BY <1>12 DEF WriteNotOpened, TypeOK
<1>13. CASE Write
  <2> PICK s \in SortedForms(entries) :
        /\ intent' = s
        /\ \/ /\ file' = Image(Len(s), s)
              /\ entries' = s /\ dirty' = FALSE /\ ret' = "OK"
              /\ UNCHANGED <<open, capacity>>
           \/ /\ file' \in TornImages(s)
              /\ entries' = s /\ ret' = "ERROR"
              /\ UNCHANGED <<open, capacity, dirty>>
           \/ /\ file' \in TornImages(s)
              /\ entries' = s /\ dirty' = FALSE /\ ret' = "OK"
              /\ UNCHANGED <<open, capacity>>
           \/ /\ file' \in TornImages(s)
              /\ DropHandle
              /\ UNCHANGED ret
    BY <1>13 DEF Write
  <2>1. s \in Seq(Entry)
    BY SortedFormFacts DEF TypeOK
  <2>2. Image(Len(s), s) \in FileType
    BY <2>1, LenProperties DEF Image, FileType
  <2>3. file' \in FileType
    BY <2>1, <2>2, TornImageFacts
  <2>4. UNCHANGED <<trees, load>>
    BY <1>13 DEF Write
  <2>5. CASE entries' = s /\ UNCHANGED <<open, capacity>>
             /\ dirty' \in {FALSE, dirty} /\ ret' \in {"OK", "ERROR"}
    BY <2>1, <2>3, <2>4, <2>5 DEF TypeOK
  <2>6. CASE DropHandle /\ UNCHANGED ret
    BY <2>1, <2>3, <2>4, <2>6, NoHandleType DEF TypeOK
  <2> QED
    BY <2>5, <2>6
<1>14. CASE WriteTreeEmpty
  BY <1>14 DEF WriteTreeEmpty, TypeOK
<1>15. CASE WriteTree
  <2> PICK s \in SortedForms(entries) :
        /\ entries' = s
        /\ trees' \in {trees, trees \cup {TreeOf(s)}}
        /\ ret' \in {"OK", "ERROR", "NOMEM"}
    BY <1>15 DEF WriteTree
  <2>1. s \in Seq(Entry) /\ TreeOf(s) \in Seq(Entry)
    BY SortedFormFacts, TreeOfType DEF TypeOK
  <2> QED
    BY <1>15, <2>1 DEF WriteTree, TypeOK
<1>16. CASE BeginReadTree
  <2>1. \A t \in trees : [kind |-> "tree", left |-> t, missing |-> FALSE]
            \in LoadType
    BY LoadTypeFacts DEF TypeOK
  <2>2. load' \in LoadType
    BY <1>16, <2>1 DEF BeginReadTree, TypeOK
  <2> QED
    BY <1>16, <2>2, EmptySeq DEF BeginReadTree, TypeOK
<1>17. CASE ReadTreeEntry
  <2> DEFINE e == Head(load.left)
  <2>1. e \in Entry /\ Tail(load.left) \in Seq(Entry)
    BY <1>17, HeadTailProperties DEF ReadTreeEntry, TypeOK, LoadType
  <2>2. load' = [load EXCEPT !.left = Tail(load.left)] \/ load' = Idle
    BY <1>17, Zenon DEF ReadTreeEntry
  <2>3. load' \in LoadType
    <3>1. [load EXCEPT !.left = Tail(load.left)] \in LoadType
      BY <2>1 DEF TypeOK, LoadType
    <3>2. Idle \in LoadType
      BY LoadTypeFacts
    <3> QED
      BY <2>2, <3>1, <3>2
  <2>4. UNCHANGED <<handle, ret>> \/ AddEntry(e)
    <3>1. \/ UNCHANGED <<handle, ret>>
          \/ Update(e) \/ Insert(e) \/ AddFails(e)
      BY <1>17, Zenon DEF ReadTreeEntry
    <3> QED
      BY <3>1 DEF AddEntry
  <2>5. UNCHANGED <<file, trees, intent>>
    BY <1>17 DEF ReadTreeEntry
  <2> HIDE DEF e
  <2>6. CASE UNCHANGED <<handle, ret>>
    BY <2>3, <2>5, <2>6 DEF TypeOK
  <2>7. CASE AddEntry(e)
    BY <2>1, <2>3, <2>5, <2>7, AddEntryType DEF TypeOK
  <2> QED
    BY <2>4, <2>6, <2>7
<1>18. CASE EndReadTree
  BY <1>18, LoadTypeFacts DEF EndReadTree, TypeOK
<1> QED
  BY <1>1, <1>2, <1>3, <1>4, <1>5, <1>6, <1>7, <1>8, <1>9, <1>10, <1>11,
     <1>12, <1>13, <1>14, <1>15, <1>16, <1>17, <1>18 DEF Next

\* The type invariant holds whatever the environment does.
THEOREM TypeCorrect == Spec => []TypeOK
  BY InitType, StepType, PTL DEF Spec

-----------------------------------------------------------------------------
(* The bound on the array, and what a read that succeeds has loaded, under  *)
(* every fault.                                                             *)

GrowthInv ==
    /\ TypeOK
    /\ ReadInProgress
    /\ CapacityBound
    /\ open => capacity >= 1

LEMMA CappedCapacityFacts ==
    ASSUME GrowthInv, open
    PROVE  /\ CappedCapacity \in Nat /\ CappedCapacity >= 1
           /\ CappedCapacity < 2 * MaxTreeEntries
           /\ Len(entries) < CappedCapacity => Len(entries) + 1 <= CappedCapacity
<1>1. capacity \in Nat /\ capacity >= 1 /\ capacity < 2 * MaxTreeEntries
  BY DEF GrowthInv, CapacityBound, TypeOK
<1>2. MaxTreeEntries \in Nat /\ MaxTreeEntries >= 1
  BY CapacityAssumption
<1>3. Len(entries) \in Nat
  BY LenProperties DEF GrowthInv, TypeOK
<1> QED
  BY <1>1, <1>2, <1>3 DEF CappedCapacity

\* git_index_add keeps the array within its allocation.
LEMMA AddEntryBound ==
    ASSUME GrowthInv, open, NEW e \in Entry, AddEntry(e)
    PROVE  /\ open' = open
           /\ Len(entries') <= capacity'
           /\ capacity' < 2 * MaxTreeEntries /\ capacity' >= 1
<1>1. /\ capacity \in Nat /\ capacity >= 1 /\ capacity < 2 * MaxTreeEntries
      /\ Len(entries) <= capacity /\ entries \in Seq(Entry)
      /\ Len(entries) \in Nat
  BY LenProperties DEF GrowthInv, CapacityBound, TypeOK
<1>2. CASE Update(e)
  <2>1. Len(entries') = Len(entries)
    BY <1>1, <1>2 DEF Update
  <2> QED
    BY <1>1, <1>2, <2>1 DEF Update
<1>3. CASE Insert(e)
  <2>1. Len(entries') = Len(entries) + 1
    BY <1>1, <1>3, AppendProperties DEF Insert
  <2> QED
    BY <1>3, <2>1, CappedCapacityFacts DEF Insert
<1>4. CASE AddFails(e)
  <2>1. UNCHANGED handle \/ InsertNoMemory(e.path)
    BY <1>4 DEF AddFails, Refused, Full
  <2>2. CASE UNCHANGED handle
    BY <1>1, <2>2 DEF handle
  <2>3. CASE InsertNoMemory(e.path)
    BY <1>1, <2>3, CappedCapacityFacts DEF InsertNoMemory
  <2> QED
    BY <2>1, <2>2, <2>3
<1> QED
  BY <1>2, <1>3, <1>4 DEF AddEntry

LEMMA InitGrowth == Init => GrowthInv
<1> SUFFICES ASSUME Init PROVE GrowthInv
  OBVIOUS
<1>1. TypeOK
  BY InitType
<1>2. Len(file.recs) <= file.count /\ load.kind = "idle" /\ open = FALSE
  BY DEF Init, Absent, Idle
<1> QED
  BY <1>1, <1>2 DEF GrowthInv, ReadInProgress, CapacityBound

\* A step that leaves no read under way and does not touch the file only has
\* to answer for the array.
LEMMA QuietStep ==
    ASSUME GrowthInv, TypeOK', UNCHANGED file,
           load'.kind # "file", load'.kind # "idle" => open',
           open' => /\ Len(entries') <= capacity'
                    /\ capacity' < 2 * MaxTreeEntries /\ capacity' >= 1
    PROVE  GrowthInv'
  BY DEF GrowthInv, ReadInProgress, CapacityBound

LEMMA StepGrowth == GrowthInv /\ [Next]_vars => GrowthInv'
<1> SUFFICES ASSUME GrowthInv, [Next]_vars PROVE GrowthInv'
  OBVIOUS
<1>t. TypeOK /\ TypeOK'
  BY StepType DEF GrowthInv
<1>b. open => /\ Len(entries) <= capacity
              /\ capacity < 2 * MaxTreeEntries /\ capacity >= 1
  BY DEF GrowthInv, CapacityBound
<1>n. MaxTreeEntries \in Nat /\ MaxTreeEntries >= 1
  BY CapacityAssumption
<1>i. Idle.kind = "idle"
  BY DEF Idle
<1>l. Len(<<>>) = 0
  OBVIOUS
<1> USE DEF handle
<1>1. CASE UNCHANGED vars
  BY <1>1 DEF vars, GrowthInv, TypeOK, ReadInProgress, CapacityBound
<1>2. CASE New
  <2>1. /\ UNCHANGED file /\ load'.kind = load.kind
        /\ load.kind = "idle"
    BY <1>2, <1>t DEF New, GrowthInv, ReadInProgress
  <2>2. open' => /\ Len(entries') <= capacity'
                 /\ capacity' < 2 * MaxTreeEntries /\ capacity' >= 1
    <3>1. CASE open' = TRUE /\ entries' = <<>> /\ capacity' = InitialCapacity
      BY <1>n, <1>l, <3>1, CapacityAssumption
    <3>2. CASE UNCHANGED handle
      BY <1>b, <3>2
    <3> QED
      BY <1>2, <3>1, <3>2 DEF New
  <2> QED
    BY <1>t, <2>1, <2>2, QuietStep
<1>3. CASE Free
  BY <1>3, <1>t, <1>i, QuietStep DEF Free, Ready, DropHandle
<1>4. CASE Clear
  BY <1>4, <1>t, <1>i, <1>b, <1>l, QuietStep DEF Clear, Ready, TypeOK
<1>5. ASSUME NEW p \in Paths, NEW sha \in Shas, NEW mode \in Modes,
             Add(p, sha, mode)
      PROVE  GrowthInv'
  <2> DEFINE e == [path |-> p, sha1 |-> sha, mode |-> mode]
  <2>1. e \in Entry
    BY ModesAssumption DEF Entry
  <2>2. AddEntry(e) /\ UNCHANGED <<file, load>> /\ open /\ load.kind = "idle"
    BY <1>5, <1>i DEF Add, Ready
  <2> HIDE DEF e
  <2> QED
    BY <1>t, <2>1, <2>2, AddEntryBound, QuietStep
<1>6. ASSUME NEW p \in Paths, RemovePath(p)
      PROVE  GrowthInv'
  <2>1. /\ UNCHANGED <<file, load, open, capacity>> /\ open
        /\ load.kind = "idle"
    BY <1>6, <1>i DEF RemovePath, Ready
  <2>2. Len(entries') <= Len(entries)
    <3>1. CASE \E i \in FoundAt(entries, p) : entries' = RemoveAt(entries, i)
      <4>1. entries \in Seq(Entry) /\ Len(entries) \in Nat
        BY <1>t, LenProperties DEF TypeOK
      <4>2. Len(entries') = Len(entries) - 1
        BY <3>1, <4>1, RemoveAtFacts DEF FoundAt
      <4> QED
        BY <4>1, <4>2
    <3>2. CASE UNCHANGED entries
      BY <1>t, <3>2, LenProperties DEF TypeOK
    <3> QED
      BY <1>6, <3>1, <3>2 DEF RemovePath
  <2>3. Len(entries) \in Nat /\ Len(entries') \in Nat /\ capacity \in Nat
    BY <1>t, LenProperties DEF TypeOK
  <2>4. Len(entries') <= capacity'
    BY <1>b, <2>1, <2>2, <2>3
  <2> QED
    BY <1>t, <1>b, <2>1, <2>4, QuietStep
<1>7. CASE ReadNothing
  BY <1>7, <1>t, <1>b, <1>i, QuietStep DEF ReadNothing, Ready
<1>8. CASE BeginRead
  <2>1. /\ UNCHANGED <<file, open, capacity>> /\ open /\ entries' = <<>>
        /\ file.count <= MaxTreeEntries
        /\ load'.kind = "file" /\ load'.left = file.recs
        /\ load'.missing = (Len(file.recs) < file.count)
    BY <1>8 DEF BeginRead, Ready
  <2>2. <<>> \o file.recs = file.recs
    BY <1>t, ConcatEmptySeq DEF TypeOK, FileType
  <2>3. ReadInProgress'
    BY <2>1, <2>2 DEF ReadInProgress, GrowthInv
  <2>4. CapacityBound' /\ (open' => capacity' >= 1)
    BY <1>t, <1>b, <1>l, <2>1 DEF CapacityBound, TypeOK
  <2> QED
    BY <1>t, <2>3, <2>4 DEF GrowthInv
<1>9. CASE ReadEntry
  <2>1. /\ load.kind = "file" /\ load.left # <<>> /\ open
        /\ UNCHANGED <<file, open>>
        /\ entries \in Seq(Entry) /\ load.left \in Seq(Entry)
        /\ entries' = Append(entries, Head(load.left))
        /\ capacity' = DoubledCapacity
    BY <1>9, <1>t DEF ReadEntry, GrowthInv, ReadInProgress, TypeOK, LoadType
  <2>2. /\ load' = [load EXCEPT !.left = Tail(load.left)]
        /\ Tail(load.left) \in Seq(Entry)
    BY <1>9, <2>1, HeadTailProperties DEF ReadEntry
  <2>3. /\ load'.kind = "file" /\ load'.missing = load.missing
        /\ load'.left = Tail(load.left)
    BY <1>t, <2>1, <2>2, LoadTypeFacts DEF TypeOK
  <2>4. entries' \o load'.left = file.recs
    BY <2>1, <2>3, AppendHead DEF GrowthInv, ReadInProgress
  <2>5. ReadInProgress'
    BY <2>1, <2>3, <2>4 DEF ReadInProgress, GrowthInv
  <2>6. Len(entries) < MaxTreeEntries
    <3>1. /\ Len(entries) \in Nat /\ Len(load.left) \in Nat \ {0}
          /\ Len(entries \o load.left) = Len(entries) + Len(load.left)
      BY <2>1, LenProperties, EmptySeq, ConcatProperties
    <3>2. /\ Len(file.recs) <= MaxTreeEntries
          /\ entries \o load.left = file.recs
      <4>1. /\ Len(file.recs) <= file.count /\ file.count <= MaxTreeEntries
            /\ entries \o load.left = file.recs
        BY <2>1 DEF GrowthInv, ReadInProgress
      <4>2. file.count \in Nat /\ Len(file.recs) \in Nat
        BY <1>t, LenProperties DEF TypeOK, FileType
      <4> QED
        BY <1>n, <4>1, <4>2
    <3> QED
      BY <1>n, <3>1, <3>2
  <2>7. Len(entries') = Len(entries) + 1 /\ Len(entries) \in Nat
    BY <2>1, HeadTailProperties, AppendProperties, LenProperties
  <2>8. CapacityBound' /\ (open' => capacity' >= 1)
    <3>1. capacity \in Nat
      BY <1>t DEF TypeOK
    <3> QED
      BY <1>n, <1>b, <2>1, <2>6, <2>7, <3>1 DEF DoubledCapacity, CapacityBound
  <2> QED
    BY <1>t, <2>5, <2>8 DEF GrowthInv
<1>10. CASE ReadEntryNoMemory
  BY <1>10, <1>t, <1>b, <1>i, QuietStep DEF ReadEntryNoMemory
<1>11. CASE EndRead
  BY <1>11, <1>t, <1>b, <1>i, QuietStep DEF EndRead
<1>12. CASE WriteNotOpened
  BY <1>12, <1>t, <1>b, <1>i, QuietStep DEF WriteNotOpened, Ready
<1>13. CASE Write
  <2> PICK s \in SortedForms(entries) :
        /\ file' \in TornImages(s) \cup {Image(Len(s), s)}
        /\ (entries' = s /\ UNCHANGED <<open, capacity>>) \/ DropHandle
    BY <1>13 DEF Write
  <2>1. s \in Seq(Entry) /\ Len(s) = Len(entries) /\ Len(s) \in Nat
    BY <1>t, SortedFormFacts, LenProperties DEF TypeOK
  <2>2. Len(file'.recs) <= file'.count
    <3>1. CASE file' \in TornImages(s)
      BY <2>1, <3>1, TornImageFacts
    <3>2. CASE file' = Image(Len(s), s)
      BY <2>1, <3>2 DEF Image
    <3> QED
      BY <3>1, <3>2
  <2>3. load.kind = "idle" /\ UNCHANGED load
    BY <1>13, <1>i DEF Write, Ready
  <2>4. ReadInProgress'
    BY <2>2, <2>3 DEF ReadInProgress
  <2>5. CapacityBound' /\ (open' => capacity' >= 1)
    BY <1>b, <2>1 DEF CapacityBound, DropHandle
  <2> QED
    BY <1>t, <2>4, <2>5 DEF GrowthInv
<1>14. CASE WriteTreeEmpty
  BY <1>14, <1>t, <1>b, <1>i, QuietStep DEF WriteTreeEmpty, Ready
<1>15. CASE WriteTree
  <2>1. /\ entries' \in SortedForms(entries)
        /\ UNCHANGED <<open, capacity, file, load>> /\ open
        /\ load.kind = "idle"
    BY <1>15, <1>i DEF WriteTree, Ready
  <2>2. Len(entries') = Len(entries)
    BY <1>t, <2>1, SortedFormFacts DEF TypeOK
  <2> QED
    BY <1>t, <1>b, <2>1, <2>2, QuietStep
<1>16. CASE BeginReadTree
  <2>1. /\ UNCHANGED <<file, open, capacity>> /\ open
        /\ load'.kind \in {"idle", "tree"}
        /\ entries' \in {entries, <<>>}
    <3>1. open /\ load = Idle /\ UNCHANGED file
      BY <1>16 DEF BeginReadTree, Ready
    <3>2. CASE /\ entries' = <<>> /\ UNCHANGED <<open, capacity>>
               /\ \E t \in trees :
                    load' = [kind |-> "tree", left |-> t, missing |-> FALSE]
      BY <3>1, <3>2
    <3>3. CASE UNCHANGED <<handle, load>>
      BY <1>i, <3>1, <3>3
    <3> QED
      BY <1>16, <3>2, <3>3 DEF BeginReadTree
  <2>2. Len(entries') <= capacity'
    BY <1>t, <1>b, <1>l, <2>1 DEF TypeOK
  <2> QED
    BY <1>t, <1>b, <2>1, <2>2, QuietStep
<1>17. CASE ReadTreeEntry
  <2> DEFINE e == Head(load.left)
  <2>1. open /\ e \in Entry /\ load.kind = "tree"
    BY <1>17, <1>t, HeadTailProperties
    DEF ReadTreeEntry, TypeOK, LoadType, GrowthInv, ReadInProgress
  <2>2. load' = [load EXCEPT !.left = Tail(load.left)] \/ load' = Idle
    BY <1>17, Zenon DEF ReadTreeEntry
  <2>3. load'.kind \in {"tree", "idle"}
    BY <1>t, <1>i, <2>1, <2>2 DEF TypeOK, LoadType
  <2>4. UNCHANGED <<handle, ret>> \/ AddEntry(e)
    <3>1. \/ UNCHANGED <<handle, ret>>
          \/ Update(e) \/ Insert(e) \/ AddFails(e)
      BY <1>17, Zenon DEF ReadTreeEntry
    <3> QED
      BY <3>1 DEF AddEntry
  <2>5. UNCHANGED file
    BY <1>17 DEF ReadTreeEntry
  <2> HIDE DEF e
  <2>6. CASE UNCHANGED <<handle, ret>>
    BY <1>t, <1>b, <2>1, <2>3, <2>5, <2>6, QuietStep
  <2>7. CASE AddEntry(e)
    BY <1>t, <2>1, <2>3, <2>5, <2>7, AddEntryBound, QuietStep
  <2> QED
    BY <2>4, <2>6, <2>7
<1>18. CASE EndReadTree
  BY <1>18, <1>t, <1>b, <1>i, QuietStep DEF EndReadTree
<1> QED
  BY <1>1, <1>2, <1>3, <1>4, <1>5, <1>6, <1>7, <1>8, <1>9, <1>10, <1>11,
     <1>12, <1>13, <1>14, <1>15, <1>16, <1>17, <1>18 DEF Next

\* No call stores past the end of the array, and the array stays under twice
\* the limit on entries, under every fault.
THEOREM ArrayBounded == Spec => []CapacityBound
<1>1. GrowthInv => CapacityBound
  BY DEF GrowthInv
<1> QED
  BY <1>1, InitGrowth, StepGrowth, PTL DEF Spec

\* In the middle of a read of the index file, what has been loaded and what is
\* left are together the file, under every fault.
THEOREM NothingSkipped == Spec => []ReadInProgress
<1>1. GrowthInv => ReadInProgress
  BY DEF GrowthInv
<1> QED
  BY <1>1, InitGrowth, StepGrowth, PTL DEF Spec

\* A read that reports success has loaded exactly what the file announces,
\* under every fault.
THEOREM ReadsAreExact == Spec => ReadIsExact
<1>1. ASSUME GrowthInv, [Next]_vars,
             load.kind = "file", load' = Idle, ret' = "OK"
      PROVE  entries' = file.recs /\ Len(entries') = file.count
  <2>1. load # Idle /\ load.kind # "tree" /\ load' # load /\ open
    BY <1>1 DEF Idle, GrowthInv, ReadInProgress
  <2>2. ReadEntry \/ ReadEntryNoMemory \/ EndRead
    BY <1>1, <2>1
    DEF Next, vars, Ready, New, Free, Clear, Add, RemovePath, ReadNothing,
        BeginRead, WriteNotOpened, Write, WriteTreeEmpty, WriteTree,
        BeginReadTree, ReadTreeEntry, EndReadTree
  <2>3. ~ReadEntry
    <3>1. load.left \in Seq(Entry) /\ load \in LoadType
      BY <1>1 DEF GrowthInv, TypeOK, LoadType
    <3>2. ASSUME ReadEntry PROVE load'.kind = "file"
      <4>1. load' = [load EXCEPT !.left = Tail(load.left)]
        BY <3>2 DEF ReadEntry
      <4> QED
        BY <1>1, <3>1, <4>1 DEF LoadType
    <3> QED
      BY <1>1, <3>2 DEF Idle
  <2>4. EndRead
    BY <1>1, <2>2, <2>3 DEF ReadEntryNoMemory
  <2>5. load.left = <<>> /\ ~load.missing /\ entries' = entries
    BY <1>1, <2>4 DEF EndRead, handle
  <2>6. entries \o <<>> = entries
    BY <1>1, ConcatEmptySeq DEF GrowthInv, TypeOK
  <2>7. entries' = file.recs /\ ~(Len(file.recs) < file.count)
    BY <1>1, <2>5, <2>6 DEF GrowthInv, ReadInProgress
  <2>8. Len(file.recs) <= file.count /\ Len(file.recs) \in Nat
        /\ file.count \in Nat
    BY <1>1, LenProperties DEF GrowthInv, ReadInProgress, TypeOK, FileType
  <2> QED
    BY <2>7, <2>8
<1>2. GrowthInv /\ [Next]_vars
        => [load.kind = "file" /\ load' = Idle /\ ret' = "OK"
              => entries' = file.recs /\ Len(entries') = file.count]_vars
  BY <1>1
<1> QED
  BY <1>2, InitGrowth, StepGrowth, PTL DEF Spec, ReadIsExact

-----------------------------------------------------------------------------
(* What a torn file can get past a reader                                  *)

\* What DamageIsConfined says of one file and the entries it was made of.
Confined(image, s) ==
    image.kind = "index" /\ Len(image.recs) = image.count =>
        /\ image.count = Len(s)
        /\ \A i \in DOMAIN s :
            /\ i < Len(s) => image.recs[i] = s[i]
            /\ image.recs[i].sha1 = s[i].sha1
            /\ image.recs[i].path \in {s[i].path} \cup Cut[s[i].path]

LEMMA TornIsConfined ==
    ASSUME NEW s \in Seq(Entry), NEW image \in TornImages(s) \cup {Image(Len(s), s)}
    PROVE  Confined(image, s)
<1>0. Len(s) \in Nat /\ DOMAIN s = 1..Len(s) /\ \A i \in 1..Len(s) : s[i] \in Entry
  BY ElementOfSeq, LenProperties
<1>1. CASE image = Image(Len(s), s)
  BY <1>0, <1>1 DEF Image, Confined
<1>2. CASE image = Stub
  BY <1>2 DEF Stub, Confined
<1>3. CASE \E n \in 0..Len(s) : image = Image(Len(s), SubSeq(s, 1, n))
  <2> PICK n \in 0..Len(s) : image = Image(Len(s), SubSeq(s, 1, n))
    BY <1>3
  <2>1. /\ Len(SubSeq(s, 1, n)) = n
        /\ \A i \in 1..n : SubSeq(s, 1, n)[i] = s[i]
    BY <1>0
  <2> QED
    BY <1>0, <2>1 DEF Image, Confined
<1>4. CASE \E n \in 1..Len(s) : \E q \in Cut[s[n].path] :
             image = Image(Len(s), Append(SubSeq(s, 1, n - 1), CutEntry(s[n], q)))
  <2> PICK n \in 1..Len(s) : \E q \in Cut[s[n].path] :
             image = Image(Len(s), Append(SubSeq(s, 1, n - 1), CutEntry(s[n], q)))
    BY <1>4
  <2> PICK q \in Cut[s[n].path] :
             image = Image(Len(s), Append(SubSeq(s, 1, n - 1), CutEntry(s[n], q)))
    OBVIOUS
  <2> DEFINE t == SubSeq(s, 1, n - 1)
             c == CutEntry(s[n], q)
             recs == Append(t, c)
  <2>1. /\ t \in Seq(Entry) /\ Len(t) = n - 1
        /\ \A i \in 1..n - 1 : t[i] = s[i]
    BY <1>0
  <2>2. c.sha1 = s[n].sha1 /\ c.path = q
    BY <1>0 DEF CutEntry, Entry
  <2>3. /\ Len(recs) = n /\ recs[n] = c
        /\ \A i \in 1..n - 1 : recs[i] = s[i]
    <3> HIDE DEF t, c
    <3> QED
      BY <1>0, <2>1
  <2>4. image.recs = recs /\ image.count = Len(s)
    BY DEF Image
  <2> HIDE DEF recs, c, t
  <2>5. ASSUME n = Len(s), NEW i \in 1..Len(s)
        PROVE  /\ i < Len(s) => recs[i] = s[i]
               /\ recs[i].sha1 = s[i].sha1
               /\ recs[i].path \in {s[i].path} \cup Cut[s[i].path]
    <3>1. CASE i = n
      <4>1. ~(i < Len(s)) /\ recs[i].sha1 = s[i].sha1 /\ recs[i].path = q
        BY <1>0, <2>2, <2>3, <2>5, <3>1
      <4>2. q \in Cut[s[i].path]
        BY <3>1
      <4> QED
        BY <4>1, <4>2
    <3>2. CASE i \in 1..n - 1
      <4>1. recs[i] = s[i]
        BY <2>3, <3>2
      <4> QED
        BY <4>1
    <3>3. i = n \/ i \in 1..n - 1
      <4>1. n \in Nat /\ i \in 1..n
        BY <1>0, <2>5
      <4> QED
        BY <4>1
    <3> QED
      BY <3>1, <3>2, <3>3, Zenon
  <2> QED
    BY <1>0, <2>3, <2>4, <2>5 DEF Confined
<1> QED
  BY <1>1, <1>2, <1>3, <1>4 DEF TornImages

\* A file that was cut short and is accepted all the same has at most the path
\* of its last entry wrong, under every fault.
THEOREM DamageConfined == Spec => []DamageIsConfined
<1>1. DamageIsConfined <=> Confined(file, intent)
  BY DEF DamageIsConfined, Confined
<1>2. Init => Confined(file, intent)
  BY DEF Init, Absent, Confined
<1>3. ASSUME TypeOK, Confined(file, intent), [Next]_vars
      PROVE  Confined(file, intent)'
  <2>1. UNCHANGED <<file, intent>> \/ Write
    BY <1>3
    DEF Next, vars, New, Free, Clear, Add, RemovePath, ReadNothing,
        BeginRead, ReadEntry, ReadEntryNoMemory, EndRead,
        WriteNotOpened, WriteTreeEmpty, WriteTree, BeginReadTree, ReadTreeEntry,
        EndReadTree
  <2>2. CASE UNCHANGED <<file, intent>>
    BY <1>3, <2>2 DEF Confined
  <2>3. CASE Write
    <3>1. PICK s \in SortedForms(entries) :
            /\ intent' = s
            /\ file' \in TornImages(s) \cup {Image(Len(s), s)}
      BY <2>3 DEF Write
    <3>2. s \in Seq(Entry)
      BY <1>3, SortedFormFacts DEF TypeOK
    <3>3. Confined(file', intent')
      BY <3>1, <3>2, TornIsConfined
    <3> QED
      BY <3>3 DEF Confined
  <2> QED
    BY <2>1, <2>2, <2>3
<1> QED
  BY <1>1, <1>2, <1>3, InitType, StepType, PTL DEF Spec

-----------------------------------------------------------------------------
(* The table, as long as no write of the file is torn                      *)

NoTornWrites == Faults \cap {"write", "close", "crash"} = {}

LEMMA EntryPaths ==
    ASSUME NEW s \in Seq(Entry)
    PROVE  /\ Len(s) \in Nat /\ DOMAIN s = 1..Len(s)
           /\ \A i \in 1..Len(s) : s[i] \in Entry /\ s[i].path \in Nat
<1>1. Len(s) \in Nat /\ DOMAIN s = 1..Len(s)
  BY LenProperties
<1>2. \A i \in 1..Len(s) : s[i] \in Entry
  BY ElementOfSeq
<1>3. \A e \in Entry : e.path \in Nat
  BY PathsAssumption DEF Entry
<1> QED
  BY <1>1, <1>2, <1>3

\* A lookup that finds nothing means the path is nowhere in the array.
LEMMA NotFound ==
    ASSUME NEW s \in Seq(Entry), NEW p, FoundAt(s, p) = {}
    PROVE  \A i \in DOMAIN s : s[i].path # p
<1> DEFINE Holds == {i \in DOMAIN s : s[i].path = p}
<1>1. SUFFICES ASSUME Holds # {} PROVE FALSE
  OBVIOUS
<1>2. DOMAIN s = 1..Len(s) /\ Len(s) \in Nat
  BY LenProperties
<1>3. PICK i \in Holds : \A m \in Holds : i <= m
  <2>1. Holds \in SUBSET Nat
    BY <1>2
  <2> QED
    BY <1>1, <2>1, LeastNatural
<1>4. i \in DOMAIN s /\ s[i].path = p
  BY <1>3
<1>5. \A j \in 1..(i - 1) : s[j].path # p
  <2>1. ASSUME NEW j \in 1..(i - 1) PROVE s[j].path # p
    <3>1. j \in DOMAIN s /\ ~(i <= j)
      BY <1>2, <1>4
    <3> QED
      BY <1>3, <3>1
  <2> QED
    BY <2>1
<1>6. i \in FoundAt(s, p)
  BY <1>4, <1>5 DEF FoundAt
<1> QED
  BY <1>6

\* qsort leaves an array of distinct paths that is in order as it is.
LEMMA SortedStays ==
    ASSUME NEW s \in Seq(Entry), Sorted(s), Distinct(s),
           NEW t \in SortedForms(s)
    PROVE  t = s
<1> PICK f \in Bijection(DOMAIN s, DOMAIN s) : t = [i \in DOMAIN s |-> s[f[i]]]
  BY DEF SortedForms, Rearranged
<1>1. /\ t \in Seq(Entry) /\ Len(t) = Len(s) /\ Sorted(t) /\ Distinct(t)
  BY SortedFormFacts
<1>2. /\ Len(s) \in Nat /\ DOMAIN s = 1..Len(s) /\ DOMAIN t = 1..Len(s)
      /\ \A i \in 1..Len(s) : s[i].path \in Nat /\ t[i].path \in Nat
  BY <1>1, EntryPaths
<1>3. f \in [1..Len(s) -> 1..Len(s)]
  BY <1>2, BijectionFacts
<1>4. ASSUME NEW i \in 1..Len(s), NEW j \in 1..Len(s), i < j
      PROVE  f[i] < f[j]
  <2>1. t[i] = s[f[i]] /\ t[j] = s[f[j]] /\ f[i] \in 1..Len(s) /\ f[j] \in 1..Len(s)
    BY <1>2, <1>3
  <2>2. t[i].path <= t[j].path /\ t[i].path # t[j].path
    <3>1. i \in DOMAIN t /\ j \in DOMAIN t /\ i # j
      BY <1>2, <1>4
    <3>2. t[i].path <= t[j].path
      BY <1>1, <1>4, <3>1 DEF Sorted
    <3>3. t[i].path # t[j].path
      BY <1>1, <3>1 DEF Distinct
    <3> QED
      BY <3>2, <3>3
  <2>3. s[f[i]].path < s[f[j]].path
    BY <1>2, <2>1, <2>2
  <2>4. ~(f[j] < f[i]) /\ f[i] # f[j]
    <3>1. f[j] < f[i] => s[f[j]].path <= s[f[i]].path
      BY <1>2, <2>1 DEF Sorted
    <3> QED
      BY <1>2, <2>1, <2>3, <3>1
  <2> QED
    BY <2>1, <2>4
<1>5. \A i \in 1..Len(s) : f[i] = i
  BY <1>2, <1>4, IncreasingIsIdentity
<1>6. \A i \in 1..Len(s) : t[i] = s[i]
  BY <1>2, <1>5
<1> QED
  BY <1>1, <1>6, SeqEqual

-----------------------------------------------------------------------------
(* What one call does to the table.                                        *)

Without(table, p) == {e \in table : e.path # p}

LEMMA UpdateFacts ==
    ASSUME entries \in Seq(Entry), Distinct(entries), NEW e \in Entry, Update(e)
    PROVE  /\ Distinct(entries')
           /\ Range(entries') = Without(Range(entries), e.path) \cup {e}
<1> PICK i \in FoundAt(entries, e.path) :
        entries' = [entries EXCEPT ![i] = [@ EXCEPT !.sha1 = e.sha1,
                                                    !.mode = e.mode]]
  BY DEF Update
<1>1. /\ Len(entries) \in Nat /\ DOMAIN entries = 1..Len(entries)
      /\ i \in 1..Len(entries) /\ entries[i].path = e.path
      /\ entries[i] \in Entry
  BY EntryPaths DEF FoundAt
<1>2. [entries[i] EXCEPT !.sha1 = e.sha1, !.mode = e.mode] = e
  BY <1>1 DEF Entry
<1>3. entries' = [entries EXCEPT ![i] = e]
  BY <1>2
<1>4. /\ DOMAIN entries' = 1..Len(entries)
      /\ entries'[i] = e
      /\ \A j \in 1..Len(entries) : j # i => entries'[j] = entries[j]
  BY <1>1, <1>3
<1>5. \A j \in 1..Len(entries) : entries'[j].path = entries[j].path
  BY <1>1, <1>4
<1>6. Distinct(entries')
  BY <1>1, <1>4, <1>5 DEF Distinct
<1>7. \A j \in 1..Len(entries) : j # i => entries[j].path # e.path
  BY <1>1 DEF Distinct
<1>8. Range(entries') = Without(Range(entries), e.path) \cup {e}
  <2>1. ASSUME NEW x \in Range(entries')
        PROVE  x \in Without(Range(entries), e.path) \cup {e}
    BY <1>1, <1>4, <1>7, <2>1 DEF Range, Without
  <2>2. ASSUME NEW x \in Without(Range(entries), e.path) PROVE x \in Range(entries')
    BY <1>1, <1>4, <2>2 DEF Range, Without
  <2>3. e \in Range(entries')
    BY <1>1, <1>4 DEF Range
  <2> QED
    BY <2>1, <2>2, <2>3
<1> QED
  BY <1>6, <1>8

LEMMA InsertFacts ==
    ASSUME entries \in Seq(Entry), Distinct(entries), NEW e \in Entry, Insert(e)
    PROVE  /\ Distinct(entries')
           /\ Range(entries') = Without(Range(entries), e.path) \cup {e}
<1>1. /\ Len(entries) \in Nat /\ DOMAIN entries = 1..Len(entries)
      /\ \A i \in 1..Len(entries) : entries[i].path # e.path
  BY EntryPaths, NotFound DEF Insert, IsNew
<1>2. entries' = Append(entries, e)
  BY DEF Insert
<1>3. /\ entries' \in Seq(Entry)
      /\ DOMAIN entries' = 1..(Len(entries) + 1)
      /\ entries'[Len(entries) + 1] = e
      /\ \A j \in 1..Len(entries) : entries'[j] = entries[j]
  <2>1. entries' \in Seq(Entry) /\ Len(entries') = Len(entries) + 1
    BY <1>2, AppendProperties
  <2> QED
    BY <1>1, <1>2, <2>1, AppendProperties, LenProperties
<1>4. Distinct(entries')
  <2> SUFFICES ASSUME NEW j \in 1..(Len(entries) + 1), NEW k \in 1..(Len(entries) + 1),
                      entries'[j].path = entries'[k].path
               PROVE  j = k
    BY <1>3 DEF Distinct
  <2>1. CASE j \in 1..Len(entries) /\ k \in 1..Len(entries)
    BY <1>1, <1>3, <2>1 DEF Distinct
  <2>2. CASE j = Len(entries) + 1 \/ k = Len(entries) + 1
    BY <1>1, <1>3, <2>2
  <2> QED
    BY <1>1, <2>1, <2>2
<1>5. Range(entries') = Without(Range(entries), e.path) \cup {e}
  <2>1. ASSUME NEW x \in Range(entries')
        PROVE  x \in Without(Range(entries), e.path) \cup {e}
    BY <1>1, <1>3, <2>1 DEF Range, Without
  <2>2. ASSUME NEW x \in Range(entries) PROVE x \in Range(entries')
    BY <1>1, <1>3, <2>2 DEF Range
  <2>3. e \in Range(entries')
    BY <1>1, <1>3 DEF Range
  <2> QED
    BY <2>1, <2>2, <2>3 DEF Without
<1> QED
  BY <1>4, <1>5

LEMMA RemoveFacts ==
    ASSUME NEW s \in Seq(Entry), Distinct(s), NEW p, NEW i \in FoundAt(s, p)
    PROVE  /\ Distinct(RemoveAt(s, i))
           /\ Range(RemoveAt(s, i)) = Without(Range(s), p)
<1>1. /\ Len(s) \in Nat /\ DOMAIN s = 1..Len(s) /\ i \in 1..Len(s)
      /\ s[i].path = p
  BY EntryPaths DEF FoundAt
<1> DEFINE t == RemoveAt(s, i)
<1>2. /\ DOMAIN t = 1..(Len(s) - 1)
      /\ \A j \in 1..(Len(s) - 1) : t[j] = IF j < i THEN s[j] ELSE s[j + 1]
  <2>1. /\ t \in Seq(Entry) /\ Len(t) = Len(s) - 1
        /\ \A j \in 1..(Len(s) - 1) : t[j] = IF j < i THEN s[j] ELSE s[j + 1]
    BY <1>1, RemoveAtFacts
  <2> HIDE DEF t
  <2> QED
    BY <2>1, LenProperties
<1> HIDE DEF t
<1>3. Distinct(t)
  <2> SUFFICES ASSUME NEW j \in 1..(Len(s) - 1), NEW k \in 1..(Len(s) - 1),
                      t[j].path = t[k].path
               PROVE  j = k
    BY <1>2 DEF Distinct
  <2> DEFINE J == IF j < i THEN j ELSE j + 1
             K == IF k < i THEN k ELSE k + 1
  <2>1. J \in 1..Len(s) /\ K \in 1..Len(s) /\ t[j] = s[J] /\ t[k] = s[K]
    BY <1>1, <1>2
  <2>2. J = K
    <3> HIDE DEF J, K
    <3> QED
      BY <1>1, <2>1 DEF Distinct
  <2> QED
    BY <1>1, <2>2
<1>4. ASSUME NEW x \in Range(t) PROVE x \in Without(Range(s), p)
  <2>1. PICK j \in 1..(Len(s) - 1) : x = t[j]
    BY <1>2, <1>4 DEF Range
  <2> DEFINE J == IF j < i THEN j ELSE j + 1
  <2>2. J \in 1..Len(s) /\ J # i /\ x = s[J]
    BY <1>1, <1>2, <2>1
  <2> HIDE DEF J
  <2> QED
    BY <1>1, <2>2 DEF Range, Without, Distinct
<1>5. ASSUME NEW x \in Without(Range(s), p) PROVE x \in Range(t)
  <2>1. PICK j \in 1..Len(s) : x = s[j] /\ j # i
    BY <1>1, <1>5 DEF Range, Without
  <2> DEFINE J == IF j < i THEN j ELSE j - 1
  <2>2. J \in 1..(Len(s) - 1) /\ t[J] = s[j]
    BY <1>1, <1>2, <2>1
  <2> HIDE DEF J
  <2> QED
    BY <1>2, <2>1, <2>2 DEF Range
<1> QED
  BY <1>3, <1>4, <1>5 DEF t

-----------------------------------------------------------------------------
(* The invariant: a table, a saved copy in order, and `dirty` telling them  *)
(* apart.  A read from the file marks the table dirty before it starts.     *)

TableInv ==
    /\ GrowthInv
    /\ UniquePaths
    /\ SavedInOrder
    /\ CleanIsSaved
    /\ load.kind = "file" => dirty

LEMMA InitTable == Init => TableInv
<1> SUFFICES ASSUME Init PROVE TableInv
  OBVIOUS
<1>1. GrowthInv
  BY InitGrowth
<1>2. /\ entries = <<>> /\ file.recs = <<>> /\ file.count = 0
      /\ load.kind = "idle"
  BY DEF Init, Absent, Idle
<1> QED
  BY <1>1, <1>2
  DEF TableInv, UniquePaths, SavedInOrder, CleanIsSaved, Distinct, Sorted

\* The steps of git_index_add, alone or for a tree that is read.
LEMMA AddEntryTable ==
    ASSUME TableInv, NEW e \in Entry, AddEntry(e)
    PROVE  /\ Distinct(entries')
           /\ \/ /\ dirty'
                 /\ Range(entries') = Without(Range(entries), e.path) \cup {e}
              \/ UNCHANGED <<entries, dirty>>
<1>1. entries \in Seq(Entry) /\ Distinct(entries)
  BY DEF TableInv, GrowthInv, TypeOK, UniquePaths
<1>2. CASE Update(e)
  <2>1. dirty'
    BY <1>2 DEF Update
  <2> QED
    BY <1>1, <1>2, <2>1, UpdateFacts
<1>3. CASE Insert(e)
  <2>1. dirty'
    BY <1>3 DEF Insert
  <2> QED
    BY <1>1, <1>3, <2>1, InsertFacts
<1>4. CASE AddFails(e)
  <2>1. UNCHANGED <<entries, dirty>>
    BY <1>4 DEF AddFails, Refused, Full, InsertNoMemory, handle
  <2> QED
    BY <1>1, <2>1
<1> QED
  BY <1>2, <1>3, <1>4 DEF AddEntry

\* A step that leaves the file alone and no read of it under way.
LEMMA QuietTable ==
    ASSUME TableInv, GrowthInv', UNCHANGED file, load'.kind # "file",
           Distinct(entries'),
           dirty' \/ entries' = <<>> \/ (UNCHANGED <<entries, dirty>>)
    PROVE  TableInv'
  BY DEF TableInv, UniquePaths, SavedInOrder, CleanIsSaved

LEMMA StepTable == NoTornWrites /\ TableInv /\ [Next]_vars => TableInv'
<1> SUFFICES ASSUME NoTornWrites, TableInv, [Next]_vars PROVE TableInv'
  OBVIOUS
<1>g. GrowthInv /\ GrowthInv'
  BY StepGrowth DEF TableInv
<1>t. TypeOK /\ entries \in Seq(Entry) /\ Distinct(entries)
  BY <1>g DEF GrowthInv, TypeOK, TableInv, UniquePaths
<1>d. Distinct(<<>>)
  BY DEF Distinct
<1>i. Idle.kind = "idle"
  BY DEF Idle
<1> USE DEF handle
<1>1. CASE UNCHANGED vars
  BY <1>1, <1>g
  DEF vars, TableInv, UniquePaths, SavedInOrder, CleanIsSaved
<1>2. CASE New
  <2>1. UNCHANGED file /\ load'.kind # "file"
    BY <1>2, <1>g DEF New, GrowthInv, ReadInProgress
  <2>2. entries' = <<>> \/ UNCHANGED <<entries, dirty>>
    BY <1>2 DEF New
  <2> QED
    BY <1>g, <1>t, <1>d, <2>1, <2>2, QuietTable
<1>3. CASE Free \/ Clear
  BY <1>3, <1>g, <1>d, <1>i, QuietTable DEF Free, Clear, Ready, DropHandle
<1>4. ASSUME NEW p \in Paths, NEW sha \in Shas, NEW mode \in Modes,
             Add(p, sha, mode)
      PROVE  TableInv'
  <2> DEFINE e == [path |-> p, sha1 |-> sha, mode |-> mode]
  <2>1. e \in Entry
    BY ModesAssumption DEF Entry
  <2>2. AddEntry(e) /\ UNCHANGED <<file, load>> /\ load.kind = "idle"
    BY <1>4, <1>i DEF Add, Ready
  <2> HIDE DEF e
  <2> QED
    BY <1>g, <2>1, <2>2, AddEntryTable, QuietTable
<1>5. ASSUME NEW p \in Paths, RemovePath(p)
      PROVE  TableInv'
  <2>1. UNCHANGED <<file, load>> /\ load.kind = "idle"
    BY <1>5, <1>i DEF RemovePath, Ready
  <2>2. CASE /\ \E i \in FoundAt(entries, p) : entries' = RemoveAt(entries, i)
             /\ dirty' = TRUE
    BY <1>g, <1>t, <2>1, <2>2, RemoveFacts, QuietTable
  <2>3. CASE UNCHANGED <<entries, dirty>>
    BY <1>g, <1>t, <2>1, <2>3, QuietTable
  <2> QED
    BY <1>5, <2>2, <2>3 DEF RemovePath
<1>6. CASE ReadNothing \/ WriteNotOpened \/ WriteTreeEmpty
  BY <1>6, <1>g, <1>t, <1>i, QuietTable
  DEF ReadNothing, WriteNotOpened, WriteTreeEmpty, Ready
<1>7. CASE BeginRead \/ ReadEntry
  <2>1. load'.kind = "file" /\ UNCHANGED file
    <3>1. CASE BeginRead
      BY <3>1 DEF BeginRead
    <3>2. CASE ReadEntry
      <4>1. /\ load' = [load EXCEPT !.left = Tail(load.left)]
            /\ load.kind = "file" /\ load \in LoadType
        BY <1>t, <3>2 DEF ReadEntry, TypeOK
      <4> QED
        BY <3>2, <4>1 DEF ReadEntry, LoadType
    <3> QED
      BY <1>7, <3>1, <3>2
  <2>2. dirty'
    BY <1>7 DEF BeginRead, ReadEntry, TableInv
  <2>3. entries' \o load'.left = file'.recs
    BY <1>g, <2>1 DEF GrowthInv, ReadInProgress
  <2>4. Distinct(file'.recs) /\ Distinct(entries' \o load'.left)
    BY <2>1, <2>3 DEF TableInv, UniquePaths
  <2>5. Distinct(entries')
    <3>1. entries' \in Seq(Entry) /\ load'.left \in Seq(Entry)
      BY <1>g DEF GrowthInv, TypeOK, LoadType
    <3>2. /\ Len(entries') \in Nat /\ DOMAIN entries' = 1..Len(entries')
          /\ Len(load'.left) \in Nat
      BY <3>1, LenProperties
    <3>3. /\ Len(entries' \o load'.left) = Len(entries') + Len(load'.left)
          /\ entries' \o load'.left \in Seq(Entry)
          /\ \A j \in 1..Len(entries') : (entries' \o load'.left)[j] = entries'[j]
      BY <3>1, <3>2, ConcatProperties
    <3>4. \A j \in DOMAIN entries' : j \in DOMAIN (entries' \o load'.left)
      BY <3>2, <3>3, LenProperties
    <3> QED
      BY <2>4, <3>2, <3>3, <3>4 DEF Distinct
  <2> QED
    BY <1>g, <2>1, <2>2, <2>4, <2>5
    DEF TableInv, UniquePaths, SavedInOrder, CleanIsSaved
<1>8. CASE ReadEntryNoMemory \/ EndRead \/ EndReadTree
  BY <1>8, <1>g, <1>t, <1>i, QuietTable
  DEF ReadEntryNoMemory, EndRead, EndReadTree
<1>9. CASE Write
  <2> PICK s \in SortedForms(entries) :
        /\ file' = Image(Len(s), s)
        /\ entries' = s
    BY <1>9 DEF Write, NoTornWrites
  <2>1. Sorted(s) /\ Distinct(s)
    BY <1>t, SortedFormFacts
  <2>2. load'.kind # "file"
    BY <1>9, <1>i DEF Write, Ready
  <2>3. file'.recs = s /\ file'.count = Len(s)
    BY DEF Image
  <2> QED
    BY <1>g, <2>1, <2>2, <2>3
    DEF TableInv, UniquePaths, SavedInOrder, CleanIsSaved
<1>10. CASE WriteTree
  <2>1. /\ entries' \in SortedForms(entries)
        /\ UNCHANGED <<file, load, dirty>> /\ load.kind = "idle"
        /\ entries # <<>>
    BY <1>10, <1>i DEF WriteTree, Ready
  <2>2. Distinct(entries')
    BY <1>t, <2>1, SortedFormFacts
  <2>3. dirty \/ entries' = entries
    <3>1. CASE ~dirty
      <4>1. entries = file.recs
        BY <2>1, <3>1 DEF TableInv, CleanIsSaved
      <4>2. Sorted(entries)
        BY <4>1 DEF TableInv, SavedInOrder
      <4> QED
        BY <1>t, <2>1, <4>2, SortedStays
    <3> QED
      BY <3>1
  <2> QED
    BY <1>g, <2>1, <2>2, <2>3, QuietTable
<1>11. CASE BeginReadTree
  <2>1. /\ load'.kind # "file" /\ UNCHANGED file
        /\ \/ entries' = <<>>
           \/ UNCHANGED <<entries, dirty>>
    <3>1. open /\ load = Idle /\ UNCHANGED file
      BY <1>11 DEF BeginReadTree, Ready
    <3>2. CASE /\ entries' = <<>>
               /\ \E t \in trees :
                    load' = [kind |-> "tree", left |-> t, missing |-> FALSE]
      BY <3>1, <3>2
    <3>3. CASE UNCHANGED <<handle, load>>
      BY <1>i, <3>1, <3>3
    <3> QED
      BY <1>11, <3>2, <3>3 DEF BeginReadTree
  <2> QED
    BY <1>g, <1>t, <1>d, <2>1, QuietTable
<1>12. CASE ReadTreeEntry
  <2> DEFINE e == Head(load.left)
  <2>1. e \in Entry /\ load.kind = "tree"
    BY <1>12, <1>t, HeadTailProperties DEF ReadTreeEntry, TypeOK, LoadType
  <2>2. load' = [load EXCEPT !.left = Tail(load.left)] \/ load' = Idle
    BY <1>12, Zenon DEF ReadTreeEntry
  <2>3. load'.kind \in {"tree", "idle"}
    BY <1>t, <1>i, <2>1, <2>2 DEF TypeOK, LoadType
  <2>4. UNCHANGED <<handle, ret>> \/ AddEntry(e)
    <3>1. \/ UNCHANGED <<handle, ret>>
          \/ Update(e) \/ Insert(e) \/ AddFails(e)
      BY <1>12, Zenon DEF ReadTreeEntry
    <3> QED
      BY <3>1 DEF AddEntry
  <2>5. UNCHANGED file
    BY <1>12 DEF ReadTreeEntry
  <2> HIDE DEF e
  <2>6. CASE UNCHANGED <<handle, ret>>
    BY <1>g, <1>t, <2>3, <2>5, <2>6, QuietTable
  <2>7. CASE AddEntry(e)
    BY <1>g, <2>1, <2>3, <2>5, <2>7, AddEntryTable, QuietTable
  <2> QED
    BY <2>4, <2>6, <2>7
<1> QED
  BY <1>1, <1>2, <1>3, <1>4, <1>5, <1>6, <1>7, <1>8, <1>9, <1>10, <1>11,
     <1>12 DEF Next

\* While no write is torn, the index has one entry per path, in memory, on
\* disk and part-way through a read.
THEOREM PathsUnique ==
    ASSUME NoTornWrites
    PROVE  Spec => []UniquePaths
<1>1. TableInv => UniquePaths
  BY DEF TableInv
<1>2. TableInv /\ [Next]_vars => TableInv'
  BY StepTable
<1> QED
  BY <1>1, <1>2, InitTable, PTL DEF Spec

\* While no write is torn, the file is complete and in path order.
THEOREM FileInOrder ==
    ASSUME NoTornWrites
    PROVE  Spec => []SavedInOrder
<1>1. TableInv => SavedInOrder
  BY DEF TableInv
<1>2. TableInv /\ [Next]_vars => TableInv'
  BY StepTable
<1> QED
  BY <1>1, <1>2, InitTable, PTL DEF Spec

\* While no write is torn, a clean table is the saved one.
THEOREM CleanSaved ==
    ASSUME NoTornWrites
    PROVE  Spec => []CleanIsSaved
<1>1. TableInv => CleanIsSaved
  BY DEF TableInv
<1>2. TableInv /\ [Next]_vars => TableInv'
  BY StepTable
<1> QED
  BY <1>1, <1>2, InitTable, PTL DEF Spec

-----------------------------------------------------------------------------
(* The index implements StagingArea.                                       *)

LEMMA TablesInRead ==
    ASSUME GrowthInv
    PROVE  StagedTable = IF load.kind = "file" THEN SavedTable ELSE Range(entries)
  BY DEF GrowthInv, ReadInProgress, StagedTable, SavedTable

LEMMA InitRefines == Init => Staging!Init
  BY DEF Init, Staging!Init, StagedTable, SavedTable, Absent, Idle, Range

LEMMA AddEntryRefines ==
    ASSUME TableInv, NEW e \in Entry, AddEntry(e), UNCHANGED file,
           load.kind # "file", load'.kind # "file"
    PROVE  Staging!Next \/ UNCHANGED Staging!vars
<1>1. /\ StagedTable = Range(entries) /\ StagedTable' = Range(entries')
      /\ UNCHANGED SavedTable
  BY DEF StagedTable, SavedTable
<1>2. CASE Range(entries') = Without(Range(entries), e.path) \cup {e}
  <2>1. Staging!Stage(e)
    BY <1>1, <1>2 DEF Staging!Stage, Staging!Without, Without
  <2> QED
    BY <2>1 DEF Staging!Next
<1>3. CASE UNCHANGED entries
  BY <1>1, <1>3 DEF Staging!vars
<1> QED
  BY <1>2, <1>3, AddEntryTable

\* Only a write of the file, a read from it and the operations on entries
\* move the tables.
LEMMA StepRefines ==
    ASSUME NoTornWrites, TableInv, GrowthInv', [Next]_vars
    PROVE  Staging!Next \/ UNCHANGED Staging!vars
<1>g. GrowthInv
  BY DEF TableInv
<1>t. TypeOK /\ TypeOK' /\ entries \in Seq(Entry) /\ Distinct(entries)
  BY <1>g DEF GrowthInv, TypeOK, TableInv, UniquePaths
<1>s. StagedTable = IF load.kind = "file" THEN SavedTable ELSE Range(entries)
  BY <1>g, TablesInRead
<1>p. StagedTable' = IF load'.kind = "file" THEN SavedTable' ELSE Range(entries')
  BY TablesInRead DEF GrowthInv, ReadInProgress, StagedTable, SavedTable
<1>i. Idle.kind = "idle" /\ Range(<<>>) = {}
  BY DEF Idle, Range
<1>f. ASSUME UNCHANGED file PROVE UNCHANGED SavedTable
  BY <1>f DEF SavedTable
<1>e. ASSUME UNCHANGED <<file, entries>>, load.kind # "file", load'.kind # "file"
      PROVE  UNCHANGED Staging!vars
  BY <1>s, <1>p, <1>f, <1>e DEF Staging!vars
<1>r. ASSUME UNCHANGED file, entries' = <<>>, load'.kind # "file"
      PROVE  Staging!Next
  <2>1. Staging!Reset
    BY <1>p, <1>f, <1>i, <1>r DEF Staging!Reset
  <2> QED
    BY <2>1 DEF Staging!Next
<1> USE DEF handle
<1>1. CASE UNCHANGED vars
  BY <1>1, <1>s, <1>p, <1>f DEF vars, Staging!vars
<1>2. CASE New
  <2>1. UNCHANGED file /\ load'.kind # "file" /\ load.kind # "file"
    BY <1>2, <1>g DEF New, GrowthInv, ReadInProgress
  <2>2. entries' = <<>> \/ UNCHANGED entries
    BY <1>2 DEF New
  <2> QED
    BY <1>e, <1>r, <2>1, <2>2
<1>3. CASE Free \/ Clear
  BY <1>3, <1>i, <1>r DEF Free, Clear, Ready, DropHandle
<1>4. ASSUME NEW p \in Paths, NEW sha \in Shas, NEW mode \in Modes,
             Add(p, sha, mode)
      PROVE  Staging!Next \/ UNCHANGED Staging!vars
  <2> DEFINE e == [path |-> p, sha1 |-> sha, mode |-> mode]
  <2>1. e \in Entry
    BY ModesAssumption DEF Entry
  <2>2. AddEntry(e) /\ UNCHANGED <<file, load>> /\ load.kind = "idle"
    BY <1>4, <1>i DEF Add, Ready
  <2> HIDE DEF e
  <2> QED
    BY <2>1, <2>2, AddEntryRefines
<1>5. ASSUME NEW p \in Paths, RemovePath(p)
      PROVE  Staging!Next \/ UNCHANGED Staging!vars
  <2>1. UNCHANGED <<file, load>> /\ load.kind = "idle"
    BY <1>5, <1>i DEF RemovePath, Ready
  <2>2. CASE \E i \in FoundAt(entries, p) : entries' = RemoveAt(entries, i)
    <3> PICK i \in FoundAt(entries, p) : entries' = RemoveAt(entries, i)
      BY <2>2
    <3>1. Range(entries') = Without(Range(entries), p)
      BY <1>t, RemoveFacts
    <3>2. entries[i] \in Range(entries) /\ entries[i] \in Entry
          /\ entries[i].path = p
      BY <1>t, EntryPaths DEF FoundAt, Range
    <3>3. p \in {x.path : x \in StagedTable}
      BY <1>s, <2>1, <3>2
    <3>4. Staging!Unstage(entries[i].path)
      BY <1>s, <1>p, <1>f, <2>1, <3>1, <3>2, <3>3
      DEF Staging!Unstage, Staging!Without, Without
    <3> QED
      BY <3>2, <3>4 DEF Staging!Next
  <2>3. CASE UNCHANGED entries
    BY <1>e, <2>1, <2>3
  <2> QED
    BY <1>5, <2>2, <2>3 DEF RemovePath
<1>6. CASE ReadNothing \/ WriteNotOpened \/ WriteTreeEmpty
  BY <1>6, <1>e, <1>i DEF ReadNothing, WriteNotOpened, WriteTreeEmpty, Ready
<1>7. CASE BeginRead
  <2>1. load'.kind = "file" /\ UNCHANGED file
    BY <1>7 DEF BeginRead
  <2>2. Staging!Load
    BY <1>p, <1>f, <2>1 DEF Staging!Load
  <2> QED
    BY <2>2 DEF Staging!Next
<1>8. CASE ReadEntry
  <2>1. load'.kind = "file" /\ load.kind = "file" /\ UNCHANGED file
    <3>1. /\ load' = [load EXCEPT !.left = Tail(load.left)]
          /\ load.kind = "file" /\ load \in LoadType
      BY <1>t, <1>8 DEF ReadEntry, TypeOK
    <3> QED
      BY <1>8, <3>1 DEF ReadEntry, LoadType
  <2> QED
    BY <1>s, <1>p, <1>f, <2>1 DEF Staging!vars
<1>9. CASE ReadEntryNoMemory \/ EndRead
  <2>1. /\ UNCHANGED <<file, entries>> /\ load.kind = "file"
        /\ load'.kind = "idle"
    BY <1>9, <1>i DEF ReadEntryNoMemory, EndRead
  <2>2. Range(entries) \subseteq SavedTable
    <3>1. entries \in Seq(Entry) /\ load.left \in Seq(Entry)
          /\ entries \o load.left = file.recs
      BY <1>t, <1>g, <2>1 DEF GrowthInv, ReadInProgress, TypeOK, LoadType
    <3>2. /\ DOMAIN entries = 1..Len(entries) /\ Len(entries) \in Nat
          /\ Len(load.left) \in Nat
          /\ DOMAIN file.recs = 1..(Len(entries) + Len(load.left))
          /\ \A j \in 1..Len(entries) : file.recs[j] = entries[j]
      BY <3>1, LenProperties, ConcatProperties
    <3> QED
      BY <3>2 DEF Range, SavedTable
  <2>3. Staging!LoadPart
    BY <1>p, <1>f, <2>1, <2>2 DEF Staging!LoadPart
  <2> QED
    BY <2>3 DEF Staging!Next
<1>10. CASE EndReadTree
  BY <1>10, <1>e, <1>i DEF EndReadTree
<1>11. CASE Write
  <2> PICK s \in SortedForms(entries) :
        /\ file' = Image(Len(s), s)
        /\ entries' = s
    BY <1>11 DEF Write, NoTornWrites
  <2>1. Range(s) = Range(entries)
    BY <1>t, SortedFormFacts
  <2>2. load.kind = "idle" /\ load'.kind = "idle"
    BY <1>11, <1>i DEF Write, Ready
  <2>3. SavedTable' = Range(s)
    BY DEF SavedTable, Image
  <2>4. Staging!Save
    BY <1>s, <1>p, <2>1, <2>2, <2>3 DEF Staging!Save
  <2> QED
    BY <2>4 DEF Staging!Next
<1>12. CASE WriteTree
  <2>1. /\ entries' \in SortedForms(entries)
        /\ UNCHANGED <<file, load>> /\ load.kind = "idle"
    BY <1>12, <1>i DEF WriteTree, Ready
  <2>2. Range(entries') = Range(entries)
    BY <1>t, <2>1, SortedFormFacts
  <2> QED
    BY <1>s, <1>p, <1>f, <2>1, <2>2 DEF Staging!vars
<1>13. CASE BeginReadTree
  <2>1. open /\ load = Idle /\ UNCHANGED file
    BY <1>13 DEF BeginReadTree, Ready
  <2>2. CASE /\ entries' = <<>>
             /\ \E t \in trees :
                  load' = [kind |-> "tree", left |-> t, missing |-> FALSE]
    BY <1>r, <2>1, <2>2
  <2>3. CASE UNCHANGED <<handle, load>>
    BY <1>e, <1>i, <2>1, <2>3
  <2> QED
    BY <1>13, <2>2, <2>3 DEF BeginReadTree
<1>14. CASE ReadTreeEntry
  <2> DEFINE e == Head(load.left)
  <2>1. e \in Entry /\ load.kind = "tree"
    BY <1>14, <1>t, HeadTailProperties DEF ReadTreeEntry, TypeOK, LoadType
  <2>2. load' = [load EXCEPT !.left = Tail(load.left)] \/ load' = Idle
    BY <1>14, Zenon DEF ReadTreeEntry
  <2>3. load'.kind \in {"tree", "idle"}
    BY <1>t, <1>i, <2>1, <2>2 DEF TypeOK, LoadType
  <2>4. UNCHANGED <<handle, ret>> \/ AddEntry(e)
    <3>1. \/ UNCHANGED <<handle, ret>>
          \/ Update(e) \/ Insert(e) \/ AddFails(e)
      BY <1>14, Zenon DEF ReadTreeEntry
    <3> QED
      BY <3>1 DEF AddEntry
  <2>5. UNCHANGED file
    BY <1>14 DEF ReadTreeEntry
  <2> HIDE DEF e
  <2>6. CASE UNCHANGED <<handle, ret>>
    BY <1>e, <2>1, <2>3, <2>5, <2>6
  <2>7. CASE AddEntry(e)
    BY <2>1, <2>3, <2>5, <2>7, AddEntryRefines
  <2> QED
    BY <2>4, <2>6, <2>7
<1> QED
  BY <1>1, <1>2, <1>3, <1>4, <1>5, <1>6, <1>7, <1>8, <1>9, <1>10, <1>11,
     <1>12, <1>13, <1>14 DEF Next

\* While no write is torn, git_index implements the table of StagingArea.
THEOREM Refinement ==
    ASSUME NoTornWrites
    PROVE  Spec => ImplementsStagingArea
<1>1. TableInv /\ [Next]_vars => TableInv'
  BY StepTable
<1>2. TableInv /\ TableInv' /\ [Next]_vars => [Staging!Next]_(Staging!vars)
  BY StepRefines DEF TableInv
<1> QED
  BY <1>1, <1>2, InitTable, InitRefines, PTL
  DEF Spec, ImplementsStagingArea, Staging!Spec

\* While no write is torn, a tree made from the index names each path once,
\* in order, with the object the table has for it.
THEOREM TreesOrdered ==
    ASSUME NoTornWrites
    PROVE  Spec => TreesInOrder
<1> DEFINE Good(t) ==
        /\ Sorted(t) /\ Distinct(t)
        /\ \A i \in DOMAIN t : \E e \in Range(entries) :
              t[i].path = e.path /\ t[i].sha1 = e.sha1
<1>1. ASSUME TableInv, [Next]_vars, NEW t \in trees' \ trees
      PROVE  Good(t)
  <2>1. WriteTree
    BY <1>1 DEF Next, vars, New, Free, Clear, Add, RemovePath, ReadNothing,
        BeginRead, ReadEntry, ReadEntryNoMemory, EndRead, WriteNotOpened,
        Write, WriteTreeEmpty, BeginReadTree, ReadTreeEntry, EndReadTree
  <2> PICK s \in SortedForms(entries) : t = TreeOf(s)
    BY <1>1, <2>1 DEF WriteTree
  <2>2. /\ s \in Seq(Entry) /\ Sorted(s) /\ Distinct(s)
        /\ Range(s) = Range(entries)
    BY <1>1, SortedFormFacts
    DEF TableInv, GrowthInv, TypeOK, UniquePaths
  <2>3. /\ DOMAIN t = DOMAIN s
        /\ \A i \in DOMAIN s : t[i].path = s[i].path /\ t[i].sha1 = s[i].sha1
    BY <2>2, EntryPaths DEF TreeOf, Entry
  <2>4. Sorted(t) /\ Distinct(t)
    BY <2>2, <2>3 DEF Sorted, Distinct
  <2>5. \A i \in DOMAIN t : s[i] \in Range(entries)
    BY <2>2, <2>3 DEF Range
  <2> QED
    BY <2>3, <2>4, <2>5
<1>2. TableInv /\ [Next]_vars => [\A t \in trees' \ trees : Good(t)]_vars
  BY <1>1
<1>3. TableInv /\ [Next]_vars => TableInv'
  BY StepTable
<1> QED
  BY <1>2, <1>3, InitTable, PTL DEF Spec, TreesInOrder
=============================================================================
