--------------------------- MODULE StagingProofs ---------------------------
(***************************************************************************)
(* Theorems about module Staging for every number of processes, every work  *)
(* tree and every argument.  Together the commands are one use of the       *)
(* object store, so what is proved of ObjectStore holds of the store they   *)
(* share: module ObjectStoreProofs is cited here through an instance.       *)
(***************************************************************************)
EXTENDS Staging, FiniteSetTheorems, TLAPS

StoreProofs == INSTANCE ObjectStoreProofs
               WITH Dense <- {}, Faults <- Faults \cap {"open", "write", "crash"}

\* What module ObjectStore assumes of its constants.
LEMMA StoreAssumptions ==
    /\ Pieces \in [Objects -> Nat \ {0}]
    /\ Empty \subseteq Objects /\ {} \subseteq Objects
    /\ MaxCalls \in Nat
    /\ (Faults \cap {"open", "write", "crash"}) \subseteq {"open", "write", "crash", "read"}
<1>1. Cardinality(Paths) \in Nat
  BY StagingAssumption, FS_CardinalityType
<1>2. MaxCalls \in Nat
  BY <1>1, StagingAssumption DEF MaxCalls
<1> QED
  BY <1>2, StagingAssumption DEF Empty

\* The two instances of ObjectStore are one.
LEMMA SameStore ==
    /\ Store!Init = StoreProofs!Init
    /\ Store!Next = StoreProofs!Next
    /\ Store!vars = StoreProofs!vars
    /\ [Store!Next]_(Store!vars) <=> [StoreProofs!Next]_(StoreProofs!vars)
    /\ Store!TypeOK <=> StoreProofs!TypeOK
    /\ Store!TypeOK' <=> StoreProofs!TypeOK'
<1>1. Store!Init = StoreProofs!Init
  BY Zenon DEF Store!Init, StoreProofs!Init, Store!None, StoreProofs!None,
               Store!Nobody, StoreProofs!Nobody
<1>2. Store!vars = StoreProofs!vars
  BY Zenon DEF Store!vars, StoreProofs!vars, Store!history, StoreProofs!history
<1>3. Store!Next = StoreProofs!Next
  BY Zenon DEF
    Store!Next, Store!Start, Store!Advance, Store!Starts, Store!Returns,
    Store!RefuseWrite, Store!BeginWrite, Store!WritePiece, Store!EndWrite,
    Store!FailWrite, Store!NotFound, Store!BeginRead, Store!ReadPiece,
    Store!EndRead, Store!FailRead, Store!Crash, Store!Inflates, Store!Size, Store!Max,
    Store!Writing, Store!Reading, Store!None, Store!IsWriting, Store!IsReading,
    Store!history,
    StoreProofs!Next, StoreProofs!Start, StoreProofs!Advance, StoreProofs!Starts,
    StoreProofs!Returns, StoreProofs!RefuseWrite, StoreProofs!BeginWrite,
    StoreProofs!WritePiece, StoreProofs!EndWrite, StoreProofs!FailWrite,
    StoreProofs!NotFound, StoreProofs!BeginRead, StoreProofs!ReadPiece,
    StoreProofs!EndRead, StoreProofs!FailRead, StoreProofs!Crash,
    StoreProofs!Inflates, StoreProofs!Size, StoreProofs!Max, StoreProofs!Writing,
    StoreProofs!Reading, StoreProofs!None, StoreProofs!IsWriting,
    StoreProofs!IsReading, StoreProofs!history
<1>v. Store!vars' = StoreProofs!vars'
  BY Zenon DEF Store!vars, StoreProofs!vars, Store!history, StoreProofs!history
<1>4. /\ Store!TypeOK <=> StoreProofs!TypeOK
      /\ Store!TypeOK' <=> StoreProofs!TypeOK'
  BY Zenon DEF Store!TypeOK, StoreProofs!TypeOK, Store!Whole, StoreProofs!Whole,
               Store!CallType, StoreProofs!CallType, Store!Nobody,
               StoreProofs!Nobody
<1> QED
  BY <1>1, <1>2, <1>3, <1>v, <1>4

-----------------------------------------------------------------------------
(* The commands                                                            *)

Stages == {"off", "walking", "reading", "storing", "saving", "hashing"}

Command ==
    [stage : Stages, runs : 0..MaxRuns, op : {"add", "hash"},
     held : Contents \cup {Nothing}, keeps : BOOLEAN,
     args : Seq(Argument), todo : SUBSET Paths, path : Paths \cup {Nothing},
     size : Nat, blob : Objects \cup {Nothing}, failed : BOOLEAN,
     table : Table, dirty : BOOLEAN, asked : SUBSET Paths, named : SUBSET Paths,
     got : Table]

\* What goes with the stage a command is in.
Sound(c) ==
    /\ c \in Command
    /\ c.todo \subseteq c.asked /\ c.named \subseteq c.asked
    /\ c.stage \in {"reading", "hashing"} => c.path \in Paths
    /\ c.stage = "storing" => /\ c.blob \in Objects
                              /\ c.op = "add" => c.path \in Paths

CommandsOK ==
    /\ cmd \in [Processes -> Command]
    /\ \A p \in Processes : Sound(cmd[p])

FilesOK ==
    /\ work \in [Paths -> Contents \cup {Nothing}]
    /\ edits \in 0..MaxEdits
    /\ index \in Table \cup {Nothing, Torn}
    /\ exit \in [Processes -> {"none", "OK", "ERROR", "killed"}]
    /\ past \in [Paths -> SUBSET Contents]
    /\ last \in Table

\* A process is in a call of the store exactly while it stores its blob.
CallsOK ==
    \A p \in Processes :
        /\ At(p, "storing") <=> call[p] # Store!None
        /\ At(p, "storing") => Store!IsWriting(p, Blob(cmd[p].blob))

StagingInv == FilesOK /\ CommandsOK /\ CallsOK /\ Store!TypeOK

\* The beginning of a content is an object.
LEMMA Beginnings ==
    ASSUME NEW c \in Contents, NEW n \in Nat, n <= Len(c)
    PROVE  SubSeq(c, 1, n) \in Objects
<1>1. Len(c) \in Nat
  BY StagingAssumption
<1>2. n \in 0..Len(c)
  BY <1>1
<1> QED
  BY <1>2 DEF Objects, Prefixes

LEMMA OffIsSound ==
    ASSUME NEW n \in 0..MaxRuns
    PROVE  Sound(Off(n)) /\ Off(n).stage = "off" /\ Off(n).table = Blank
<1>1. Blank \in Table
  BY DEF Blank, Table
<1>2. <<>> \in Seq(Argument)
  OBVIOUS
<1> QED
  BY <1>1, <1>2 DEF Off, Sound, Command, Stages

\* The fields of a command.
LEMMA Fields ==
    ASSUME NEW c, Sound(c)
    PROVE  /\ c.stage \in Stages /\ c.runs \in 0..MaxRuns /\ c.op \in {"add", "hash"}
           /\ c.held \in Contents \cup {Nothing} /\ c.keeps \in BOOLEAN
           /\ c.args \in Seq(Argument) /\ c.todo \subseteq Paths
           /\ c.path \in Paths \cup {Nothing} /\ c.size \in Nat
           /\ c.blob \in Objects \cup {Nothing} /\ c.failed \in BOOLEAN
           /\ c.table \in Table /\ c.dirty \in BOOLEAN
           /\ c.asked \subseteq Paths /\ c.named \subseteq Paths /\ c.got \in Table
  BY DEF Sound, Command

\* The commands a step can make of one.
LEMMA StartedIsSound ==
    ASSUME NEW n \in 0..MaxRuns, NEW as \in Arguments, NEW t \in Table,
           NEW d \in BOOLEAN
    PROVE  Sound([Off(n) EXCEPT !.stage = "walking", !.args = as,
                                !.table = t, !.dirty = d])
<1>1. as \in Seq(Argument)
  BY StagingAssumption
<1>2. Blank \in Table
  BY DEF Blank, Table
<1> QED
  BY <1>1, <1>2 DEF Off, Sound, Command, Stages

LEMMA HashStartedIsSound ==
    ASSUME NEW n \in 0..MaxRuns, NEW f \in Paths, NEW c \in Contents,
           NEW keeps \in BOOLEAN
    PROVE  Sound([Off(n) EXCEPT !.stage = "hashing", !.op = "hash", !.path = f,
                                !.held = c, !.size = Len(c), !.keeps = keeps])
<1>1. Len(c) \in Nat
  BY StagingAssumption
<1>2. Blank \in Table
  BY DEF Blank, Table
<1>3. <<>> \in Seq(Argument)
  OBVIOUS
<1> QED
  BY <1>1, <1>2, <1>3 DEF Off, Sound, Command, Stages

LEMMA FailedIsSound ==
    ASSUME NEW c, Sound(c)
    PROVE  Sound([c EXCEPT !.stage = "walking", !.todo = {}, !.failed = TRUE])
  BY DEF Sound, Command, Stages

LEMMA ArgumentIsSound ==
    ASSUME NEW c, Sound(c), c.stage = "walking", c.args # <<>>,
           NEW l \in SUBSET Paths, NEW n \in SUBSET l, NEW t \in SUBSET l
    PROVE  /\ Sound([c EXCEPT !.args = Tail(@), !.asked = @ \cup l,
                              !.named = @ \cup n, !.todo = t])
           /\ Sound([c EXCEPT !.args = Tail(@), !.asked = @ \cup l,
                              !.named = @ \cup n, !.failed = TRUE])
<1>1. Tail(c.args) \in Seq(Argument)
  BY Fields
<1> QED
  BY <1>1 DEF Sound, Command

LEMMA PassedIsSound ==
    ASSUME NEW c, Sound(c), NEW f
    PROVE  Sound([c EXCEPT !.todo = @ \ {f}])
  BY DEF Sound, Command

\* What an argument stands for is in its paths, and what of it is reached.
LEMMA ArgumentPaths ==
    ASSUME NEW arg \in Argument
    PROVE  /\ Listed(arg) \in SUBSET Paths
           /\ Named(arg) \in SUBSET Listed(arg)
           /\ Reached(arg) \in SUBSET Listed(arg)
           /\ \A f \in Listed(arg) \ Reached(arg) :
                 f \in LongPaths /\ f \notin Named(arg)
  BY DEF Argument, Listed, Named, Reached

LEMMA LookedIsSound ==
    ASSUME NEW c, Sound(c), NEW f \in Paths, NEW n \in Nat
    PROVE  Sound([c EXCEPT !.stage = "reading", !.path = f, !.size = n,
                           !.todo = @ \ {f}])
  BY DEF Sound, Command, Stages

LEMMA StoringIsSound ==
    ASSUME NEW c, Sound(c), c.path \in Paths, NEW o \in Objects
    PROVE  /\ Sound([c EXCEPT !.stage = "storing", !.blob = o])
           /\ [c EXCEPT !.stage = "storing", !.blob = o].stage = "storing"
           /\ [c EXCEPT !.stage = "storing", !.blob = o].blob = o
           /\ [c EXCEPT !.stage = "storing", !.blob = o].table = c.table
  BY DEF Sound, Command, Stages

LEMMA EnteredIsSound ==
    ASSUME NEW c, Sound(c), NEW f \in Paths, NEW o \in Objects
    PROVE  Sound([c EXCEPT !.stage = "walking", !.dirty = TRUE,
                           !.table[f] = o, !.got[f] = o])
<1>1. /\ [c.table EXCEPT ![f] = o] \in Table
      /\ [c.got EXCEPT ![f] = o] \in Table
  BY Fields DEF Table
<1> QED
  BY <1>1 DEF Sound, Command, Stages

LEMMA SavingIsSound ==
    ASSUME NEW c, Sound(c)
    PROVE  Sound([c EXCEPT !.stage = "saving"])
  BY DEF Sound, Command, Stages

-----------------------------------------------------------------------------
(* One process takes a step                                                *)

LEMMA CommandStep ==
    ASSUME CommandsOK, NEW p \in Processes, NEW c, Sound(c), Goes(p, c)
    PROVE  /\ CommandsOK'
           /\ cmd'[p] = c
           /\ \A q \in Processes \ {p} : cmd'[q] = cmd[q]
  BY DEF CommandsOK, Goes, Sound

\* A command that stays out of the store.
LEMMA CallsStay ==
    ASSUME CommandsOK, CallsOK, NEW p \in Processes, NEW c, Sound(c), Goes(p, c),
           UNCHANGED call, ~At(p, "storing"), c.stage # "storing"
    PROVE  CallsOK'
<1>1. /\ cmd'[p] = c
      /\ \A q \in Processes \ {p} : cmd'[q] = cmd[q]
  BY CommandStep
<1>2. ASSUME NEW q \in Processes
      PROVE  /\ At(q, "storing")' <=> call'[q] # Store!None
             /\ At(q, "storing")' => Store!IsWriting(q, Blob(cmd[q].blob))'
  BY <1>1 DEF CallsOK, At, Store!IsWriting, Blob, Store!None
<1> QED
  BY <1>2 DEF CallsOK

\* A command that goes into a call, or comes back from one.
LEMMA CallsFollow ==
    ASSUME CommandsOK, CallsOK, Store!TypeOK,
           NEW p \in Processes, NEW c, Sound(c), NEW d, Goes(p, c),
           call' = [call EXCEPT ![p] = d],
           c.stage = "storing" <=> d # Store!None,
           c.stage = "storing" => d.op = "write" /\ d.obj = c.blob
    PROVE  CallsOK'
<1>1. /\ cmd'[p] = c
      /\ \A q \in Processes \ {p} : cmd'[q] = cmd[q]
  BY CommandStep
<1>2. /\ call'[p] = d
      /\ \A q \in Processes \ {p} : call'[q] = call[q]
  BY DEF Store!TypeOK
<1>3. ASSUME NEW q \in Processes
      PROVE  /\ At(q, "storing")' <=> call'[q] # Store!None
             /\ At(q, "storing")' => Store!IsWriting(q, Blob(cmd[q].blob))'
  <2>1. CASE q = p
    BY <1>1, <1>2, <2>1 DEF At, Store!IsWriting, Blob, Store!None
  <2>2. CASE q # p
    BY <1>1, <1>2, <2>2 DEF CallsOK, At, Store!IsWriting, Blob, Store!None
  <2> QED
    BY <2>1, <2>2
<1> QED
  BY <1>3 DEF CallsOK

\* What a process in the store writes has data, and is of the right type.
LEMMA WritingFacts ==
    ASSUME NEW o, NEW n
    PROVE  /\ Store!Writing(o, n) # Store!None
           /\ Store!Writing(o, n).op = "write" /\ Store!Writing(o, n).obj = o
<1>1. Store!Writing(o, n).op = "write" /\ Store!Writing(o, n).obj = o
  BY DEF Store!Writing
<1>2. Store!None.op = "none"
  BY DEF Store!None
<1> QED
  BY <1>1, <1>2

LEMMA StoreMoves ==
    /\ UNCHANGED store => UNCHANGED Store!vars
    /\ \A p \in Processes :
        /\ Store!WritePiece(p) \/ Store!EndWrite(p) \/ Store!FailWrite(p)
              \/ Store!Crash(p) => Store!Next
        /\ \A o \in Objects :
              Store!BeginWrite(p, o) \/ Store!RefuseWrite(p, o) => Store!Next
  BY DEF store, Store!vars, Store!Next, Store!Start, Store!Advance

\* What a step does to the calls.
LEMMA CallChanges ==
    ASSUME NEW p \in Processes, NEW o
    PROVE  /\ Store!BeginWrite(p, o) =>
                /\ call[p] = Store!None
                /\ call' = [call EXCEPT ![p] = Store!Writing(o, 0)]
           /\ Store!RefuseWrite(p, o) =>
                /\ call[p] = Store!None
                /\ call' = [call EXCEPT ![p] = Store!None]
           /\ Store!WritePiece(p) =>
                call' = [call EXCEPT ![p] = Store!Writing(call[p].obj, call[p].pos + 1)]
           /\ Store!EndWrite(p) \/ Store!FailWrite(p) \/ Store!Crash(p) =>
                call' = [call EXCEPT ![p] = Store!None]
  BY DEF Store!BeginWrite, Store!RefuseWrite, Store!WritePiece, Store!EndWrite,
         Store!FailWrite, Store!Crash, Store!Returns, Store!Starts

LEMMA StartSteps ==
    ASSUME StagingInv, NEW p \in Processes,
           Begin(p) \/ BeginFails(p) \/ BeginHash(p) \/ RefuseHash(p)
    PROVE  FilesOK' /\ CommandsOK' /\ CallsOK' /\ UNCHANGED store
<1> USE DEF StagingInv
<1>c. Sound(cmd[p])
  BY DEF CommandsOK
<1>n. cmd[p].runs > 0 => cmd[p].runs - 1 \in 0..MaxRuns
  BY <1>c, Fields, StagingAssumption
<1>o. UNCHANGED store => UNCHANGED call
  BY DEF store
<1>1. CASE Begin(p)
  <2>1. PICK as \in Arguments :
          Goes(p, [Off(cmd[p].runs - 1) EXCEPT
                     !.stage = "walking", !.args = as,
                     !.table = IF index = Nothing THEN Blank ELSE index,
                     !.dirty = index # Nothing])
    BY <1>1 DEF Begin
  <2> DEFINE t == IF index = Nothing THEN Blank ELSE index
             c == [Off(cmd[p].runs - 1) EXCEPT
                     !.stage = "walking", !.args = as,
                     !.table = t, !.dirty = index # Nothing]
  <2>2. t \in Table /\ (index # Nothing) \in BOOLEAN
    BY <1>1 DEF Begin, FilesOK, Blank, Table
  <2>3. Sound(c)
    BY <1>n, <1>1, <2>2, StartedIsSound DEF Begin
  <2>4. c.stage = "walking"
    BY DEF Off
  <2>5. CommandsOK' /\ CallsOK'
    <3> HIDE DEF c
    <3> QED
      BY <1>1, <1>o, <2>1, <2>3, <2>4, CommandStep, CallsStay DEF Begin, At, c
  <2>6. FilesOK'
    BY <1>1 DEF Begin, FilesOK
  <2> QED
    BY <1>1, <2>5, <2>6 DEF Begin
<1>2. CASE BeginFails(p) \/ RefuseHash(p)
  <2>1. /\ Goes(p, Off(cmd[p].runs - 1)) /\ cmd[p].runs > 0
        /\ exit' = [exit EXCEPT ![p] = "ERROR"]
        /\ UNCHANGED <<work, past, edits, index, last, store>> /\ At(p, "off")
    BY <1>2 DEF BeginFails, RefuseHash
  <2>2. Sound(Off(cmd[p].runs - 1)) /\ Off(cmd[p].runs - 1).stage = "off"
    BY <1>n, <2>1, OffIsSound
  <2>3. CommandsOK' /\ CallsOK'
    BY <1>o, <2>1, <2>2, CommandStep, CallsStay DEF At
  <2>4. FilesOK'
    BY <2>1 DEF FilesOK
  <2> QED
    BY <2>1, <2>3, <2>4
<1>3. CASE BeginHash(p)
  <2>1. PICK f \in Paths \ UnsafePaths, keeps \in BOOLEAN :
          /\ work[f] # Nothing
          /\ Goes(p, [Off(cmd[p].runs - 1) EXCEPT
                        !.stage = "hashing", !.op = "hash", !.path = f,
                        !.held = work[f], !.size = Len(work[f]), !.keeps = keeps])
    BY <1>3 DEF BeginHash
  <2> DEFINE c == [Off(cmd[p].runs - 1) EXCEPT
                     !.stage = "hashing", !.op = "hash", !.path = f,
                     !.held = work[f], !.size = Len(work[f]), !.keeps = keeps]
  <2>2. work[f] \in Contents
    BY <2>1 DEF FilesOK
  <2>3. Sound(c)
    BY <1>n, <1>3, <2>2, HashStartedIsSound DEF BeginHash
  <2>4. c.stage = "hashing"
    BY DEF Off
  <2>5. CommandsOK' /\ CallsOK'
    <3> HIDE DEF c
    <3> QED
      BY <1>3, <1>o, <2>1, <2>3, <2>4, CommandStep, CallsStay DEF BeginHash, At, c
  <2>6. FilesOK'
    BY <1>3 DEF BeginHash, FilesOK
  <2> QED
    BY <1>3, <2>5, <2>6 DEF BeginHash
<1> QED
  BY <1>1, <1>2, <1>3

\* The end of a command: what it leaves behind, and what it says.
LEMMA EndFacts ==
    ASSUME FilesOK, CommandsOK, NEW p \in Processes,
           NEW status \in {"OK", "ERROR", "killed"}, NEW n \in 0..MaxRuns
    PROVE  /\ Sound(Off(n)) /\ Off(n).stage # "storing"
           /\ cmd[p].runs \in 0..MaxRuns
           /\ Status(p) \in {"OK", "ERROR"}
           /\ [exit EXCEPT ![p] = status]
                \in [Processes -> {"none", "OK", "ERROR", "killed"}]
<1>1. cmd[p].runs \in 0..MaxRuns
  BY Fields DEF CommandsOK
<1> QED
  BY <1>1, OffIsSound DEF Status, FilesOK

LEMMA WalkSteps ==
    ASSUME StagingInv, NEW p \in Processes,
           \/ NextArgument(p) \/ RefuseArgument(p) \/ PassOver(p) \/ Stat(p)
           \/ ReadFails(p)
           \/ EndWithoutSave(p) \/ BeginSave(p) \/ EndSave(p)
    PROVE  FilesOK' /\ CommandsOK' /\ CallsOK' /\ UNCHANGED store
<1> USE DEF StagingInv
<1>c. Sound(cmd[p])
  BY DEF CommandsOK
<1>o. UNCHANGED store => UNCHANGED call
  BY DEF store
<1>g. ASSUME NEW c, Sound(c), Goes(p, c), c.stage # "storing",
             ~At(p, "storing"), UNCHANGED store
      PROVE  CommandsOK' /\ CallsOK'
  BY <1>g, <1>o, CommandStep, CallsStay
<1>f. ASSUME Fails(p), ~At(p, "storing"), UNCHANGED store
      PROVE  CommandsOK' /\ CallsOK'
  <2> DEFINE c == [cmd[p] EXCEPT !.stage = "walking", !.todo = {}, !.failed = TRUE]
  <2>1. Sound(c) /\ Goes(p, c)
    BY <1>c, <1>f, FailedIsSound DEF Fails
  <2>2. c.stage = "walking"
    BY <1>c DEF Sound, Command
  <2> HIDE DEF c
  <2> QED
    BY <1>f, <1>g, <2>1, <2>2
<1>1. CASE NextArgument(p) \/ RefuseArgument(p)
  <2> DEFINE arg == Head(cmd[p].args)
             l == Listed(arg)
             n == Named(arg)
             t == Reached(arg)
             c == [cmd[p] EXCEPT !.args = Tail(@), !.asked = @ \cup l,
                                 !.named = @ \cup n, !.todo = t]
             d == [cmd[p] EXCEPT !.args = Tail(@), !.asked = @ \cup l,
                                 !.named = @ \cup n, !.failed = TRUE]
  <2>1. /\ Goes(p, c) \/ Goes(p, d)
        /\ cmd[p].stage = "walking" /\ cmd[p].args # <<>>
        /\ UNCHANGED <<work, past, edits, index, exit, last, store>>
    BY <1>1 DEF NextArgument, RefuseArgument, At
  <2>2. arg \in Argument
    BY <1>c, <2>1, Fields
  <2> HIDE DEF arg
  <2>3. l \in SUBSET Paths /\ n \in SUBSET l /\ t \in SUBSET l
    BY <2>2, ArgumentPaths
  <2> HIDE DEF l, n, t
  <2>5. Sound(c) /\ Sound(d)
    BY <1>c, <2>1, <2>3, ArgumentIsSound
  <2>6. c.stage = "walking" /\ d.stage = "walking"
    BY <1>c, <2>1 DEF Sound, Command
  <2> HIDE DEF c, d
  <2>7. CommandsOK' /\ CallsOK'
    BY <1>g, <2>1, <2>5, <2>6 DEF At
  <2>8. FilesOK'
    BY <2>1 DEF FilesOK
  <2> QED
    BY <2>1, <2>7, <2>8
<1>p. CASE PassOver(p)
  <2>1. PICK f : Goes(p, [cmd[p] EXCEPT !.todo = @ \ {f}])
    BY <1>p DEF PassOver
  <2> DEFINE c == [cmd[p] EXCEPT !.todo = @ \ {f}]
  <2>2. Sound(c) /\ c.stage = cmd[p].stage
    BY <1>c, PassedIsSound DEF Sound, Command
  <2>3. Goes(p, c)
    BY <2>1
  <2> HIDE DEF c
  <2>4. CommandsOK' /\ CallsOK'
    BY <1>p, <1>g, <2>2, <2>3 DEF PassOver, At
  <2>5. FilesOK'
    BY <1>p DEF PassOver, FilesOK
  <2> QED
    BY <1>p, <2>4, <2>5 DEF PassOver
<1>2. CASE Stat(p)
  <2>1. PICK f \in cmd[p].todo :
          \/ Fails(p)
          \/ /\ work[f] # Nothing
             /\ Goes(p, [cmd[p] EXCEPT !.stage = "reading", !.path = f,
                                       !.size = Len(work[f]), !.todo = @ \ {f}])
    BY <1>2 DEF Stat
  <2>2. f \in Paths
    BY <1>c, Fields
  <2> DEFINE c == [cmd[p] EXCEPT !.stage = "reading", !.path = f,
                                 !.size = Len(work[f]), !.todo = @ \ {f}]
  <2>3. ASSUME work[f] # Nothing
        PROVE  Sound(c) /\ c.stage = "reading"
    <3>1. Len(work[f]) \in Nat
      BY <2>2, <2>3, StagingAssumption DEF FilesOK
    <3>2. Sound(c)
      BY <1>c, <2>2, <3>1, LookedIsSound
    <3> QED
      BY <1>c, <3>2 DEF Sound, Command
  <2> HIDE DEF c
  <2>4. CommandsOK' /\ CallsOK'
    BY <1>2, <1>f, <1>g, <2>1, <2>3 DEF Stat, At, c
  <2>5. FilesOK'
    BY <1>2 DEF Stat, FilesOK
  <2> QED
    BY <1>2, <2>4, <2>5 DEF Stat
<1>3. CASE ReadFails(p)
  <2>1. CommandsOK' /\ CallsOK'
    BY <1>3, <1>f DEF ReadFails, At
  <2>2. FilesOK'
    BY <1>3 DEF ReadFails, FilesOK
  <2> QED
    BY <1>3, <2>1, <2>2 DEF ReadFails
<1>e. ASSUME NEW status \in {"OK", "ERROR"}, Exits(p, status),
             ~At(p, "storing"), UNCHANGED store
      PROVE  /\ CommandsOK' /\ CallsOK'
             /\ exit' \in [Processes -> {"none", "OK", "ERROR", "killed"}]
  <2>1. cmd[p].runs \in 0..MaxRuns
    BY <1>c, Fields
  <2>2. /\ Sound(Off(cmd[p].runs)) /\ Off(cmd[p].runs).stage # "storing"
        /\ [exit EXCEPT ![p] = status]
                \in [Processes -> {"none", "OK", "ERROR", "killed"}]
    BY <2>1, EndFacts
  <2> QED
    BY <1>e, <1>g, <2>2 DEF Exits
<1>s. Status(p) \in {"OK", "ERROR"}
  BY DEF Status
<1>4. CASE EndWithoutSave(p)
  <2>1. PICK status \in {"OK", "ERROR"} : Exits(p, status)
    BY <1>4, <1>s DEF EndWithoutSave
  <2>2. ~At(p, "storing") /\ UNCHANGED <<work, past, edits, index, last, store>>
    BY <1>4 DEF EndWithoutSave, Walked, At
  <2>3. CommandsOK' /\ CallsOK'
        /\ exit' \in [Processes -> {"none", "OK", "ERROR", "killed"}]
    BY <1>e, <2>1, <2>2
  <2> QED
    BY <2>2, <2>3 DEF FilesOK
<1>5. CASE BeginSave(p)
  <2> DEFINE c == [cmd[p] EXCEPT !.stage = "saving"]
  <2>1. Sound(c) /\ c.stage = "saving"
    BY <1>c, SavingIsSound DEF Sound, Command
  <2> HIDE DEF c
  <2>2. CommandsOK' /\ CallsOK'
    BY <1>5, <1>g, <2>1 DEF BeginSave, Walked, At, c
  <2>3. FilesOK'
    BY <1>5 DEF BeginSave, FilesOK
  <2> QED
    BY <1>5, <2>2, <2>3 DEF BeginSave
<1>6. CASE EndSave(p)
  <2>1. /\ ~At(p, "storing") /\ Exits(p, Status(p))
        /\ UNCHANGED <<work, past, edits, store>>
        /\ \/ index' = cmd[p].table /\ last' = cmd[p].table
           \/ UNCHANGED <<index, last>>
    BY <1>6 DEF EndSave, At
  <2>2. CommandsOK' /\ CallsOK'
        /\ exit' \in [Processes -> {"none", "OK", "ERROR", "killed"}]
    BY <1>e, <1>s, <2>1
  <2>3. cmd[p].table \in Table
    BY <1>c, Fields
  <2> QED
    BY <2>1, <2>2, <2>3 DEF FilesOK
<1> QED
  BY <1>1, <1>p, <1>2, <1>3, <1>4, <1>5, <1>6

LEMMA StoreSteps ==
    ASSUME StagingInv, NEW p \in Processes,
           \/ Read(p) \/ Refused(p) \/ StorePiece(p) \/ Stored(p) \/ NotStored(p)
           \/ Hash(p) \/ HashFails(p) \/ HashStored(p) \/ HashNotStored(p)
           \/ Crash(p)
    PROVE  FilesOK' /\ CommandsOK' /\ CallsOK' /\ [Store!Next]_(Store!vars)
<1> USE DEF StagingInv
<1>c. Sound(cmd[p])
  BY DEF CommandsOK
<1>n. cmd[p].runs \in 0..MaxRuns /\ 0 \in 0..MaxRuns
  BY <1>c, Fields, StagingAssumption
<1>s. UNCHANGED store => UNCHANGED call
  BY DEF store
<1>k. ASSUME UNCHANGED <<work, past, edits, index, last>>,
             exit' \in [Processes -> {"none", "OK", "ERROR", "killed"}]
      PROVE  FilesOK'
  BY <1>k DEF FilesOK
<1>x. ASSUME UNCHANGED exit
      PROVE  exit' \in [Processes -> {"none", "OK", "ERROR", "killed"}]
  BY <1>x DEF FilesOK
<1>q. ASSUME NEW c, Sound(c), c.stage # "storing", Goes(p, c),
             \/ call' = [call EXCEPT ![p] = Store!None]
             \/ UNCHANGED store /\ ~At(p, "storing")
      PROVE  CommandsOK' /\ CallsOK'
  <2>1. CASE call' = [call EXCEPT ![p] = Store!None]
    BY <1>q, <2>1, CommandStep, CallsFollow
  <2>2. CASE UNCHANGED store /\ ~At(p, "storing")
    BY <1>q, <1>s, <2>2, CommandStep, CallsStay
  <2> QED
    BY <1>q, <2>1, <2>2
<1>f. ASSUME Fails(p), call' = [call EXCEPT ![p] = Store!None]
      PROVE  CommandsOK' /\ CallsOK'
  <2> DEFINE c == [cmd[p] EXCEPT !.stage = "walking", !.todo = {}, !.failed = TRUE]
  <2>1. Sound(c) /\ Goes(p, c)
    BY <1>c, <1>f, FailedIsSound DEF Fails
  <2>2. c.stage = "walking"
    BY <1>c DEF Sound, Command
  <2> HIDE DEF c
  <2> QED
    BY <1>f, <1>q, <2>1, <2>2
<1>e. ASSUME NEW status \in {"OK", "ERROR"}, Exits(p, status),
             \/ call' = [call EXCEPT ![p] = Store!None]
             \/ UNCHANGED store /\ ~At(p, "storing")
      PROVE  /\ CommandsOK' /\ CallsOK'
             /\ exit' \in [Processes -> {"none", "OK", "ERROR", "killed"}]
  <2>1. /\ Sound(Off(cmd[p].runs)) /\ Off(cmd[p].runs).stage # "storing"
        /\ [exit EXCEPT ![p] = status]
                \in [Processes -> {"none", "OK", "ERROR", "killed"}]
    BY <1>n, EndFacts
  <2> QED
    BY <1>e, <1>q, <2>1 DEF Exits
<1>w. ASSUME NEW o \in Objects, cmd[p].path \in Paths, Store!BeginWrite(p, o),
             Goes(p, [cmd[p] EXCEPT !.stage = "storing", !.blob = o])
      PROVE  CommandsOK' /\ CallsOK' /\ Store!Next
  <2> DEFINE c == [cmd[p] EXCEPT !.stage = "storing", !.blob = o]
  <2>1. Sound(c) /\ c.stage = "storing" /\ c.blob = o
    BY <1>c, <1>w, StoringIsSound
  <2>2. call' = [call EXCEPT ![p] = Store!Writing(o, 0)]
    BY <1>w, CallChanges
  <2> DEFINE d == Store!Writing(o, 0)
  <2>3. d # Store!None /\ d.op = "write" /\ d.obj = o
    BY WritingFacts
  <2>4. Goes(p, c) /\ call' = [call EXCEPT ![p] = d]
    BY <1>w, <2>2
  <2> HIDE DEF c, d
  <2>5. CommandsOK'
    BY <2>1, <2>4, CommandStep
  <2>6. CallsOK'
    BY <2>1, <2>3, <2>4, CallsFollow
  <2> QED
    BY <1>w, <2>5, <2>6, StoreMoves
<1>b. ASSUME cmd[p].path \in Paths, CanRead(p)
      PROVE  BytesRead(p) \in Objects
  <2>1. work[cmd[p].path] \in Contents /\ cmd[p].size \in Nat
        /\ cmd[p].size <= Len(work[cmd[p].path])
    <3>1. work[cmd[p].path] \in Contents
      BY <1>b DEF CanRead, FilesOK
    <3>2. Len(work[cmd[p].path]) \in Nat /\ cmd[p].size \in Nat
      BY <1>c, <3>1, Fields, StagingAssumption
    <3> QED
      BY <1>b, <3>1, <3>2 DEF CanRead
  <2> QED
    BY <2>1, Beginnings DEF BytesRead
<1>1. CASE Read(p)
  <2>1. cmd[p].path \in Paths
    BY <1>1, <1>c DEF Read, At, Sound
  <2>2. BytesRead(p) \in Objects
    BY <1>1, <1>b, <2>1 DEF Read
  <2>3. CommandsOK' /\ CallsOK' /\ Store!Next
    BY <1>1, <1>w, <2>1, <2>2 DEF Read, Blob
  <2> QED
    BY <1>1, <1>k, <1>x, <2>3 DEF Read
<1>2. CASE Refused(p)
  <2>1. cmd[p].path \in Paths
    BY <1>2, <1>c DEF Refused, At, Sound
  <2>2. BytesRead(p) \in Objects
    BY <1>2, <1>b, <2>1 DEF Refused
  <2>3. Store!RefuseWrite(p, BytesRead(p)) /\ Fails(p)
    BY <1>2 DEF Refused, Blob
  <2>4. call' = [call EXCEPT ![p] = Store!None] /\ Store!Next
    BY <2>2, <2>3, CallChanges, StoreMoves
  <2>5. CommandsOK' /\ CallsOK'
    BY <1>f, <2>3, <2>4
  <2> QED
    BY <1>2, <1>k, <1>x, <2>4, <2>5 DEF Refused
<1>3. CASE StorePiece(p)
  <2>1. /\ call' = [call EXCEPT ![p] = Store!Writing(call[p].obj, call[p].pos + 1)]
        /\ Store!Next
    BY <1>3, CallChanges, StoreMoves DEF StorePiece
  <2>2. cmd' = cmd /\ At(p, "storing")
    BY <1>3 DEF StorePiece
  <2>3. Goes(p, cmd[p])
    BY <2>2 DEF Goes, CommandsOK
  <2>4. cmd[p].stage = "storing" /\ call[p].obj = cmd[p].blob
    BY <2>2 DEF At, CallsOK, Store!IsWriting, Blob
  <2> DEFINE d == Store!Writing(call[p].obj, call[p].pos + 1)
  <2>5. d # Store!None /\ d.op = "write" /\ d.obj = cmd[p].blob
    BY <2>4, WritingFacts
  <2>6. call' = [call EXCEPT ![p] = d]
    BY <2>1
  <2> HIDE DEF d
  <2>7. CommandsOK'
    BY <1>c, <2>3, CommandStep
  <2>8. CallsOK'
    BY <1>c, <2>3, <2>4, <2>5, <2>6, CallsFollow
  <2> QED
    BY <1>3, <1>k, <1>x, <2>1, <2>7, <2>8 DEF StorePiece
<1>4. CASE Stored(p)
  <2> DEFINE f == cmd[p].path
             o == cmd[p].blob
             c == [cmd[p] EXCEPT !.stage = "walking", !.dirty = TRUE,
                                 !.table[f] = o, !.got[f] = o]
  <2>1. f \in Paths /\ o \in Objects
    BY <1>4, <1>c DEF Stored, At, Sound
  <2>2. Sound(c)
    BY <1>c, <2>1, EnteredIsSound
  <2>3. c.stage = "walking"
    BY <1>c DEF Sound, Command
  <2>4. call' = [call EXCEPT ![p] = Store!None] /\ Store!Next /\ Goes(p, c)
    BY <1>4, CallChanges, StoreMoves DEF Stored
  <2> HIDE DEF c
  <2>5. CommandsOK' /\ CallsOK'
    BY <1>q, <2>2, <2>3, <2>4
  <2> QED
    BY <1>4, <1>k, <1>x, <2>4, <2>5 DEF Stored
<1>5. CASE NotStored(p)
  <2>1. call' = [call EXCEPT ![p] = Store!None] /\ Store!Next /\ Fails(p)
    BY <1>5, CallChanges, StoreMoves DEF NotStored
  <2>2. CommandsOK' /\ CallsOK'
    BY <1>f, <2>1
  <2> QED
    BY <1>5, <1>k, <1>x, <2>1, <2>2 DEF NotStored
<1>h. ASSUME At(p, "hashing"), NEW c \in HeldNow(p), cmd[p].size \in 1..Len(c)
      PROVE  cmd[p].path \in Paths /\ SubSeq(c, 1, cmd[p].size) \in Objects
  <2>1. cmd[p].path \in Paths
    BY <1>c, <1>h DEF At, Sound
  <2>2. c \in Contents
    BY <1>c, <2>1, Fields DEF HeldNow, FilesOK
  <2>3. cmd[p].size \in Nat /\ cmd[p].size <= Len(c)
    BY <1>h, <2>2, StagingAssumption
  <2> QED
    BY <2>1, <2>2, <2>3, Beginnings
<1>6. CASE Hash(p)
  <2>1. PICK c \in HeldNow(p) :
          /\ cmd[p].size \in 1..Len(c)
          /\ \/ /\ Store!BeginWrite(p, SubSeq(c, 1, cmd[p].size))
                /\ Goes(p, [cmd[p] EXCEPT !.stage = "storing",
                                          !.blob = SubSeq(c, 1, cmd[p].size)])
                /\ UNCHANGED exit
             \/ Exits(p, "OK") /\ UNCHANGED store
    BY <1>6 DEF Hash, Blob
  <2>2. cmd[p].path \in Paths /\ SubSeq(c, 1, cmd[p].size) \in Objects
    BY <1>6, <1>h, <2>1 DEF Hash
  <2>3. ~At(p, "storing")
    BY <1>6 DEF Hash, At
  <2>4. /\ CommandsOK' /\ CallsOK' /\ [Store!Next]_(Store!vars)
        /\ exit' \in [Processes -> {"none", "OK", "ERROR", "killed"}]
    BY <1>e, <1>w, <1>x, <2>1, <2>2, <2>3, StoreMoves
  <2> QED
    BY <1>6, <1>k, <2>4 DEF Hash
<1>7. CASE HashFails(p)
  <2>1. PICK c \in HeldNow(p) :
          \/ UNCHANGED store
          \/ /\ cmd[p].size \in 1..Len(c)
             /\ Store!RefuseWrite(p, SubSeq(c, 1, cmd[p].size))
    BY <1>7 DEF HashFails, Blob
  <2>2. ~At(p, "storing") /\ At(p, "hashing") /\ Exits(p, "ERROR")
    BY <1>7 DEF HashFails, At
  <2>3. /\ [Store!Next]_(Store!vars)
        /\ \/ UNCHANGED store
           \/ call' = [call EXCEPT ![p] = Store!None]
    BY <1>h, <2>1, <2>2, CallChanges, StoreMoves
  <2>4. /\ CommandsOK' /\ CallsOK'
        /\ exit' \in [Processes -> {"none", "OK", "ERROR", "killed"}]
    BY <1>e, <2>2, <2>3
  <2> QED
    BY <1>7, <1>k, <2>3, <2>4 DEF HashFails
<1>8. CASE HashStored(p) \/ HashNotStored(p)
  <2>1. /\ call' = [call EXCEPT ![p] = Store!None] /\ Store!Next
        /\ UNCHANGED <<work, past, edits, index, last>>
    BY <1>8, CallChanges, StoreMoves DEF HashStored, HashNotStored
  <2> PICK status \in {"OK", "ERROR"} : Exits(p, status)
    BY <1>8 DEF HashStored, HashNotStored
  <2>2. /\ CommandsOK' /\ CallsOK'
        /\ exit' \in [Processes -> {"none", "OK", "ERROR", "killed"}]
    BY <1>e, <2>1
  <2> QED
    BY <1>k, <2>1, <2>2
<1>9. CASE Crash(p)
  <2>1. Sound(Off(0)) /\ Off(0).stage # "storing"
    BY <1>n, OffIsSound
  <2>2. /\ Goes(p, Off(0)) /\ exit' = [exit EXCEPT ![p] = "killed"]
        /\ UNCHANGED <<work, past, edits, index, last>>
        /\ \/ Store!Crash(p)
           \/ ~At(p, "storing") /\ UNCHANGED store
    BY <1>9 DEF Crash
  <2>3. /\ [Store!Next]_(Store!vars)
        /\ \/ call' = [call EXCEPT ![p] = Store!None]
           \/ UNCHANGED store /\ ~At(p, "storing")
    BY <2>2, CallChanges, StoreMoves
  <2>4. CommandsOK' /\ CallsOK'
    BY <1>q, <2>1, <2>2, <2>3
  <2>5. exit' \in [Processes -> {"none", "OK", "ERROR", "killed"}]
    BY <2>2 DEF FilesOK
  <2> QED
    BY <1>k, <2>2, <2>3, <2>4, <2>5
<1> QED
  BY <1>1, <1>2, <1>3, <1>4, <1>5, <1>6, <1>7, <1>8, <1>9

-----------------------------------------------------------------------------
(* The store the commands share, and their types                           *)

LEMMA StepStaging ==
    StagingInv /\ StoreProofs!WritersHaveData /\ [Next]_vars =>
        /\ StagingInv' /\ StoreProofs!WritersHaveData'
        /\ [Store!Next]_(Store!vars)
<1> SUFFICES ASSUME StagingInv, StoreProofs!WritersHaveData, [Next]_vars
             PROVE  /\ StagingInv' /\ StoreProofs!WritersHaveData'
                    /\ [Store!Next]_(Store!vars)
  OBVIOUS
<1>1. /\ FilesOK' /\ CommandsOK' /\ CallsOK'
      /\ [Store!Next]_(Store!vars)
  <2>1. CASE UNCHANGED vars
    <3>1. UNCHANGED <<FilesOK, CommandsOK, CallsOK>>
      BY <2>1 DEF vars, store, FilesOK, CommandsOK, CallsOK, At, Sound,
                  Store!IsWriting
    <3> QED
      BY <2>1, <3>1, StoreMoves DEF vars, StagingInv
  <2>2. ASSUME NEW p \in Processes,
               Begin(p) \/ BeginFails(p) \/ BeginHash(p) \/ RefuseHash(p)
        PROVE  /\ FilesOK' /\ CommandsOK' /\ CallsOK' /\ UNCHANGED store
    BY <2>2, StartSteps
  <2>3. ASSUME NEW p \in Processes, Step(p) \/ Crash(p)
        PROVE  /\ FilesOK' /\ CommandsOK' /\ CallsOK'
               /\ [Store!Next]_(Store!vars)
    BY <2>3, WalkSteps, StoreSteps, StoreMoves DEF Step
  <2>4. ASSUME NEW f \in Paths, Edit(f)
        PROVE  /\ FilesOK' /\ CommandsOK' /\ CallsOK' /\ UNCHANGED store
    <3>1. /\ edits' \in 0..MaxEdits
          /\ UNCHANGED <<index, cmd, exit, last, store>>
      BY <2>4, StagingAssumption DEF Edit, StagingInv, FilesOK
    <3>2. /\ work' \in [Paths -> Contents \cup {Nothing}]
          /\ past' \in [Paths -> SUBSET Contents]
      BY <2>4 DEF Edit, StagingInv, FilesOK
    <3> QED
      BY <3>1, <3>2 DEF store, StagingInv, FilesOK, CommandsOK, CallsOK, At, Sound,
                        Store!IsWriting
  <2> QED
    BY <2>1, <2>2, <2>3, <2>4, StoreMoves DEF Next
<1>2. StoreProofs!TypeOK' /\ StoreProofs!WritersHaveData'
  <2>1. StoreProofs!TypeOK /\ [StoreProofs!Next]_(StoreProofs!vars)
    BY <1>1, SameStore DEF StagingInv
  <2> QED
    BY <2>1, StoreAssumptions, StoreProofs!StepStoreType
<1>3. Store!TypeOK'
  BY <1>2, SameStore
<1> QED
  BY <1>1, <1>2, <1>3 DEF StagingInv

LEMMA InitStaging == Init => StagingInv /\ StoreProofs!WritersHaveData
<1> SUFFICES ASSUME Init PROVE StagingInv /\ StoreProofs!WritersHaveData
  OBVIOUS
<1>1. Store!Init /\ StoreProofs!Init
  BY SameStore DEF Init
<1>2. Store!TypeOK
  BY <1>1, SameStore, StoreAssumptions, StoreProofs!InitStoreType
<1>3. MaxRuns \in 0..MaxRuns /\ MaxEdits \in 0..MaxEdits
  BY StagingAssumption
<1>4. Sound(Off(MaxRuns)) /\ Off(MaxRuns).stage = "off"
  BY <1>3, OffIsSound
<1>5. Sound(Off(MaxRuns)) => Off(MaxRuns) \in Command
  BY DEF Sound
<1>6. CommandsOK
  BY <1>4, <1>5 DEF Init, CommandsOK
<1>7. CallsOK
  BY <1>1, <1>4 DEF Init, CallsOK, At, Store!Init
<1>8. FilesOK
  BY <1>3, StagingAssumption DEF Init, FilesOK, Blank, Table
<1>9. StoreProofs!WritersHaveData
  <2>1. StoreProofs!None.op = "none"
    BY DEF StoreProofs!None
  <2> QED
    BY <1>1, <2>1 DEF StoreProofs!Init, StoreProofs!WritersHaveData
<1> QED
  BY <1>2, <1>6, <1>7, <1>8, <1>9 DEF StagingInv

LEMMA SameSpec == Store!Spec => StoreProofs!Spec
<1>1. Store!Init => StoreProofs!Init
  BY SameStore
<1>2. [Store!Next]_(Store!vars) => [StoreProofs!Next]_(StoreProofs!vars)
  BY SameStore
<1> QED
  BY <1>1, <1>2, PTL DEF Store!Spec, StoreProofs!Spec

LEMMA StagingInvariant == Spec => []StagingInv
  BY InitStaging, StepStaging, PTL DEF Spec

\* Whatever the commands do, fail at or are killed in, what they do to the
\* object store is what git_object_write does: the commands together
\* implement its specification, with the processes' calls as its calls.
THEOREM StoreImplemented == Spec => Store!Spec
<1>1. Init => Store!Init
  BY DEF Init
<1> QED
  BY <1>1, InitStaging, StepStaging, PTL DEF Spec, Store!Spec

\* The types of the commands, and that a process is in a call of the store
\* exactly while it stores its blob, under every fault.
THEOREM CommandsTypeCorrect == Spec => []TypeOK
<1>1. StagingInv => TypeOK
  <2> SUFFICES ASSUME StagingInv PROVE TypeOK
    OBVIOUS
  <2>1. ASSUME NEW p \in Processes
        PROVE  /\ cmd[p].stage \in {"off", "walking", "reading", "storing",
                                    "saving", "hashing"}
               /\ cmd[p].runs \in 0..MaxRuns
               /\ cmd[p].todo \subseteq cmd[p].asked
               /\ cmd[p].named \subseteq cmd[p].asked
               /\ cmd[p].table \in Table
               /\ cmd[p].op \in {"add", "hash"}
    BY Fields DEF StagingInv, CommandsOK, Sound, Stages
  <2> QED
    BY <2>1 DEF StagingInv, FilesOK, CallsOK, TypeOK
<1> QED
  BY <1>1, StagingInvariant, PTL

\* What is proved of the object store holds of the store the commands share:
\* whatever failed or was killed, storing a blob once more repairs its file.
THEOREM BlobsRepaired == Spec => []StoreProofs!RepairedByRewrite
<1>1. StoreProofs!Spec => []StoreProofs!RepairedByRewrite
  BY StoreAssumptions, StoreProofs!RewriteRepairs
<1> QED
  BY <1>1, StoreImplemented, SameSpec, PTL

\* So the commands, too, see no more of the store than StoredObjects promises.
THEOREM BlobsAsPromised == Spec => StoreProofs!ImplementsStoredObjects
<1>1. StoreProofs!Spec => StoreProofs!ImplementsStoredObjects
  BY StoreAssumptions, StoreProofs!StoreImplementsObjects
<1> QED
  BY <1>1, StoreImplemented, SameSpec, PTL

-----------------------------------------------------------------------------
(* No entry before its blob                                                *)

TablesStored ==
    /\ \A p \in Processes : \A f \in Paths :
          cmd[p].table[f] # Nothing => cmd[p].table[f] \in stored
    /\ index \notin {Nothing, Torn} =>
          \A f \in Paths : index[f] # Nothing => index[f] \in stored
    /\ printed \subseteq stored

LEMMA TablesAreEntries == TablesStored => EntriesStored
  BY DEF TablesStored, EntriesStored, Blob

\* What the store has stored stays stored, and the call that ends stores its
\* object.
LEMMA StoredGrows ==
    /\ [Store!Next]_(Store!vars) => stored \subseteq stored'
    /\ \A p \in Processes : Store!EndWrite(p) => call[p].obj \in stored'
  BY DEF Store!Next, Store!vars, Store!Start, Store!Advance, Store!RefuseWrite,
         Store!BeginWrite, Store!WritePiece, Store!EndWrite, Store!FailWrite,
         Store!NotFound, Store!BeginRead, Store!ReadPiece, Store!EndRead,
         Store!FailRead, Store!Crash, Store!history

\* The table of p after a step of p.
TableFrom(p, t) ==
    \/ t = cmd[p].table
    \/ t = Blank
    \/ index \notin {Nothing, Torn} /\ t = index
    \/ /\ Store!EndWrite(p) /\ At(p, "storing") /\ cmd[p].path \in Paths
       /\ t = [cmd[p].table EXCEPT ![cmd[p].path] = cmd[p].blob]

LEMMA TableStep ==
    ASSUME StagingInv, NEW p \in Processes,
           \/ Begin(p) \/ BeginFails(p) \/ BeginHash(p) \/ RefuseHash(p)
           \/ Step(p) \/ Crash(p)
    PROVE  /\ TableFrom(p, cmd'[p].table)
           /\ \A q \in Processes \ {p} : cmd'[q] = cmd[q]
<1> USE DEF TableFrom
<1>c. Sound(cmd[p]) /\ cmd \in [Processes -> Command] /\ cmd[p] \in Command
  BY DEF StagingInv, CommandsOK, Sound
<1>g. ASSUME NEW c, Goes(p, c), TableFrom(p, c.table)
      PROVE  /\ TableFrom(p, cmd'[p].table)
             /\ \A q \in Processes \ {p} : cmd'[q] = cmd[q]
  BY <1>c, <1>g DEF Goes
<1>o. \A n : Off(n).table = Blank
  BY DEF Off
<1>e. ASSUME NEW status, Exits(p, status)
      PROVE  /\ TableFrom(p, cmd'[p].table)
             /\ \A q \in Processes \ {p} : cmd'[q] = cmd[q]
  BY <1>e, <1>g, <1>o DEF Exits
<1>f. ASSUME Fails(p)
      PROVE  /\ TableFrom(p, cmd'[p].table)
             /\ \A q \in Processes \ {p} : cmd'[q] = cmd[q]
  <2> DEFINE c == [cmd[p] EXCEPT !.stage = "walking", !.todo = {}, !.failed = TRUE]
  <2>1. c.table = cmd[p].table
    BY <1>c DEF Command
  <2>2. Goes(p, c)
    BY <1>f DEF Fails
  <2> HIDE DEF c
  <2> QED
    BY <1>g, <2>1, <2>2
<1>1. CASE Begin(p)
  <2>1. PICK as \in Arguments :
          Goes(p, [Off(cmd[p].runs - 1) EXCEPT
                     !.stage = "walking", !.args = as,
                     !.table = IF index = Nothing THEN Blank ELSE index,
                     !.dirty = index # Nothing])
    BY <1>1 DEF Begin
  <2> DEFINE t == IF index = Nothing THEN Blank ELSE index
             c == [Off(cmd[p].runs - 1) EXCEPT
                     !.stage = "walking", !.args = as,
                     !.table = t, !.dirty = index # Nothing]
  <2>2. c.table = t
    BY DEF Off
  <2>3. t = Blank \/ (index \notin {Nothing, Torn} /\ t = index)
    BY <1>1 DEF Begin
  <2>4. Goes(p, c)
    BY <2>1
  <2> HIDE DEF c, t
  <2> QED
    BY <1>g, <2>2, <2>3, <2>4
<1>2. CASE BeginFails(p) \/ RefuseHash(p) \/ Crash(p)
  <2>1. PICK n : Goes(p, Off(n))
    BY <1>2 DEF BeginFails, RefuseHash, Crash
  <2> QED
    BY <1>g, <1>o, <2>1
<1>3. CASE BeginHash(p)
  <2>1. PICK f \in Paths \ UnsafePaths, keeps \in BOOLEAN :
          Goes(p, [Off(cmd[p].runs - 1) EXCEPT
                     !.stage = "hashing", !.op = "hash", !.path = f,
                     !.held = work[f], !.size = Len(work[f]), !.keeps = keeps])
    BY <1>3 DEF BeginHash
  <2> DEFINE c == [Off(cmd[p].runs - 1) EXCEPT
                     !.stage = "hashing", !.op = "hash", !.path = f,
                     !.held = work[f], !.size = Len(work[f]), !.keeps = keeps]
  <2>2. c.table = Blank
    BY DEF Off
  <2>3. Goes(p, c)
    BY <2>1
  <2> HIDE DEF c
  <2> QED
    BY <1>g, <2>2, <2>3
<1>4. CASE NextArgument(p) \/ RefuseArgument(p) \/ PassOver(p)
  <2>1. ASSUME NEW a, NEW l, NEW n, NEW t,
               \/ Goes(p, [cmd[p] EXCEPT !.args = a, !.asked = l, !.named = n,
                                         !.todo = t])
               \/ Goes(p, [cmd[p] EXCEPT !.args = a, !.asked = l, !.named = n,
                                         !.failed = t])
               \/ Goes(p, [cmd[p] EXCEPT !.todo = t])
        PROVE  /\ TableFrom(p, cmd'[p].table)
               /\ \A q \in Processes \ {p} : cmd'[q] = cmd[q]
    <3> DEFINE c == [cmd[p] EXCEPT !.args = a, !.asked = l, !.named = n, !.todo = t]
               d == [cmd[p] EXCEPT !.args = a, !.asked = l, !.named = n, !.failed = t]
               e == [cmd[p] EXCEPT !.todo = t]
    <3>1. c.table = cmd[p].table /\ d.table = cmd[p].table /\ e.table = cmd[p].table
      BY <1>c DEF Command
    <3>2. Goes(p, c) \/ Goes(p, d) \/ Goes(p, e)
      BY <2>1
    <3> HIDE DEF c, d, e
    <3> QED
      BY <1>g, <3>1, <3>2
  <2>2. CASE NextArgument(p)
    BY <2>1, <2>2 DEF NextArgument
  <2>3. CASE RefuseArgument(p)
    BY <2>1, <2>3 DEF RefuseArgument
  <2>4. CASE PassOver(p)
    BY <2>1, <2>4 DEF PassOver
  <2> QED
    BY <1>4, <2>2, <2>3, <2>4
<1>5. CASE Stat(p)
  <2>1. PICK f \in cmd[p].todo \ Special :
          \/ Fails(p)
          \/ Goes(p, [cmd[p] EXCEPT !.stage = "reading", !.path = f,
                                    !.size = Len(work[f]), !.todo = @ \ {f}])
    BY <1>5 DEF Stat
  <2> DEFINE c == [cmd[p] EXCEPT !.stage = "reading", !.path = f,
                                 !.size = Len(work[f]), !.todo = @ \ {f}]
  <2>2. c.table = cmd[p].table
    BY <1>c DEF Command
  <2>3. Fails(p) \/ Goes(p, c)
    BY <2>1
  <2> HIDE DEF c
  <2> QED
    BY <1>f, <1>g, <2>2, <2>3
<1>6. CASE Read(p) \/ Hash(p)
  <2>1. \/ \E o : Goes(p, [cmd[p] EXCEPT !.stage = "storing", !.blob = o])
        \/ Exits(p, "OK")
    BY <1>6 DEF Read, Hash
  <2>2. ASSUME NEW o, Goes(p, [cmd[p] EXCEPT !.stage = "storing", !.blob = o])
        PROVE  /\ TableFrom(p, cmd'[p].table)
               /\ \A q \in Processes \ {p} : cmd'[q] = cmd[q]
    <3> DEFINE c == [cmd[p] EXCEPT !.stage = "storing", !.blob = o]
    <3>1. c.table = cmd[p].table
      BY <1>c DEF Command
    <3>2. Goes(p, c)
      BY <2>2
    <3> HIDE DEF c
    <3> QED
      BY <1>g, <3>1, <3>2
  <2> QED
    BY <1>e, <2>1, <2>2
<1>7. CASE ReadFails(p) \/ Refused(p) \/ NotStored(p)
  BY <1>7, <1>f DEF ReadFails, Refused, NotStored
<1>8. CASE StorePiece(p)
  BY <1>8 DEF StorePiece
<1>9. CASE Stored(p)
  <2> DEFINE f == cmd[p].path
             o == cmd[p].blob
             c == [cmd[p] EXCEPT !.stage = "walking", !.dirty = TRUE,
                                 !.table[f] = o, !.got[f] = o]
  <2>1. f \in Paths
    BY <1>9, <1>c DEF Stored, At, Sound
  <2>2. c.table = [cmd[p].table EXCEPT ![f] = o]
    BY <1>c DEF Command
  <2>3. Goes(p, c) /\ Store!EndWrite(p) /\ At(p, "storing")
    BY <1>9 DEF Stored
  <2> HIDE DEF c
  <2> QED
    BY <1>g, <2>1, <2>2, <2>3
<1>10. CASE BeginSave(p)
  <2> DEFINE c == [cmd[p] EXCEPT !.stage = "saving"]
  <2>1. c.table = cmd[p].table
    BY <1>c DEF Command
  <2>2. Goes(p, c)
    BY <1>10 DEF BeginSave
  <2> HIDE DEF c
  <2> QED
    BY <1>g, <2>1, <2>2
<1>11. CASE \/ EndWithoutSave(p) \/ EndSave(p) \/ HashFails(p)
            \/ HashStored(p) \/ HashNotStored(p)
  <2>1. PICK status : Exits(p, status)
    BY <1>11 DEF EndWithoutSave, EndSave, HashFails, HashStored, HashNotStored
  <2> QED
    BY <1>e, <2>1
<1> QED
  BY <1>1, <1>2, <1>3, <1>4, <1>5, <1>6, <1>7, <1>8, <1>9, <1>10, <1>11 DEF Step

LEMMA StepTables ==
    ASSUME StagingInv, TablesStored, [Next]_vars, stored \subseteq stored'
    PROVE  TablesStored'
<1>t. \A p \in Processes : \A f \in Paths :
          cmd[p].table[f] # Nothing => cmd[p].table[f] \in stored'
  BY DEF TablesStored
<1>i. index \notin {Nothing, Torn} =>
          \A f \in Paths : index[f] # Nothing => index[f] \in stored'
  BY DEF TablesStored
<1>p. printed \subseteq stored'
  BY DEF TablesStored
<1>b. ASSUME NEW p \in Processes, Store!EndWrite(p), At(p, "storing")
      PROVE  cmd[p].blob \in stored'
  <2>1. call[p].obj = cmd[p].blob
    BY <1>b DEF StagingInv, CallsOK, Store!IsWriting, Blob
  <2> QED
    BY <1>b, <2>1, StoredGrows
<1>k. ASSUME NEW p \in Processes, TableFrom(p, cmd'[p].table), NEW f \in Paths,
             cmd'[p].table[f] # Nothing
      PROVE  cmd'[p].table[f] \in stored'
  <2>1. CASE cmd'[p].table = cmd[p].table
    BY <1>k, <1>t, <2>1
  <2>2. CASE cmd'[p].table = Blank
    BY <1>k, <2>2 DEF Blank
  <2>3. CASE index \notin {Nothing, Torn} /\ cmd'[p].table = index
    BY <1>k, <1>i, <2>3
  <2>4. CASE /\ Store!EndWrite(p) /\ At(p, "storing") /\ cmd[p].path \in Paths
             /\ cmd'[p].table = [cmd[p].table EXCEPT ![cmd[p].path] = cmd[p].blob]
    <3>1. cmd[p].blob \in stored'
      BY <1>b, <2>4
    <3>2. cmd[p].table \in Table
      BY Fields DEF StagingInv, CommandsOK
    <3>3. cmd'[p].table[f] = IF f = cmd[p].path THEN cmd[p].blob
                             ELSE cmd[p].table[f]
      BY <2>4, <3>2 DEF Table
    <3> QED
      BY <1>k, <1>t, <3>1, <3>3
  <2> QED
    BY <1>k, <2>1, <2>2, <2>3, <2>4 DEF TableFrom
\* A step that leaves the index file and what was printed alone.
<1>q. ASSUME NEW p \in Processes, TableFrom(p, cmd'[p].table),
             \A q \in Processes \ {p} : cmd'[q] = cmd[q],
             \/ index' \in {index, Nothing, Torn}
             \/ index' = cmd[p].table,
             printed' \subseteq stored'
      PROVE  TablesStored'
  <2>1. \A q \in Processes : \A f \in Paths :
            cmd'[q].table[f] # Nothing => cmd'[q].table[f] \in stored'
    BY <1>k, <1>q, <1>t
  <2>2. index' \notin {Nothing, Torn} =>
            \A f \in Paths : index'[f] # Nothing => index'[f] \in stored'
    BY <1>q, <1>t, <1>i
  <2> QED
    BY <1>q, <2>1, <2>2 DEF TablesStored
<1>1. CASE UNCHANGED vars
  BY <1>1, <1>t, <1>i, <1>p DEF vars, TablesStored
<1>2. ASSUME NEW p \in Processes,
             Begin(p) \/ BeginFails(p) \/ BeginHash(p) \/ RefuseHash(p) \/ Crash(p)
             \/ NextArgument(p) \/ RefuseArgument(p) \/ PassOver(p) \/ Stat(p)
             \/ Read(p) \/ ReadFails(p) \/ Refused(p)
             \/ StorePiece(p) \/ Stored(p) \/ NotStored(p) \/ EndWithoutSave(p)
             \/ BeginSave(p) \/ Hash(p) \/ HashFails(p) \/ HashNotStored(p)
      PROVE  TablesStored'
  <2>1. index' \in {index, Torn} /\ printed' = printed
    BY <1>2 DEF Begin, BeginFails, BeginHash, RefuseHash, Crash, NextArgument,
                RefuseArgument, PassOver, Stat, Read, ReadFails, Refused, StorePiece, Stored, NotStored,
                EndWithoutSave, BeginSave, Hash, HashFails, HashNotStored
  <2> QED
    BY <1>2, <1>p, <1>q, <2>1, TableStep DEF Step
<1>3. ASSUME NEW p \in Processes, EndSave(p)
      PROVE  TablesStored'
  BY <1>3, <1>p, <1>q, TableStep DEF Step, EndSave
<1>4. ASSUME NEW p \in Processes, HashStored(p)
      PROVE  TablesStored'
  <2>1. printed' \subseteq stored' /\ index' = index
    BY <1>4, <1>b, <1>p DEF HashStored
  <2> QED
    BY <1>4, <1>q, <2>1, TableStep DEF Step
<1>5. ASSUME NEW f \in Paths, Edit(f)
      PROVE  TablesStored'
  BY <1>5, <1>t, <1>i, <1>p DEF Edit, TablesStored
<1> QED
  BY <1>1, <1>2, <1>3, <1>4, <1>5 DEF Next, Step

LEMMA TablesInvariant == Spec => [](TablesStored /\ StagingInv)
<1>1. Init => TablesStored
  <2>1. \A p \in Processes : Init => cmd[p].table = Blank
    BY DEF Init, Off
  <2> QED
    BY <2>1 DEF Init, TablesStored, Blank
<1>2. /\ StagingInv /\ StoreProofs!WritersHaveData /\ TablesStored /\ [Next]_vars
      => StagingInv' /\ StoreProofs!WritersHaveData' /\ TablesStored'
  BY StepStaging, StepTables, StoredGrows
<1> QED
  BY <1>1, <1>2, InitStaging, PTL DEF Spec

\* The blob comes before the entry and before its name is printed, whatever
\* fails and whoever is killed.
THEOREM BlobsFirst == Spec => []EntriesStored
  BY TablesInvariant, TablesAreEntries, PTL

\* Without failing writes and kills those blobs can be read, unless somebody
\* is storing them once more at this moment.
THEOREM BlobsReadable ==
    ASSUME Faults \cap {"write", "crash"} = {}
    PROVE  Spec => []EntriesReadable
<1>1. StoreProofs!NoFailure
  BY DEF StoreProofs!NoFailure
<1>2. StoreProofs!Spec => []StoreProofs!WholeWhenQuiet
  BY <1>1, StoreAssumptions, StoreProofs!QuietIsWhole
<1>3. StoreProofs!Spec => []StoreProofs!FilesRemain
  BY StoreAssumptions, StoreProofs!FilesStay
<1>4. TablesStored /\ StagingInv /\ StoreProofs!WholeWhenQuiet
        /\ StoreProofs!FilesRemain => EntriesReadable
  <2> SUFFICES ASSUME TablesStored, StagingInv, StoreProofs!WholeWhenQuiet,
                      StoreProofs!FilesRemain,
                      NEW c \in printed \cup (IF index \in {Nothing, Torn} THEN {}
                                   ELSE {index[f] : f \in Paths} \ {Nothing})
               PROVE  \/ there[Blob(c)] = 1..Pieces[Blob(c)]
                      \/ \E p \in Processes : Store!IsWriting(p, Blob(c))
    BY DEF EntriesReadable
  <2>1. c \in stored
    BY DEF TablesStored
  <2>2. c \in files
    BY <2>1 DEF StoreProofs!FilesRemain
  <2> QED
    BY <2>2 DEF StoreProofs!WholeWhenQuiet, StoreProofs!IsWriting,
                StoreProofs!Whole, Store!IsWriting, Blob
<1> QED
  BY <1>2, <1>3, <1>4, TablesInvariant, StoreImplemented, SameSpec, PTL

-----------------------------------------------------------------------------
(* What the commands say, and what they save                               *)

Passed(c, f) == f \in Special \/ (f \in LongPaths /\ f \notin c.named)

\* What a command has staged is in its table and makes it dirty; and as long
\* as nothing has failed, what it was asked for is staged, still to come, the
\* file it has before it, or passed over.
Right(c) ==
    /\ \A f \in Paths : c.got[f] # Nothing => c.table[f] = c.got[f] /\ c.dirty
    /\ c.stage = "hashing" => c.op = "hash"
    /\ c.op = "hash" => /\ c.stage \in {"hashing", "storing"}
                        /\ c.got = Blank /\ c.asked = {}
    /\ ~c.failed => \A f \in c.asked :
          c.got[f] # Nothing \/ f \in c.todo \/ Passed(c, f)
          \/ (c.stage \in {"reading", "storing"} /\ f = c.path)
    /\ c.stage = "saving" => c.todo = {}

CommandsRight ==
    \A p \in Processes : /\ Right(cmd[p])
                         /\ cmd[p].stage # "off" => exit[p] = "none"

\* What the index file said last is what it says, unless it is torn.
LastRight == index # Torn => last = IF index = Nothing THEN Blank ELSE index

\* What a fresh table has and add did not put there is what the index file
\* said last; and the file is torn while its command saves it.
FreshRight ==
    /\ fresh \subseteq Processes
    /\ \A p \in fresh :
        cmd[p].stage # "off" /\ cmd[p].op = "add" =>
            \A f \in Paths : cmd[p].got[f] = Nothing => cmd[p].table[f] = last[f]
    /\ \A p \in fresh : cmd[p].stage = "saving" => index = Torn

Kept == CommandsRight /\ LastRight /\ FreshRight

-----------------------------------------------------------------------------
(* One command                                                             *)

\* d is c some steps on: it has staged what c has, and perhaps more.
Furthers(c, d) ==
    /\ d.op = c.op /\ d.stage # "off"
    /\ \A f \in Paths : d.got[f] = Nothing =>
          c.got[f] = Nothing /\ d.table[f] = c.table[f]

LEMMA OffIsRight ==
    ASSUME NEW n PROVE Right(Off(n)) /\ Off(n).stage = "off"
  BY DEF Off, Right, Blank

LEMMA FailedIsRight ==
    ASSUME NEW c, Sound(c), Right(c), c.op = "add"
    PROVE  LET d == [c EXCEPT !.stage = "walking", !.todo = {}, !.failed = TRUE]
           IN Right(d) /\ Furthers(c, d) /\ d.stage # "saving"
<1> DEFINE d == [c EXCEPT !.stage = "walking", !.todo = {}, !.failed = TRUE]
<1>1. /\ d.stage = "walking" /\ d.todo = {} /\ d.failed = TRUE /\ d.op = c.op
      /\ d.got = c.got /\ d.table = c.table /\ d.dirty = c.dirty /\ d.asked = c.asked
      /\ d.named = c.named
  BY DEF Sound, Command
<1> HIDE DEF d
<1>2. Right(d) /\ Furthers(c, d)
  BY <1>1 DEF Right, Furthers, Passed
<1> QED
  BY <1>1, <1>2 DEF d

LEMMA ArgumentIsRight ==
    ASSUME NEW c, Sound(c), Right(c), c.stage = "walking", c.todo = {},
           NEW l \in SUBSET Paths, NEW n \in SUBSET l, NEW t \in SUBSET l,
           \A f \in l \ t : f \in LongPaths /\ f \notin n
    PROVE  LET d == [c EXCEPT !.args = Tail(@), !.asked = @ \cup l,
                              !.named = @ \cup n, !.todo = t]
           IN Right(d) /\ Furthers(c, d) /\ d.stage # "saving"
<1> DEFINE d == [c EXCEPT !.args = Tail(@), !.asked = @ \cup l,
                          !.named = @ \cup n, !.todo = t]
<1>1. /\ d.stage = "walking" /\ d.todo = t
      /\ d.failed = c.failed /\ d.op = c.op
      /\ d.got = c.got /\ d.table = c.table /\ d.dirty = c.dirty
      /\ d.asked = c.asked \cup l /\ d.named = c.named \cup n
  BY DEF Sound, Command
<1> HIDE DEF d
<1>2. c.op = "add"
  BY Fields DEF Right
<1>3. ASSUME ~d.failed, NEW f \in d.asked
      PROVE  d.got[f] # Nothing \/ f \in d.todo \/ Passed(d, f)
  <2>1. CASE f \in l /\ f \notin t /\ f \notin c.asked
    <3>1. f \notin c.named
      BY <2>1 DEF Sound
    <3> QED
      BY <1>1, <2>1, <3>1 DEF Passed
  <2>2. CASE f \in c.asked
    <3>1. c.got[f] # Nothing \/ Passed(c, f)
      BY <1>1, <1>3, <2>2 DEF Right
    <3>2. Passed(c, f) /\ f \notin t => Passed(d, f)
      BY <1>1 DEF Passed
    <3> QED
      BY <1>1, <3>1, <3>2
  <2> QED
    BY <1>1, <1>3, <2>1, <2>2
<1>4. Right(d) /\ Furthers(c, d)
  BY <1>1, <1>2, <1>3 DEF Right, Furthers
<1> QED
  BY <1>1, <1>4 DEF d

LEMMA RefusedIsRight ==
    ASSUME NEW c, Sound(c), Right(c), c.stage = "walking",
           NEW l \in SUBSET Paths, NEW n \in SUBSET l
    PROVE  LET d == [c EXCEPT !.args = Tail(@), !.asked = @ \cup l,
                              !.named = @ \cup n, !.failed = TRUE]
           IN Right(d) /\ Furthers(c, d) /\ d.stage # "saving"
<1> DEFINE d == [c EXCEPT !.args = Tail(@), !.asked = @ \cup l,
                          !.named = @ \cup n, !.failed = TRUE]
<1>1. /\ d.stage = "walking" /\ d.failed = TRUE /\ d.op = c.op
      /\ d.got = c.got /\ d.table = c.table /\ d.dirty = c.dirty
  BY DEF Sound, Command
<1> HIDE DEF d
<1>2. c.op = "add"
  BY Fields DEF Right
<1>3. Right(d) /\ Furthers(c, d)
  BY <1>1, <1>2 DEF Right, Furthers
<1> QED
  BY <1>1, <1>3 DEF d

LEMMA PassedIsRight ==
    ASSUME NEW c, Sound(c), Right(c), c.stage = "walking", NEW f \in Special
    PROVE  LET d == [c EXCEPT !.todo = @ \ {f}]
           IN Right(d) /\ Furthers(c, d) /\ d.stage # "saving"
<1> DEFINE d == [c EXCEPT !.todo = @ \ {f}]
<1>1. /\ d.stage = "walking" /\ d.todo = c.todo \ {f}
      /\ d.failed = c.failed /\ d.op = c.op
      /\ d.got = c.got /\ d.table = c.table /\ d.dirty = c.dirty /\ d.asked = c.asked
      /\ d.named = c.named
  BY DEF Sound, Command
<1> HIDE DEF d
<1>2. c.op = "add"
  BY Fields DEF Right
<1>3. Right(d) /\ Furthers(c, d)
  BY <1>1, <1>2 DEF Right, Furthers, Passed
<1> QED
  BY <1>1, <1>3 DEF d

LEMMA LookedIsRight ==
    ASSUME NEW c, Sound(c), Right(c), c.stage = "walking", NEW f, NEW n
    PROVE  LET d == [c EXCEPT !.stage = "reading", !.path = f, !.size = n,
                              !.todo = @ \ {f}]
           IN Right(d) /\ Furthers(c, d) /\ d.stage # "saving"
<1> DEFINE d == [c EXCEPT !.stage = "reading", !.path = f, !.size = n,
                          !.todo = @ \ {f}]
<1>1. /\ d.stage = "reading" /\ d.todo = c.todo \ {f} /\ d.path = f
      /\ d.failed = c.failed /\ d.op = c.op
      /\ d.got = c.got /\ d.table = c.table /\ d.dirty = c.dirty /\ d.asked = c.asked
      /\ d.named = c.named
  BY DEF Sound, Command
<1> HIDE DEF d
<1>2. c.op = "add"
  BY Fields DEF Right
<1>3. Right(d) /\ Furthers(c, d)
  BY <1>1, <1>2 DEF Right, Furthers, Passed
<1> QED
  BY <1>1, <1>3 DEF d

LEMMA StoringIsRight ==
    ASSUME NEW c, Sound(c), Right(c), c.stage \in {"reading", "hashing"}, NEW o
    PROVE  LET d == [c EXCEPT !.stage = "storing", !.blob = o]
           IN Right(d) /\ Furthers(c, d) /\ d.stage # "saving"
<1> DEFINE d == [c EXCEPT !.stage = "storing", !.blob = o]
<1>1. /\ d.stage = "storing" /\ d.todo = c.todo /\ d.path = c.path
      /\ d.failed = c.failed /\ d.op = c.op
      /\ d.got = c.got /\ d.table = c.table /\ d.dirty = c.dirty /\ d.asked = c.asked
      /\ d.named = c.named
  BY DEF Sound, Command
<1> HIDE DEF d
<1>2. ASSUME ~c.failed, NEW f \in c.asked
      PROVE  c.got[f] # Nothing \/ f \in c.todo \/ f = c.path \/ Passed(c, f)
  BY <1>2 DEF Right
<1>3. Right(d) /\ Furthers(c, d)
  BY <1>1, <1>2 DEF Right, Furthers, Passed
<1> QED
  BY <1>1, <1>3 DEF d

LEMMA EnteredIsRight ==
    ASSUME NEW c, Sound(c), Right(c), c.stage = "storing", c.op = "add"
    PROVE  LET d == [c EXCEPT !.stage = "walking", !.dirty = TRUE,
                              !.table[c.path] = c.blob, !.got[c.path] = c.blob]
           IN Right(d) /\ Furthers(c, d) /\ d.stage # "saving"
<1> DEFINE d == [c EXCEPT !.stage = "walking", !.dirty = TRUE,
                          !.table[c.path] = c.blob, !.got[c.path] = c.blob]
<1>1. /\ d.stage = "walking" /\ d.todo = c.todo /\ d.path = c.path /\ d.dirty = TRUE
      /\ d.failed = c.failed /\ d.op = c.op /\ d.asked = c.asked
      /\ d.named = c.named
      /\ d.named = c.named
      /\ d.got = [c.got EXCEPT ![c.path] = c.blob]
      /\ d.table = [c.table EXCEPT ![c.path] = c.blob]
  BY DEF Sound, Command
<1> HIDE DEF d
<1>2. c.path \in Paths /\ c.blob # Nothing /\ c.got \in Table /\ c.table \in Table
  BY Fields, StagingAssumption DEF Sound
<1>3. ASSUME NEW f \in Paths
      PROVE  /\ d.got[f] = IF f = c.path THEN c.blob ELSE c.got[f]
             /\ d.table[f] = IF f = c.path THEN c.blob ELSE c.table[f]
  BY <1>1, <1>2 DEF Table
<1>4. ASSUME ~d.failed, NEW f \in d.asked
      PROVE  d.got[f] # Nothing \/ f \in d.todo \/ Passed(d, f)
  <2>1. f \in Paths /\ ~c.failed
    BY <1>1, <1>4, Fields
  <2>2. c.got[f] # Nothing \/ f \in c.todo \/ f = c.path \/ Passed(d, f)
    BY <1>1, <2>1 DEF Right, Passed
  <2> QED
    BY <1>1, <1>2, <1>3, <2>1, <2>2
<1>5. Right(d)
  BY <1>1, <1>3, <1>4 DEF Right
<1>6. Furthers(c, d)
  BY <1>1, <1>2, <1>3 DEF Furthers
<1> QED
  BY <1>1, <1>5, <1>6 DEF d

LEMMA SavingIsRight ==
    ASSUME NEW c, Sound(c), Right(c), c.stage = "walking", c.todo = {}
    PROVE  LET d == [c EXCEPT !.stage = "saving"]
           IN Right(d) /\ Furthers(c, d)
<1> DEFINE d == [c EXCEPT !.stage = "saving"]
<1>1. /\ d.stage = "saving" /\ d.todo = c.todo /\ d.path = c.path
      /\ d.failed = c.failed /\ d.op = c.op
      /\ d.got = c.got /\ d.table = c.table /\ d.dirty = c.dirty /\ d.asked = c.asked
      /\ d.named = c.named
  BY DEF Sound, Command
<1> HIDE DEF d
<1>2. c.op = "add"
  BY Fields DEF Right
<1>3. Right(d) /\ Furthers(c, d)
  BY <1>1, <1>2 DEF Right, Furthers, Passed
<1> QED
  BY <1>3 DEF d

-----------------------------------------------------------------------------
(* One process takes a step                                                *)

\* A command goes on.
LEMMA GoesOn ==
    ASSUME StagingInv, Kept, NEW p \in Processes, NEW d, Goes(p, d),
           Right(d), Furthers(cmd[p], d), cmd[p].stage # "off",
           UNCHANGED <<exit, last>>, index' \in {index, Torn}, fresh' \subseteq fresh,
           d.stage = "saving" => index' = Torn
    PROVE  Kept'
<1>1. /\ cmd'[p] = d
      /\ \A q \in Processes \ {p} : cmd'[q] = cmd[q]
  BY DEF StagingInv, CommandsOK, Goes
<1>2. CommandsRight'
  BY <1>1 DEF Kept, CommandsRight
<1>3. LastRight'
  BY DEF Kept, LastRight
<1>4. ASSUME NEW q \in fresh', cmd'[q].stage # "off",
             cmd'[q].op = "add", NEW f \in Paths, cmd'[q].got[f] = Nothing
      PROVE  cmd'[q].table[f] = last'[f]
  <2>1. CASE q = p
    BY <1>1, <1>4, <2>1 DEF Kept, FreshRight, Furthers
  <2>2. CASE q # p
    <3>1. q \in fresh \cap Processes /\ cmd'[q] = cmd[q]
      BY <1>1, <2>2 DEF Kept, FreshRight
    <3> QED
      BY <1>4, <3>1 DEF Kept, FreshRight
  <2> QED
    BY <2>1, <2>2
<1>5. ASSUME NEW q \in fresh', cmd'[q].stage = "saving"
      PROVE  index' = Torn
  BY <1>1, <1>5 DEF Kept, FreshRight
<1>6. FreshRight'
  BY <1>4, <1>5 DEF Kept, FreshRight
<1> QED
  BY <1>2, <1>3, <1>6 DEF Kept

\* A command is over, or has nothing to do with the index.
LEMMA GoesAway ==
    ASSUME StagingInv, Kept, NEW p \in Processes, NEW d, Goes(p, d), Right(d),
           NEW s, exit' = [exit EXCEPT ![p] = s],
           d.stage = "off" \/ (d.op = "hash" /\ s = "none"), d.stage # "saving",
           UNCHANGED <<index, last, fresh>>
    PROVE  Kept'
<1>1. /\ cmd'[p] = d
      /\ \A q \in Processes \ {p} : cmd'[q] = cmd[q]
  BY DEF StagingInv, CommandsOK, Goes
<1>2. exit'[p] = s /\ \A q \in Processes \ {p} : exit'[q] = exit[q]
  BY DEF StagingInv, FilesOK
<1>3. CommandsRight'
  BY <1>1, <1>2 DEF Kept, CommandsRight
<1>4. LastRight' /\ FreshRight'
  BY <1>1 DEF Kept, LastRight, FreshRight
<1> QED
  BY <1>3, <1>4 DEF Kept

LEMMA StepKept ==
    ASSUME StagingInv, Kept, [Next]_vars
    PROVE  Kept'
<1>c. \A p \in Processes : Sound(cmd[p]) /\ Right(cmd[p])
  BY DEF StagingInv, CommandsOK, Kept, CommandsRight
<1>f. ASSUME NEW p \in Processes, Fails(p), cmd[p].op = "add", cmd[p].stage # "off",
             UNCHANGED <<index, exit, last, fresh>>
      PROVE  Kept'
  <2> DEFINE d == [cmd[p] EXCEPT !.stage = "walking", !.todo = {}, !.failed = TRUE]
  <2>1. Right(d) /\ Furthers(cmd[p], d) /\ Goes(p, d)
    BY <1>c, <1>f, FailedIsRight DEF Fails
  <2>2. d.stage = "walking"
    BY <1>c DEF Sound, Command
  <2> HIDE DEF d
  <2> QED
    BY <1>f, <2>1, <2>2, GoesOn
<1>e. ASSUME NEW p \in Processes, NEW s, Exits(p, s), UNCHANGED <<index, last, fresh>>
      PROVE  Kept'
  BY <1>e, OffIsRight, GoesAway DEF Exits
<1>1. ASSUME NEW p \in Processes, Begin(p) PROVE Kept'
  <2>1. PICK as \in Arguments :
          Goes(p, [Off(cmd[p].runs - 1) EXCEPT
                     !.stage = "walking", !.args = as,
                     !.table = IF index = Nothing THEN Blank ELSE index,
                     !.dirty = index # Nothing])
    BY <1>1 DEF Begin
  <2> DEFINE t == IF index = Nothing THEN Blank ELSE index
             y == index # Nothing
             n == cmd[p].runs - 1
             d == [Off(n) EXCEPT !.stage = "walking", !.args = as, !.table = t,
                                 !.dirty = y]
  <2>2. Right(d) /\ d.table = t /\ d.stage = "walking"
    <3> HIDE DEF t, y, n
    <3> QED
      BY DEF Off, Right, Blank
  <2> HIDE DEF d
  <2>3. /\ index # Torn /\ exit' = [exit EXCEPT ![p] = "none"]
        /\ UNCHANGED <<index, last>> /\ fresh' = fresh \cup {p}
    BY <1>1 DEF Begin
  <2>4. d.table = last
    BY <2>2, <2>3 DEF Kept, LastRight
  <2>5. /\ cmd'[p] = d
        /\ \A q \in Processes \ {p} : cmd'[q] = cmd[q]
    BY <2>1 DEF StagingInv, CommandsOK, Goes, d
  <2>6. exit'[p] = "none" /\ \A q \in Processes \ {p} : exit'[q] = exit[q]
    BY <2>3 DEF StagingInv, FilesOK
  <2>7. CommandsRight'
    BY <2>2, <2>5, <2>6 DEF Kept, CommandsRight
  <2>8. LastRight' /\ FreshRight'
    BY <2>2, <2>3, <2>4, <2>5 DEF Kept, LastRight, FreshRight
  <2> QED
    BY <2>7, <2>8 DEF Kept
<1>2. ASSUME NEW p \in Processes, BeginFails(p) \/ RefuseHash(p) \/ Crash(p)
      PROVE  Kept'
  BY <1>2, OffIsRight, GoesAway DEF BeginFails, RefuseHash, Crash
<1>3. ASSUME NEW p \in Processes, BeginHash(p) PROVE Kept'
  <2>1. PICK f \in Paths \ UnsafePaths, keeps \in BOOLEAN :
          Goes(p, [Off(cmd[p].runs - 1) EXCEPT
                     !.stage = "hashing", !.op = "hash", !.path = f,
                     !.held = work[f], !.size = Len(work[f]), !.keeps = keeps])
    BY <1>3 DEF BeginHash
  <2> DEFINE h == work[f]
             s == Len(work[f])
             n == cmd[p].runs - 1
             d == [Off(n) EXCEPT !.stage = "hashing", !.op = "hash", !.path = f,
                                 !.held = h, !.size = s, !.keeps = keeps]
  <2>2. Right(d) /\ d.op = "hash" /\ d.stage = "hashing"
    <3> HIDE DEF h, s, n
    <3> QED
      BY DEF Off, Right, Blank
  <2>3. Goes(p, d)
    BY <2>1
  <2> HIDE DEF d
  <2> QED
    BY <1>3, <2>2, <2>3, GoesAway DEF BeginHash
<1>4. ASSUME NEW p \in Processes, NextArgument(p) \/ RefuseArgument(p) PROVE Kept'
  <2> DEFINE arg == Head(cmd[p].args)
             l == Listed(arg)
             n == Named(arg)
             t == Reached(arg)
             c == [cmd[p] EXCEPT !.args = Tail(@), !.asked = @ \cup l,
                                 !.named = @ \cup n, !.todo = t]
             d == [cmd[p] EXCEPT !.args = Tail(@), !.asked = @ \cup l,
                                 !.named = @ \cup n, !.failed = TRUE]
  <2>1. /\ Goes(p, c) \/ Goes(p, d)
        /\ cmd[p].stage = "walking" /\ cmd[p].todo = {}
        /\ cmd[p].args # <<>> /\ UNCHANGED <<index, exit, last, fresh>>
    BY <1>4 DEF NextArgument, RefuseArgument, At
  <2>2. arg \in Argument
    BY <1>c, <2>1, Fields
  <2> HIDE DEF arg
  <2>3. /\ l \in SUBSET Paths /\ n \in SUBSET l /\ t \in SUBSET l
        /\ \A f \in l \ t : f \in LongPaths /\ f \notin n
    BY <2>2, ArgumentPaths
  <2> HIDE DEF l, n, t
  <2>4. Right(c) /\ Furthers(cmd[p], c)
    BY <1>c, <2>1, <2>3, ArgumentIsRight
  <2>5. Right(d) /\ Furthers(cmd[p], d)
    BY <1>c, <2>1, <2>3, RefusedIsRight
  <2>6. c.stage = "walking" /\ d.stage = "walking"
    BY <1>c, <2>1 DEF Sound, Command
  <2> HIDE DEF c, d
  <2> QED
    BY <2>1, <2>4, <2>5, <2>6, GoesOn
<1>p. ASSUME NEW p \in Processes, PassOver(p) PROVE Kept'
  <2>1. PICK f \in Special : Goes(p, [cmd[p] EXCEPT !.todo = @ \ {f}])
    BY <1>p DEF PassOver
  <2> DEFINE d == [cmd[p] EXCEPT !.todo = @ \ {f}]
  <2>2. cmd[p].stage = "walking" /\ UNCHANGED <<index, exit, last, fresh>>
    BY <1>p DEF PassOver, At
  <2>3. Right(d) /\ Furthers(cmd[p], d)
    BY <1>c, <2>2, PassedIsRight
  <2>4. d.stage = "walking"
    BY <1>c, <2>2 DEF Sound, Command
  <2>5. Goes(p, d)
    BY <2>1
  <2> HIDE DEF d
  <2> QED
    BY <2>2, <2>3, <2>4, <2>5, GoesOn
<1>5. ASSUME NEW p \in Processes, Stat(p) PROVE Kept'
  <2>1. cmd[p].stage = "walking" /\ UNCHANGED <<index, exit, last, fresh>>
    BY <1>5 DEF Stat, At
  <2>2. cmd[p].op = "add"
    BY <1>c, <2>1, Fields DEF Right
  <2>3. PICK f : Fails(p) \/ Goes(p, [cmd[p] EXCEPT !.stage = "reading", !.path = f,
                                        !.size = Len(work[f]), !.todo = @ \ {f}])
    BY <1>5 DEF Stat
  <2>4. CASE Fails(p)
    BY <1>f, <2>1, <2>2, <2>4
  <2>5. CASE Goes(p, [cmd[p] EXCEPT !.stage = "reading", !.path = f,
                                    !.size = Len(work[f]), !.todo = @ \ {f}])
    <3> DEFINE d == [cmd[p] EXCEPT !.stage = "reading", !.path = f,
                                   !.size = Len(work[f]), !.todo = @ \ {f}]
    <3>1. /\ Right(d) /\ Furthers(cmd[p], d) /\ d.stage # "saving" /\ Goes(p, d)
      BY <1>c, <2>1, <2>5, LookedIsRight
    <3> HIDE DEF d
    <3> QED
      BY <2>1, <3>1, GoesOn
  <2> QED
    BY <2>3, <2>4, <2>5
<1>6. ASSUME NEW p \in Processes, ReadFails(p) \/ Refused(p) \/ NotStored(p)
      PROVE  Kept'
  <2>1. /\ cmd[p].stage \in {"reading", "storing"} /\ Fails(p)
        /\ cmd[p].stage = "storing" => cmd[p].op = "add"
        /\ UNCHANGED <<index, exit, last, fresh>>
    BY <1>6 DEF ReadFails, Refused, NotStored, At
  <2>2. cmd[p].op = "add"
    BY <1>c, <2>1, Fields DEF Right
  <2> QED
    BY <1>f, <2>1, <2>2
<1>7. ASSUME NEW p \in Processes, Read(p) PROVE Kept'
  <2>1. /\ cmd[p].stage = "reading" /\ UNCHANGED <<index, exit, last, fresh>>
        /\ Goes(p, [cmd[p] EXCEPT !.stage = "storing", !.blob = BytesRead(p)])
    BY <1>7 DEF Read, At
  <2> DEFINE d == [cmd[p] EXCEPT !.stage = "storing", !.blob = BytesRead(p)]
  <2>2. Right(d) /\ Furthers(cmd[p], d) /\ d.stage # "saving" /\ Goes(p, d)
    BY <1>c, <2>1, StoringIsRight
  <2> HIDE DEF d
  <2> QED
    BY <2>1, <2>2, GoesOn
<1>8. ASSUME NEW p \in Processes, Hash(p) PROVE Kept'
  <2>1. /\ cmd[p].stage = "hashing" /\ UNCHANGED <<index, last, fresh>>
        /\ \/ Exits(p, "OK")
           \/ /\ \E o : Goes(p, [cmd[p] EXCEPT !.stage = "storing", !.blob = o])
              /\ UNCHANGED exit
    BY <1>8 DEF Hash, At
  <2>2. CASE Exits(p, "OK")
    BY <1>e, <2>1, <2>2
  <2>3. ASSUME NEW o, UNCHANGED exit,
               Goes(p, [cmd[p] EXCEPT !.stage = "storing", !.blob = o])
        PROVE  Kept'
    <3> DEFINE d == [cmd[p] EXCEPT !.stage = "storing", !.blob = o]
    <3>1. Right(d) /\ Furthers(cmd[p], d) /\ d.stage # "saving" /\ Goes(p, d)
      BY <1>c, <2>1, <2>3, StoringIsRight
    <3> HIDE DEF d
    <3> QED
      BY <2>1, <2>3, <3>1, GoesOn
  <2> QED
    BY <2>1, <2>2, <2>3
<1>9. ASSUME NEW p \in Processes, Stored(p) PROVE Kept'
  <2>1. /\ cmd[p].stage = "storing" /\ cmd[p].op = "add"
        /\ UNCHANGED <<index, exit, last, fresh>>
        /\ Goes(p, [cmd[p] EXCEPT !.stage = "walking", !.dirty = TRUE,
                                  !.table[cmd[p].path] = cmd[p].blob,
                                  !.got[cmd[p].path] = cmd[p].blob])
    BY <1>9 DEF Stored, At
  <2> DEFINE d == [cmd[p] EXCEPT !.stage = "walking", !.dirty = TRUE,
                                 !.table[cmd[p].path] = cmd[p].blob,
                                 !.got[cmd[p].path] = cmd[p].blob]
  <2>2. Right(d) /\ Furthers(cmd[p], d) /\ d.stage # "saving" /\ Goes(p, d)
    BY <1>c, <2>1, EnteredIsRight
  <2> HIDE DEF d
  <2> QED
    BY <2>1, <2>2, GoesOn
<1>10. ASSUME NEW p \in Processes, BeginSave(p) PROVE Kept'
  <2>1. /\ cmd[p].stage = "walking" /\ cmd[p].todo = {} /\ index' = Torn
        /\ fresh' \subseteq fresh /\ UNCHANGED <<exit, last>>
        /\ Goes(p, [cmd[p] EXCEPT !.stage = "saving"])
    BY <1>10 DEF BeginSave, Walked, At
  <2> QED
    BY <1>c, <2>1, SavingIsRight, GoesOn
<1>11. ASSUME NEW p \in Processes, EndSave(p) PROVE Kept'
  <2>1. CASE UNCHANGED <<index, last, fresh>>
    BY <1>e, <1>11, <2>1 DEF EndSave
  <2>2. CASE index' = cmd[p].table /\ last' = cmd[p].table /\ fresh' = fresh \cap {p}
    <3>1. Exits(p, Status(p))
      BY <1>11 DEF EndSave
    <3>2. /\ cmd'[p].stage = "off" /\ Right(cmd'[p])
          /\ \A q \in Processes \ {p} : cmd'[q] = cmd[q] /\ exit'[q] = exit[q]
      BY <3>1, OffIsRight DEF StagingInv, CommandsOK, FilesOK, Exits, Goes
    <3>3. CommandsRight' /\ FreshRight'
      BY <2>2, <3>2 DEF Kept, CommandsRight, FreshRight
    <3>4. LastRight'
      <4>1. cmd[p].table # Nothing
        BY <1>c, Fields, StagingAssumption
      <4> QED
        BY <2>2, <4>1 DEF LastRight
    <3> QED
      BY <3>3, <3>4 DEF Kept
  <2> QED
    BY <1>11, <2>1, <2>2 DEF EndSave
<1>12. ASSUME NEW p \in Processes,
              EndWithoutSave(p) \/ HashFails(p) \/ HashStored(p) \/ HashNotStored(p)
       PROVE  Kept'
  BY <1>12, <1>e DEF EndWithoutSave, HashFails, HashStored, HashNotStored
<1>13. CASE UNCHANGED <<cmd, exit, index, last, fresh>>
  BY <1>13 DEF Kept, CommandsRight, LastRight, FreshRight
<1>14. ASSUME NEW p \in Processes, StorePiece(p) PROVE Kept'
  BY <1>13, <1>14 DEF StorePiece
<1>15. ASSUME NEW f \in Paths, Edit(f) PROVE Kept'
  BY <1>13, <1>15 DEF Edit
<1>16. CASE UNCHANGED vars
  BY <1>13, <1>16 DEF vars
<1> QED
  BY <1>1, <1>2, <1>3, <1>4, <1>p, <1>5, <1>6, <1>7, <1>8, <1>9, <1>10, <1>11, <1>12,
     <1>14, <1>15, <1>16 DEF Next, Step

-----------------------------------------------------------------------------
(* What is staged of a file                                                *)

\* What Cuts says of one file with the contents h.
CutsOf(h) == {SubSeq(c[1], 1, Len(c[2])) :
                  c \in {d \in h \X h : Len(d[2]) <= Len(d[1])}}

LEMMA CutsAre == \A f : Cuts(f) = CutsOf(past[f])
  BY DEF Cuts, CutsOf

LEMMA CutsGrow ==
    ASSUME NEW h, NEW g, h \subseteq g
    PROVE  CutsOf(h) \subseteq CutsOf(g)
  BY DEF CutsOf

LEMMA CutIsOne ==
    ASSUME NEW h, NEW c \in h, NEW d \in h, Len(d) <= Len(c)
    PROVE  SubSeq(c, 1, Len(d)) \in CutsOf(h)
<1>1. <<c, d>> \in {e \in h \X h : Len(e[2]) <= Len(e[1])}
  OBVIOUS
<1> QED
  BY <1>1 DEF CutsOf

\* What a command has measured, read and staged comes from contents h[f] that
\* the files have held.
TrueTo(c, h) ==
    /\ c.op = "add" /\ c.stage = "reading" => \E d \in h[c.path] : c.size = Len(d)
    /\ c.op = "add" /\ c.stage = "storing" => c.blob \in CutsOf(h[c.path])
    /\ \A f \in Paths : c.got[f] # Nothing => c.got[f] \in CutsOf(h[f])

Truth ==
    /\ \A p \in Processes : TrueTo(cmd[p], past)
    /\ \A f \in Paths : work[f] # Nothing => work[f] \in past[f]

\* A command that has staged nothing yet, or nothing more, and is not in the
\* middle of a file.
LEMMA EmptyIsTrue ==
    ASSUME NEW c, c.got = Blank, c.op = "hash" \/ c.stage \notin {"reading", "storing"}
    PROVE  TrueTo(c, past)
  BY DEF TrueTo, Blank

LEMMA SameIsTrue ==
    ASSUME NEW c, NEW d, TrueTo(c, past), d.got = c.got,
           d.stage \notin {"reading", "storing"}
    PROVE  TrueTo(d, past)
  BY DEF TrueTo

LEMMA OneTrue ==
    ASSUME CommandsOK, Truth, NEW p \in Processes, NEW d, Goes(p, d),
           TrueTo(d, past), UNCHANGED <<work, past>>
    PROVE  Truth'
<1>1. ASSUME NEW q \in Processes
      PROVE  TrueTo(cmd'[q], past)
  BY <1>1 DEF CommandsOK, Goes, Truth
<1>2. \A q \in Processes : TrueTo(cmd[q], past)'
  BY <1>1 DEF TrueTo
<1> QED
  BY <1>2 DEF Truth

LEMMA GrownIsTrue ==
    ASSUME NEW c, Sound(c), NEW h, NEW g, TrueTo(c, h),
           \A f \in Paths : h[f] \subseteq g[f]
    PROVE  TrueTo(c, g)
<1>1. \A f \in Paths : CutsOf(h[f]) \subseteq CutsOf(g[f])
  BY CutsGrow
<1>2. c.op = "add" /\ c.stage \in {"reading", "storing"} => c.path \in Paths
  BY DEF Sound
<1> QED
  BY <1>1, <1>2 DEF TrueTo

LEMMA StepTrue ==
    ASSUME StagingInv, Kept, Truth, [Next]_vars
    PROVE  Truth'
<1>c. /\ CommandsOK
      /\ \A p \in Processes : Sound(cmd[p]) /\ Right(cmd[p]) /\ TrueTo(cmd[p], past)
  BY DEF StagingInv, CommandsOK, Kept, CommandsRight, Truth
<1>o. \A n : Off(n).got = Blank /\ Off(n).stage = "off"
  BY DEF Off
<1>e. ASSUME NEW p \in Processes, NEW n, Goes(p, Off(n)), UNCHANGED <<work, past>>
      PROVE  Truth'
  BY <1>c, <1>e, <1>o, EmptyIsTrue, OneTrue
<1>f. ASSUME NEW p \in Processes, Fails(p), UNCHANGED <<work, past>>
      PROVE  Truth'
  <2> DEFINE d == [cmd[p] EXCEPT !.stage = "walking", !.todo = {}, !.failed = TRUE]
  <2>1. d.stage = "walking" /\ d.got = cmd[p].got
    BY <1>c DEF Sound, Command
  <2>2. Goes(p, d)
    BY <1>f DEF Fails
  <2> HIDE DEF d
  <2> QED
    BY <1>c, <1>f, <2>1, <2>2, SameIsTrue, OneTrue
<1>1. ASSUME NEW p \in Processes, Begin(p) PROVE Truth'
  <2>1. PICK n, as, t, y : /\ Goes(p, [Off(n) EXCEPT !.stage = "walking", !.args = as,
                                                   !.table = t, !.dirty = y])
                           /\ UNCHANGED <<work, past>>
    BY <1>1 DEF Begin
  <2> DEFINE d == [Off(n) EXCEPT !.stage = "walking", !.args = as,
                                 !.table = t, !.dirty = y]
  <2>2. d.got = Blank /\ d.stage = "walking"
    BY DEF Off
  <2>3. Goes(p, d)
    BY <2>1
  <2> HIDE DEF d
  <2> QED
    BY <1>c, <2>1, <2>2, <2>3, EmptyIsTrue, OneTrue
<1>2. ASSUME NEW p \in Processes, BeginHash(p) PROVE Truth'
  <2>1. PICK n, f, h, s, k :
          /\ Goes(p, [Off(n) EXCEPT !.stage = "hashing", !.op = "hash", !.path = f,
                                    !.held = h, !.size = s, !.keeps = k])
          /\ UNCHANGED <<work, past>>
    BY <1>2 DEF BeginHash
  <2> DEFINE d == [Off(n) EXCEPT !.stage = "hashing", !.op = "hash", !.path = f,
                                 !.held = h, !.size = s, !.keeps = k]
  <2>2. d.got = Blank /\ d.stage = "hashing"
    BY DEF Off
  <2>3. Goes(p, d)
    BY <2>1
  <2> HIDE DEF d
  <2> QED
    BY <1>c, <2>1, <2>2, <2>3, EmptyIsTrue, OneTrue
<1>3. ASSUME NEW p \in Processes,
             \/ BeginFails(p) \/ RefuseHash(p) \/ Crash(p) \/ EndWithoutSave(p)
             \/ EndSave(p) \/ HashFails(p) \/ HashStored(p) \/ HashNotStored(p)
      PROVE  Truth'
  <2>1. /\ \E n : Goes(p, Off(n))
        /\ UNCHANGED <<work, past>>
    BY <1>3 DEF BeginFails, RefuseHash, Crash, EndWithoutSave, EndSave, HashFails,
                HashStored, HashNotStored, Exits
  <2> QED
    BY <1>e, <2>1
<1>4. ASSUME NEW p \in Processes,
             NextArgument(p) \/ RefuseArgument(p) \/ PassOver(p) \/ BeginSave(p)
      PROVE  Truth'
  <2>1. ASSUME NEW a, NEW l, NEW n, NEW t, UNCHANGED <<work, past>>,
               cmd[p].stage = "walking",
               \/ Goes(p, [cmd[p] EXCEPT !.args = a, !.asked = l, !.named = n,
                                         !.todo = t])
               \/ Goes(p, [cmd[p] EXCEPT !.args = a, !.asked = l, !.named = n,
                                         !.failed = t])
               \/ Goes(p, [cmd[p] EXCEPT !.todo = t])
               \/ Goes(p, [cmd[p] EXCEPT !.stage = "saving"])
        PROVE  Truth'
    <3> DEFINE c == [cmd[p] EXCEPT !.args = a, !.asked = l, !.named = n, !.todo = t]
               d == [cmd[p] EXCEPT !.args = a, !.asked = l, !.named = n, !.failed = t]
               e == [cmd[p] EXCEPT !.todo = t]
               g == [cmd[p] EXCEPT !.stage = "saving"]
    <3>1. /\ c.got = cmd[p].got /\ d.got = cmd[p].got /\ e.got = cmd[p].got
          /\ g.got = cmd[p].got
          /\ c.stage = "walking" /\ d.stage = "walking" /\ e.stage = "walking"
          /\ g.stage = "saving"
      BY <1>c, <2>1 DEF Sound, Command
    <3>2. Goes(p, c) \/ Goes(p, d) \/ Goes(p, e) \/ Goes(p, g)
      BY <2>1
    <3> HIDE DEF c, d, e, g
    <3>3. TrueTo(c, past) /\ TrueTo(d, past) /\ TrueTo(e, past) /\ TrueTo(g, past)
      BY <1>c, <3>1, SameIsTrue
    <3> QED
      BY <1>c, <2>1, <3>2, <3>3, OneTrue
  <2>2. CASE NextArgument(p)
    BY <2>1, <2>2 DEF NextArgument, At
  <2>3. CASE RefuseArgument(p)
    BY <2>1, <2>3 DEF RefuseArgument, At
  <2>4. CASE PassOver(p)
    BY <2>1, <2>4 DEF PassOver, At
  <2>5. CASE BeginSave(p)
    BY <2>1, <2>5 DEF BeginSave, Walked, At
  <2> QED
    BY <1>4, <2>2, <2>3, <2>4, <2>5
<1>5. ASSUME NEW p \in Processes, Stat(p) PROVE Truth'
  <2>1. PICK f \in cmd[p].todo :
          \/ Fails(p)
          \/ /\ work[f] # Nothing
             /\ Goes(p, [cmd[p] EXCEPT !.stage = "reading", !.path = f,
                                       !.size = Len(work[f]), !.todo = @ \ {f}])
    BY <1>5 DEF Stat
  <2>2. UNCHANGED <<work, past>>
    BY <1>5 DEF Stat
  <2>3. f \in Paths
    BY <1>c, Fields
  <2> DEFINE s == Len(work[f])
             d == [cmd[p] EXCEPT !.stage = "reading", !.path = f, !.size = s,
                                 !.todo = @ \ {f}]
  <2>4. /\ d.got = cmd[p].got /\ d.stage = "reading" /\ d.path = f /\ d.size = s
    <3> HIDE DEF s
    <3> QED
      BY <1>c DEF Sound, Command
  <2>5. Fails(p) \/ (work[f] # Nothing /\ Goes(p, d))
    BY <2>1
  <2> HIDE DEF d
  <2>6. work[f] # Nothing => TrueTo(d, past)
    BY <1>c, <2>3, <2>4 DEF Truth, TrueTo
  <2> QED
    BY <1>c, <1>f, <2>2, <2>5, <2>6, OneTrue
<1>6. ASSUME NEW p \in Processes, ReadFails(p) \/ Refused(p) \/ NotStored(p)
      PROVE  Truth'
  BY <1>6, <1>f DEF ReadFails, Refused, NotStored
<1>7. ASSUME NEW p \in Processes, Read(p) PROVE Truth'
  <2> DEFINE o == BytesRead(p)
             d == [cmd[p] EXCEPT !.stage = "storing", !.blob = o]
  <2>1. /\ d.got = cmd[p].got /\ d.stage = "storing" /\ d.path = cmd[p].path
        /\ d.blob = o /\ d.op = cmd[p].op
    <3> HIDE DEF o
    <3> QED
      BY <1>c DEF Sound, Command
  <2>2. /\ Goes(p, d) /\ cmd[p].stage = "reading" /\ CanRead(p)
        /\ UNCHANGED <<work, past>>
    BY <1>7 DEF Read, At
  <2> HIDE DEF d
  <2>3. cmd[p].path \in Paths /\ cmd[p].op = "add"
    BY <1>c, <2>2, Fields DEF Sound, Right
  <2>4. PICK e \in past[cmd[p].path] : cmd[p].size = Len(e)
    BY <1>c, <2>2, <2>3 DEF TrueTo
  <2>5. work[cmd[p].path] \in past[cmd[p].path] /\ Len(e) <= Len(work[cmd[p].path])
    <3>1. work[cmd[p].path] \in Contents /\ work[cmd[p].path] \in past[cmd[p].path]
      BY <2>2, <2>3 DEF CanRead, Truth, StagingInv, FilesOK
    <3>2. Len(work[cmd[p].path]) \in Nat /\ cmd[p].size \in Nat
      BY <1>c, <3>1, Fields, StagingAssumption
    <3> QED
      BY <2>2, <2>4, <3>1, <3>2 DEF CanRead
  <2>6. o \in CutsOf(past[cmd[p].path])
    BY <2>4, <2>5, CutIsOne DEF BytesRead
  <2> HIDE DEF o
  <2>7. TrueTo(d, past)
    BY <1>c, <2>1, <2>6 DEF TrueTo
  <2> QED
    BY <1>c, <2>2, <2>7, OneTrue
<1>8. ASSUME NEW p \in Processes, Hash(p) PROVE Truth'
  <2>1. /\ cmd[p].stage = "hashing" /\ UNCHANGED <<work, past>>
        /\ \/ Exits(p, "OK")
           \/ \E o : Goes(p, [cmd[p] EXCEPT !.stage = "storing", !.blob = o])
    BY <1>8 DEF Hash, At
  <2>2. ASSUME NEW o, Goes(p, [cmd[p] EXCEPT !.stage = "storing", !.blob = o])
        PROVE  Truth'
    <3> DEFINE d == [cmd[p] EXCEPT !.stage = "storing", !.blob = o]
    <3>1. d.got = cmd[p].got /\ d.op = cmd[p].op
      BY <1>c DEF Sound, Command
    <3>2. cmd[p].op = "hash" /\ cmd[p].got = Blank
      BY <1>c, <2>1 DEF Right
    <3>3. Goes(p, d)
      BY <2>2
    <3> HIDE DEF d
    <3> QED
      BY <1>c, <2>1, <3>1, <3>2, <3>3, EmptyIsTrue, OneTrue
  <2> QED
    BY <1>e, <2>1, <2>2 DEF Exits
<1>9. ASSUME NEW p \in Processes, Stored(p) PROVE Truth'
  <2> DEFINE f == cmd[p].path
             o == cmd[p].blob
             d == [cmd[p] EXCEPT !.stage = "walking", !.dirty = TRUE,
                                 !.table[f] = o, !.got[f] = o]
  <2>1. d.stage = "walking" /\ d.got = [cmd[p].got EXCEPT ![f] = o]
    BY <1>c DEF Sound, Command
  <2>2. /\ Goes(p, d) /\ cmd[p].stage = "storing" /\ cmd[p].op = "add"
        /\ UNCHANGED <<work, past>>
    BY <1>9 DEF Stored, At
  <2> HIDE DEF d
  <2>3. o \in CutsOf(past[f])
    BY <1>c, <2>2 DEF TrueTo
  <2>4. \A g \in Paths : d.got[g] = IF g = f THEN o ELSE cmd[p].got[g]
    BY <1>c, <2>1, Fields DEF Table
  <2>5. TrueTo(d, past)
    BY <1>c, <2>1, <2>3, <2>4 DEF TrueTo
  <2> QED
    BY <1>c, <2>2, <2>5, OneTrue
<1>10. ASSUME UNCHANGED <<cmd, work, past>> PROVE Truth'
  BY <1>10 DEF Truth, TrueTo
<1>11. ASSUME NEW p \in Processes, StorePiece(p) PROVE Truth'
  BY <1>10, <1>11 DEF StorePiece
<1>12. ASSUME NEW f \in Paths, Edit(f) PROVE Truth'
  <2>1. PICK c \in Contents \cup {Nothing} :
          /\ work' = [work EXCEPT ![f] = c]
          /\ past' = [past EXCEPT ![f] = @ \cup ({c} \ {Nothing})]
    BY <1>12 DEF Edit
  <2>2. \A g \in Paths : past[g] \subseteq past'[g]
    BY <2>1 DEF StagingInv, FilesOK
  <2>3. \A g \in Paths : work'[g] # Nothing => work'[g] \in past'[g]
    BY <2>1 DEF StagingInv, FilesOK, Truth
  <2>4. cmd' = cmd
    BY <1>12 DEF Edit
  <2>5. \A p \in Processes : TrueTo(cmd[p], past')
    <3> DEFINE g == past'
    <3>1. \A x \in Paths : past[x] \subseteq g[x]
      BY <2>2
    <3> HIDE DEF g
    <3>2. \A p \in Processes : TrueTo(cmd[p], g)
      BY <1>c, <3>1, GrownIsTrue
    <3> QED
      BY <3>2 DEF g
  <2>6. \A p \in Processes : TrueTo(cmd[p], past)'
    BY <2>4, <2>5 DEF TrueTo
  <2> QED
    BY <2>3, <2>6 DEF Truth
<1>13. CASE UNCHANGED vars
  BY <1>10, <1>13 DEF vars
<1> QED
  BY <1>1, <1>2, <1>3, <1>4, <1>5, <1>6, <1>7, <1>8, <1>9, <1>11, <1>12, <1>13 DEF Next, Step

LEMMA KeptInvariant == Spec => [](Kept /\ Truth /\ StagingInv)
<1>1. Init => Kept
  <2> SUFFICES ASSUME Init PROVE Kept
    OBVIOUS
  <2>1. \A p \in Processes : cmd[p] = Off(MaxRuns)
    BY DEF Init
  <2>2. CommandsRight
    BY <2>1, OffIsRight DEF CommandsRight
  <2>3. LastRight /\ FreshRight
    BY DEF Init, LastRight, FreshRight
  <2> QED
    BY <2>2, <2>3 DEF Kept
<1>t. Init => Truth
  <2>1. \A p \in Processes : Init => cmd[p].got = Blank /\ cmd[p].stage = "off"
    BY DEF Init, Off
  <2>2. Init => \A f \in Paths : work[f] # Nothing => work[f] \in past[f]
    BY DEF Init
  <2> QED
    BY <2>1, <2>2, EmptyIsTrue DEF Truth
<1>2. /\ StagingInv /\ StoreProofs!WritersHaveData /\ Kept /\ Truth /\ [Next]_vars
      => StagingInv' /\ StoreProofs!WritersHaveData' /\ Kept' /\ Truth'
  BY StepStaging, StepKept, StepTrue
<1> QED
  BY <1>1, <1>t, <1>2, InitStaging, PTL DEF Spec

-----------------------------------------------------------------------------
(* Theorems                                                                *)

\* How a command can come to an end without being killed, and say so.
LEMMA Endings ==
    ASSUME StagingInv, Kept, [Next]_vars, NEW p \in Processes,
           exit'[p] # exit[p], exit'[p] \in {"OK", "ERROR"}
    PROVE  \/ EndSave(p) \/ EndWithoutSave(p)
           \/ At(p, "off") /\ exit'[p] = "ERROR"
           \/ At(p, "hashing") \/ HashStored(p) \/ HashNotStored(p)
<1>1. ASSUME NEW q \in Processes, q # p, NEW s, exit' = [exit EXCEPT ![q] = s]
      PROVE  FALSE
  BY <1>1 DEF StagingInv, FilesOK
<1>2. ASSUME NEW q \in Processes, NEW s, Exits(q, s)
      PROVE  q = p
  BY <1>1, <1>2 DEF Exits
<1>3. exit' # exit
  OBVIOUS
<1>4. ASSUME NEW q \in Processes,
             Begin(q) \/ BeginFails(q) \/ BeginHash(q) \/ RefuseHash(q)
      PROVE  At(p, "off") /\ exit'[p] = "ERROR"
  <2>1. PICK s \in {"none", "ERROR"} : exit' = [exit EXCEPT ![q] = s]
    BY <1>4 DEF Begin, BeginFails, BeginHash, RefuseHash
  <2>2. q = p
    BY <1>1, <2>1
  <2>3. exit'[p] = s
    BY <2>1, <2>2 DEF StagingInv, FilesOK
  <2> QED
    BY <1>4, <2>2, <2>3 DEF Begin, BeginFails, BeginHash, RefuseHash
<1>5. ASSUME NEW q \in Processes, Crash(q)
      PROVE  FALSE
  <2>1. exit' = [exit EXCEPT ![q] = "killed"]
    BY <1>5 DEF Crash
  <2> QED
    BY <1>1, <2>1 DEF StagingInv, FilesOK
<1>6. ASSUME NEW q \in Processes, Hash(q) \/ HashFails(q)
      PROVE  At(p, "hashing")
  BY <1>2, <1>3, <1>6 DEF Hash, HashFails
<1>7. ASSUME NEW q \in Processes,
             EndWithoutSave(q) \/ EndSave(q) \/ HashStored(q) \/ HashNotStored(q)
      PROVE  q = p
  BY <1>2, <1>7 DEF EndWithoutSave, EndSave, HashStored, HashNotStored
<1>8. ASSUME NEW q \in Processes,
             NextArgument(q) \/ RefuseArgument(q) \/ PassOver(q) \/ Stat(q) \/ Read(q) \/ ReadFails(q) \/ Refused(q)
             \/ StorePiece(q) \/ Stored(q) \/ NotStored(q) \/ BeginSave(q)
      PROVE  FALSE
  BY <1>3, <1>8 DEF NextArgument, RefuseArgument, PassOver, Stat, Read, ReadFails,
    Refused, StorePiece, Stored, NotStored, BeginSave
<1>9. ASSUME NEW f \in Paths, Edit(f) PROVE FALSE
  BY <1>3, <1>9 DEF Edit
<1> QED
  BY <1>3, <1>4, <1>5, <1>6, <1>7, <1>8, <1>9 DEF Next, Step, vars

\* A command that is about to save says something only by saving.
LEMMA SavesByEndSave ==
    ASSUME StagingInv, Kept, [Next]_vars, NEW p \in Processes, Saves(p)
    PROVE  /\ Right(cmd[p])
           /\ index' = cmd[p].table \/ ("close" \in Faults /\ UNCHANGED index)
<1>1. cmd[p].stage = "saving" /\ exit[p] = "none" /\ Right(cmd[p])
  BY DEF Saves, At, Kept, CommandsRight
<1>2. EndSave(p)
  BY <1>1, Endings DEF Saves, At, EndWithoutSave, Walked, HashStored, HashNotStored
<1> QED
  BY <1>1, <1>2 DEF EndSave

\* A command that nobody overtook in saving leaves all other entries as the
\* last one left them, whatever number of commands run and whatever fails,
\* unless its own flush is what fails.
THEOREM RestIsKept == Spec => KeepsTheRest
<1>1. StagingInv /\ Kept /\ [Next]_vars =>
        \A p \in fresh : Saves(p) /\ index' # Torn =>
            \A f \in Paths :
                index'[f] = IF cmd[p].got[f] = Nothing THEN last[f]
                            ELSE cmd[p].got[f]
  <2> SUFFICES ASSUME StagingInv, Kept, [Next]_vars, NEW p \in fresh,
                      Saves(p), index' # Torn, NEW f \in Paths
               PROVE  index'[f] = IF cmd[p].got[f] = Nothing THEN last[f]
                                  ELSE cmd[p].got[f]
    OBVIOUS
  <2>p. p \in Processes
    BY DEF Kept, FreshRight
  <2>t. index = Torn
    BY DEF Kept, FreshRight, Saves, At
  <2>1. index' = cmd[p].table /\ Right(cmd[p])
    BY <2>p, <2>t, SavesByEndSave
  <2>2. cmd[p].stage = "saving" /\ cmd[p].op = "add"
    BY <2>p, <2>1, Fields DEF Saves, At, Right, StagingInv, CommandsOK
  <2> QED
    BY <2>1, <2>2 DEF Right, Kept, FreshRight
<1> QED
  BY <1>1, KeptInvariant, PTL DEF Spec, KeepsTheRest

\* A command that says OK has staged and saved all it was asked for but what
\* add passes over; and a command that saves has saved what it staged, of each
\* file the beginning of a content it held, as long as a content it held.
THEOREM ExitIsTrue == ASSUME "close" \notin Faults PROVE Spec => ExitTellsTruth
<1>1. StagingInv /\ Kept /\ Truth /\ [Next]_vars =>
        \A p \in Processes :
            /\ exit[p] = "none" /\ exit'[p] = "OK" =>
                /\ \A f \in cmd[p].asked \ PassedOver(p) : cmd[p].got[f] # Nothing
                /\ \A f \in Paths : cmd[p].got[f] # Nothing => At(p, "saving")
            /\ Saves(p) =>
                \A f \in Paths : cmd[p].got[f] # Nothing =>
                    index'[f] = cmd[p].got[f] /\ index'[f] \in Cuts(f)
  <2> SUFFICES ASSUME StagingInv, Kept, Truth, [Next]_vars, NEW p \in Processes
               PROVE  /\ exit[p] = "none" /\ exit'[p] = "OK" =>
                          /\ \A f \in cmd[p].asked \ PassedOver(p) :
                                cmd[p].got[f] # Nothing
                          /\ \A f \in Paths : cmd[p].got[f] # Nothing => At(p, "saving")
                      /\ Saves(p) =>
                          \A f \in Paths : cmd[p].got[f] # Nothing =>
                              index'[f] = cmd[p].got[f] /\ index'[f] \in Cuts(f)
    OBVIOUS
  <2>r. Right(cmd[p]) /\ Sound(cmd[p])
    BY DEF Kept, CommandsRight, StagingInv, CommandsOK
  <2>s. \A f : Passed(cmd[p], f) => f \in PassedOver(p)
    BY DEF Passed, PassedOver
  <2>1. ASSUME exit[p] = "none", exit'[p] = "OK"
        PROVE  /\ \A f \in cmd[p].asked \ PassedOver(p) : cmd[p].got[f] # Nothing
               /\ \A f \in Paths : cmd[p].got[f] # Nothing => At(p, "saving")
    <3>1. CASE EndSave(p)
      <4>1. cmd[p].stage = "saving" /\ Status(p) = "OK"
        BY <2>1, <3>1 DEF EndSave, At, Exits, StagingInv, FilesOK
      <4>2. ~cmd[p].failed
        BY <4>1 DEF Status
      <4> QED
        BY <2>r, <2>s, <4>1, <4>2 DEF Right, At
    <3>2. CASE EndWithoutSave(p)
      <4>1. /\ cmd[p].stage = "walking" /\ cmd[p].todo = {}
            /\ ~cmd[p].dirty /\ Status(p) = "OK"
        BY <2>1, <3>2 DEF EndWithoutSave, Walked, At, Exits, StagingInv, FilesOK
      <4>2. ~cmd[p].failed
        BY <4>1 DEF Status
      <4> QED
        BY <2>r, <2>s, <4>1, <4>2, Fields DEF Right
    <3>3. CASE At(p, "hashing") \/ HashStored(p) \/ HashNotStored(p)
      <4>1. cmd[p].op = "hash"
        BY <2>r, <3>3 DEF Right, At, HashStored, HashNotStored
      <4> QED
        BY <2>r, <4>1 DEF Right, Blank
    <3> QED
      BY <2>1, <3>1, <3>2, <3>3, Endings
  <2>2. ASSUME Saves(p), NEW f \in Paths, cmd[p].got[f] # Nothing
        PROVE  index'[f] = cmd[p].got[f] /\ index'[f] \in Cuts(f)
    <3>1. index' = cmd[p].table
      BY <2>2, SavesByEndSave
    <3>2. cmd[p].table[f] = cmd[p].got[f]
      BY <2>r, <2>2 DEF Right
    <3>3. cmd[p].got[f] \in Cuts(f)
      BY <2>2, CutsAre DEF Truth, TrueTo
    <3> QED
      BY <3>1, <3>2, <3>3
  <2> QED
    BY <2>1, <2>2
<1> QED
  BY <1>1, KeptInvariant, PTL DEF Spec, ExitTellsTruth
=============================================================================
