------------------------- MODULE ObjectStoreProofs -------------------------
(***************************************************************************)
(* Theorems about module ObjectStore for every number of processes, every   *)
(* set of objects and every size of their files.                            *)
(***************************************************************************)
EXTENDS ObjectStore, SequenceLemmas, TLAPS

NoFailure == Faults \cap {"write", "crash"} = {}
NoReadFailure == "read" \notin Faults

LEMMA CallFields ==
    /\ None.op = "none"
    /\ \A o, n : /\ Writing(o, n).op = "write" /\ Writing(o, n).obj = o
                 /\ Writing(o, n).pos = n
    /\ \A o, n, size, sound :
          /\ Reading(o, n, size, sound).op = "read"
          /\ Reading(o, n, size, sound).obj = o
          /\ Reading(o, n, size, sound).pos = n
          /\ Reading(o, n, size, sound).size = size
          /\ Reading(o, n, size, sound).sound = sound
  BY DEF None, Writing, Reading

LEMMA CallFacts ==
    ASSUME NEW c \in CallType
    PROVE  /\ c.op \in {"none", "write", "read"}
           /\ c.op = "none" <=> c = None
           /\ c.op = "write" => c.obj \in Objects /\ c.pos \in Nat
           /\ c.op = "read" => /\ c.obj \in Objects /\ c.pos \in Nat
                               /\ c.size \in Nat /\ c.sound \in BOOLEAN
  BY DEF CallType, None

LEMMA CallsBuilt ==
    /\ None \in CallType
    /\ \A o \in Objects : \A n \in Nat : Writing(o, n) \in CallType
    /\ \A o \in Objects : \A n, size \in Nat : \A sound \in BOOLEAN :
            Reading(o, n, size, sound) \in CallType
  BY DEF CallType, None, Writing, Reading

\* The size of a file is the number of its last piece.
LEMMA SizeFacts ==
    ASSUME TypeOK, NEW o \in Objects
    PROVE  /\ Pieces[o] \in Nat \ {0}
           /\ Size(o) \in 0..Pieces[o]
           /\ there[o] = Whole(o) => Size(o) = Pieces[o]
<1>1. Pieces[o] \in Nat \ {0}
  BY ObjectsAssumption
<1>2. CASE there[o] = {}
  <2>1. Whole(o) # {}
    BY <1>1 DEF Whole
  <2> QED
    BY <1>1, <1>2, <2>1 DEF Size
<1>3. CASE there[o] # {}
  <2>1. there[o] \in SUBSET (1..Pieces[o]) /\ Pieces[o] \in Nat
    BY <1>1 DEF TypeOK, Whole
  <2>2. /\ Max(there[o]) \in there[o]
        /\ \A y \in there[o] : Max(there[o]) >= y
    BY <1>3, <2>1, GreatestBelow
  <2>3. Size(o) = Max(there[o])
    BY <1>3 DEF Size
  <2>4. ASSUME there[o] = Whole(o) PROVE Size(o) = Pieces[o]
    <3>1. Pieces[o] \in there[o]
      BY <1>1, <2>4 DEF Whole
    <3> QED
      BY <1>1, <2>1, <2>2, <2>3, <3>1
  <2> QED
    BY <1>1, <2>1, <2>2, <2>3, <2>4
<1> QED
  BY <1>1, <1>2, <1>3

-----------------------------------------------------------------------------
(* Types                                                                   *)

PositionOK(c) ==
    /\ c.op = "write" => c.pos <= Pieces[c.obj]
    /\ c.op = "read" => c.pos <= c.size /\ c.size <= Pieces[c.obj]

LEMMA ReadingOK ==
    ASSUME NEW o \in Objects, NEW n \in Nat, NEW size \in Nat,
           NEW sound \in BOOLEAN, n <= size, size <= Pieces[o]
    PROVE  /\ Reading(o, n, size, sound) \in CallType
           /\ Reading(o, n, size, sound).op = "read"
           /\ PositionOK(Reading(o, n, size, sound))
<1>1. Reading(o, n, size, sound) \in CallType
  BY CallsBuilt
<1>2. Reading(o, n, size, sound).op # "write"
  BY CallFields
<1>3. /\ Reading(o, n, size, sound).pos <= Reading(o, n, size, sound).size
      /\ Reading(o, n, size, sound).size <= Pieces[Reading(o, n, size, sound).obj]
  <2>1. /\ Reading(o, n, size, sound).pos = n
        /\ Reading(o, n, size, sound).size = size
        /\ Reading(o, n, size, sound).obj = o
    BY CallFields
  <2> QED
    BY <2>1, Zenon
<1>4. PositionOK(Reading(o, n, size, sound))
  BY <1>2, <1>3 DEF PositionOK
<1> QED
  BY <1>1, <1>4, CallFields

\* A step in which one process changes what it is doing.
LEMMA OneCall ==
    ASSUME TypeOK, NEW p \in Processes, NEW c \in CallType, PositionOK(c),
           call' = [call EXCEPT ![p] = c]
    PROVE  /\ call' \in [Processes -> CallType]
           /\ call'[p] = c
           /\ \A q \in Processes : q # p => call'[q] = call[q]
           /\ \A q \in Processes : PositionOK(call'[q])
<1>1. /\ call' \in [Processes -> CallType]
      /\ call'[p] = c
      /\ \A q \in Processes : q # p => call'[q] = call[q]
  BY DEF TypeOK
<1>2. \A q \in Processes : PositionOK(call[q])
  BY DEF TypeOK, PositionOK
<1>3. \A q \in Processes : PositionOK(call'[q])
  BY <1>1, <1>2
<1> QED
  BY <1>1, <1>3

LEMMA InitStoreType == Init => TypeOK
<1> SUFFICES ASSUME Init PROVE TypeOK
  OBVIOUS
<1>1. call \in [Processes -> CallType] /\ \A p \in Processes : call[p].op = "none"
  BY CallsBuilt, CallFields DEF Init
<1>2. left \in [Processes -> 0..MaxCalls]
  BY CallsAssumption DEF Init
<1> QED
  BY <1>1, <1>2, ObjectsAssumption DEF Init, TypeOK, Nobody

\* The parts of TypeOK that are not about a process's call.
StateType ==
    /\ files \subseteq Objects
    /\ there \in [Objects -> SUBSET Nat]
    /\ \A o \in Objects : there[o] \subseteq Whole(o)
    /\ left \in [Processes -> 0..MaxCalls]
    /\ ret \in [Processes -> {"OK", "ERROR", "INVALID", "NOTFOUND"}]
    /\ stored \subseteq Objects \ Empty
    /\ disturbed \subseteq Processes
    /\ opener \in [Objects -> Processes \cup {Nobody}]
    /\ restored \subseteq Objects

LEMMA TypeParts ==
    TypeOK <=> /\ StateType
               /\ call \in [Processes -> CallType]
               /\ \A p \in Processes : PositionOK(call[p])
  BY DEF TypeOK, StateType, PositionOK

\* An object somebody is writing has data.
WritersHaveData ==
    \A p \in Processes : call[p].op = "write" => call[p].obj \notin Empty

LEMMA StepStoreType ==
    TypeOK /\ WritersHaveData /\ [Next]_vars => TypeOK' /\ WritersHaveData'
<1> SUFFICES ASSUME TypeOK, WritersHaveData, [Next]_vars
             PROVE  TypeOK' /\ WritersHaveData'
  OBVIOUS
<1>p. StateType /\ call \in [Processes -> CallType]
  BY TypeParts
<1>c. \A p \in Processes : call[p] \in CallType
  BY <1>p
<1>n. PositionOK(None) /\ None \in CallType
  BY CallFields, CallsBuilt DEF PositionOK
<1>s. ASSUME NEW p \in Processes, Starts(p)
      PROVE  left' \in [Processes -> 0..MaxCalls]
  BY <1>p, <1>s, CallsAssumption DEF Starts, StateType
<1>r. ASSUME NEW p \in Processes,
             NEW code \in {"OK", "ERROR", "INVALID", "NOTFOUND"},
             Returns(p, code)
      PROVE  /\ call' \in [Processes -> CallType]
             /\ \A q \in Processes : PositionOK(call'[q])
             /\ ret' \in [Processes -> {"OK", "ERROR", "INVALID", "NOTFOUND"}]
             /\ WritersHaveData'
  <2>1. call' = [call EXCEPT ![p] = None]
    BY <1>r DEF Returns
  <2>2. /\ call' \in [Processes -> CallType]
        /\ call'[p] = None
        /\ \A q \in Processes : q # p => call'[q] = call[q]
        /\ \A q \in Processes : PositionOK(call'[q])
    BY <1>n, <2>1, OneCall
  <2>3. ret' \in [Processes -> {"OK", "ERROR", "INVALID", "NOTFOUND"}]
    BY <1>p, <1>r DEF Returns, StateType
  <2>4. WritersHaveData'
    BY <2>2, CallFields DEF WritersHaveData
  <2> QED
    BY <2>2, <2>3, <2>4
<1>q. ASSUME StateType', call' \in [Processes -> CallType],
             \A q \in Processes : PositionOK(call'[q])
      PROVE  TypeOK'
  BY <1>q DEF TypeOK, StateType, PositionOK
<1>f. ASSUME UNCHANGED <<files, there, left, ret, history>>
      PROVE  StateType'
  BY <1>p, <1>f DEF StateType, history, Whole
<1> USE DEF history
<1>1. CASE UNCHANGED vars
  BY <1>1, <1>f, <1>p DEF vars, TypeOK, StateType, WritersHaveData, Whole
<1>2. ASSUME NEW p \in Processes, NEW o \in Objects,
             RefuseWrite(p, o) \/ NotFound(p, o)
      PROVE  TypeOK' /\ WritersHaveData'
  <2>1. /\ Starts(p) /\ UNCHANGED <<files, there, history>>
        /\ \E code \in {"INVALID", "ERROR", "NOTFOUND"} : Returns(p, code)
    BY <1>2 DEF RefuseWrite, NotFound
  <2>2. /\ call' \in [Processes -> CallType]
        /\ \A q \in Processes : PositionOK(call'[q])
        /\ ret' \in [Processes -> {"OK", "ERROR", "INVALID", "NOTFOUND"}]
        /\ WritersHaveData'
    BY <1>r, <2>1
  <2>3. StateType'
    BY <1>p, <1>s, <2>1, <2>2 DEF StateType, Whole
  <2> QED
    BY <2>2, <2>3, <1>q
<1>3. ASSUME NEW p \in Processes, NEW o \in Objects, BeginWrite(p, o)
      PROVE  TypeOK' /\ WritersHaveData'
  <2>1. /\ Writing(o, 0) \in CallType /\ PositionOK(Writing(o, 0))
        /\ Writing(o, 0).op = "write" /\ Writing(o, 0).obj = o
    BY CallsBuilt, CallFields, ObjectsAssumption DEF PositionOK
  <2>2. /\ call' \in [Processes -> CallType]
        /\ call'[p] = Writing(o, 0)
        /\ \A q \in Processes : q # p => call'[q] = call[q]
        /\ \A q \in Processes : PositionOK(call'[q])
    BY <1>3, <2>1, OneCall DEF BeginWrite
  <2>3. WritersHaveData'
    BY <1>3, <2>1, <2>2 DEF WritersHaveData, BeginWrite
  <2>4. StateType'
    BY <1>3, <1>p, <1>s DEF BeginWrite, StateType, Whole
  <2> QED
    BY <2>2, <2>3, <2>4, <1>q
<1>4. ASSUME NEW p \in Processes, WritePiece(p)
      PROVE  TypeOK' /\ WritersHaveData'
  <2> DEFINE o == call[p].obj
             n == call[p].pos + 1
  <2>1. /\ o \in Objects /\ o \notin Empty /\ n \in 1..Pieces[o]
        /\ Pieces[o] \in Nat
    BY <1>4, <1>c, CallFacts, ObjectsAssumption DEF WritePiece, WritersHaveData
  <2>2. /\ there' = [there EXCEPT ![o] = @ \cup {n}]
        /\ call' = [call EXCEPT ![p] = Writing(o, n)]
        /\ UNCHANGED <<files, left, ret, history>>
    BY <1>4 DEF WritePiece
  <2> HIDE DEF o, n
  <2>3. /\ Writing(o, n) \in CallType /\ PositionOK(Writing(o, n))
        /\ Writing(o, n).op = "write" /\ Writing(o, n).obj = o
    BY <2>1, CallsBuilt, CallFields DEF PositionOK
  <2>4. /\ call' \in [Processes -> CallType]
        /\ call'[p] = Writing(o, n)
        /\ \A q \in Processes : q # p => call'[q] = call[q]
        /\ \A q \in Processes : PositionOK(call'[q])
    BY <2>2, <2>3, OneCall
  <2>5. WritersHaveData'
    BY <2>1, <2>3, <2>4 DEF WritersHaveData
  <2>6. StateType'
    BY <1>p, <2>1, <2>2 DEF StateType, Whole
  <2> QED
    BY <2>4, <2>5, <2>6, <1>q
<1>5. ASSUME NEW p \in Processes, EndWrite(p)
      PROVE  TypeOK' /\ WritersHaveData'
  <2>1. call[p].obj \in Objects \ Empty
    BY <1>5, <1>c, CallFacts DEF EndWrite, WritersHaveData
  <2>2. /\ call' \in [Processes -> CallType]
        /\ \A q \in Processes : PositionOK(call'[q])
        /\ ret' \in [Processes -> {"OK", "ERROR", "INVALID", "NOTFOUND"}]
        /\ WritersHaveData'
    BY <1>5, <1>r DEF EndWrite
  <2>3. StateType'
    BY <1>5, <1>p, <2>1, <2>2 DEF EndWrite, StateType, Whole
  <2> QED
    BY <2>2, <2>3, <1>q
<1>6. ASSUME NEW p \in Processes, FailWrite(p) \/ FailRead(p) \/ EndRead(p)
      PROVE  TypeOK' /\ WritersHaveData'
  <2>1. /\ UNCHANGED <<files, there, left, history>>
        /\ \E code \in {"OK", "ERROR"} : Returns(p, code)
    BY <1>6 DEF FailWrite, FailRead, EndRead
  <2>2. /\ call' \in [Processes -> CallType]
        /\ \A q \in Processes : PositionOK(call'[q])
        /\ ret' \in [Processes -> {"OK", "ERROR", "INVALID", "NOTFOUND"}]
        /\ WritersHaveData'
    BY <1>r, <2>1
  <2>3. StateType'
    BY <1>p, <2>1, <2>2 DEF StateType, Whole
  <2> QED
    BY <2>2, <2>3, <1>q
<1>7. ASSUME NEW p \in Processes, NEW o \in Objects, BeginRead(p, o)
      PROVE  TypeOK' /\ WritersHaveData'
  <2> DEFINE c == Reading(o, 0, Size(o), TRUE)
  <2>1. Size(o) \in 0..Pieces[o] /\ Pieces[o] \in Nat
    BY SizeFacts
  <2>2. c \in CallType /\ c.op = "read" /\ PositionOK(c)
    <3>1. Size(o) \in Nat /\ Size(o) <= Pieces[o] /\ 0 <= Size(o) /\ 0 \in Nat
      BY <2>1
    <3> QED
      BY <3>1, ReadingOK
  <2> HIDE DEF c
  <2>3. call' = [call EXCEPT ![p] = c]
    BY <1>7 DEF BeginRead, c
  <2>4. /\ call' \in [Processes -> CallType]
        /\ call'[p] = c
        /\ \A q \in Processes : q # p => call'[q] = call[q]
        /\ \A q \in Processes : PositionOK(call'[q])
    BY <2>2, <2>3, OneCall
  <2>5. WritersHaveData'
    BY <2>2, <2>4 DEF WritersHaveData
  <2>6. StateType'
    BY <1>7, <1>p, <1>s DEF BeginRead, StateType, Whole
  <2> QED
    BY <2>4, <2>5, <2>6, <1>q
<1>8. ASSUME NEW p \in Processes, ReadPiece(p)
      PROVE  TypeOK' /\ WritersHaveData'
  <2> DEFINE o == call[p].obj
             n == call[p].pos + 1
             c == Reading(o, n, call[p].size, call[p].sound /\ n \in there[o])
  <2>1. /\ o \in Objects /\ n \in Nat /\ n <= call[p].size
        /\ call[p].size \in Nat /\ call[p].size <= Pieces[o]
        /\ call[p].sound \in BOOLEAN
    <3>1. call[p].op = "read" /\ call[p].pos < call[p].size
      BY <1>8 DEF ReadPiece
    <3>2. /\ call[p].obj \in Objects /\ call[p].pos \in Nat
          /\ call[p].size \in Nat /\ call[p].sound \in BOOLEAN
      BY <1>c, <3>1, CallFacts
    <3>3. call[p].size <= Pieces[call[p].obj]
      BY <3>1 DEF TypeOK
    <3> QED
      BY <3>1, <3>2, <3>3
  <2>2. /\ UNCHANGED <<files, there, left, history>>
        /\ \/ call' = [call EXCEPT ![p] = c] /\ UNCHANGED ret
           \/ Returns(p, "ERROR")
    BY <1>8 DEF ReadPiece
  <2>3. c \in CallType /\ c.op = "read" /\ PositionOK(c)
    <3>1. (call[p].sound /\ n \in there[o]) \in BOOLEAN
      OBVIOUS
    <3> HIDE DEF o, n
    <3> QED
      BY <2>1, <3>1, ReadingOK
  <2> HIDE DEF o, n, c
  <2>4. CASE call' = [call EXCEPT ![p] = c] /\ UNCHANGED ret
    <3>1. /\ call' \in [Processes -> CallType]
          /\ call'[p] = c
          /\ \A q \in Processes : q # p => call'[q] = call[q]
          /\ \A q \in Processes : PositionOK(call'[q])
      BY <2>3, <2>4, OneCall
    <3>2. WritersHaveData'
      BY <2>3, <3>1 DEF WritersHaveData
    <3> QED
      BY <1>f, <2>2, <2>4, <3>1, <3>2, <1>q
  <2>5. CASE Returns(p, "ERROR")
    <3>1. /\ call' \in [Processes -> CallType]
          /\ \A q \in Processes : PositionOK(call'[q])
          /\ ret' \in [Processes -> {"OK", "ERROR", "INVALID", "NOTFOUND"}]
          /\ WritersHaveData'
      BY <1>r, <2>5
    <3>2. StateType'
      BY <1>p, <2>2, <3>1 DEF StateType, Whole
    <3> QED
      BY <3>1, <3>2, <1>q
  <2> QED
    BY <2>2, <2>4, <2>5
<1>9. ASSUME NEW p \in Processes, Crash(p)
      PROVE  TypeOK' /\ WritersHaveData'
  <2>1. /\ call' \in [Processes -> CallType]
        /\ call'[p] = None
        /\ \A q \in Processes : q # p => call'[q] = call[q]
        /\ \A q \in Processes : PositionOK(call'[q])
    BY <1>9, <1>n, OneCall DEF Crash
  <2>2. WritersHaveData'
    BY <2>1, CallFields DEF WritersHaveData
  <2>3. StateType'
    BY <1>9, <1>p, CallsAssumption DEF Crash, StateType, Whole
  <2> QED
    BY <2>1, <2>2, <2>3, <1>q
<1> QED
  BY <1>1, <1>2, <1>3, <1>4, <1>5, <1>6, <1>7, <1>8, <1>9
  DEF Next, Start, Advance

\* The type invariant, under every fault.
THEOREM StoreTypeCorrect == Spec => []TypeOK
<1>1. Init => WritersHaveData
  BY CallFields DEF Init, WritersHaveData
<1> QED
  BY <1>1, InitStoreType, StepStoreType, PTL DEF Spec

-----------------------------------------------------------------------------
(* Steps as the proofs below see them                                      *)

\* A call returns, or goes on reading: no file changes, and the process does
\* not write afterwards.
Quiet(p) ==
    /\ UNCHANGED <<files, there, opener>>
    /\ call'[p].op # "write"
    /\ \A q \in Processes \ {p} : call'[q] = call[q]

LEMMA QuietSteps ==
    ASSUME TypeOK, NEW p \in Processes
    PROVE  /\ \A o \in Objects :
                RefuseWrite(p, o) \/ NotFound(p, o) \/ BeginRead(p, o)
                    => Quiet(p) /\ restored' = restored /\ call[p].op = "none"
           /\ ReadPiece(p) \/ EndRead(p) \/ FailRead(p)
                => Quiet(p) /\ restored' = restored /\ call[p].op = "read"
           /\ FailWrite(p) \/ Crash(p) => Quiet(p) /\ restored' = restored
           /\ EndWrite(p) => Quiet(p)
<1>1. call \in [Processes -> CallType]
  BY DEF TypeOK
<1>2. ASSUME NEW c, c.op # "write", call' = [call EXCEPT ![p] = c]
      PROVE  /\ call'[p].op # "write"
             /\ \A q \in Processes \ {p} : call'[q] = call[q]
  BY <1>1, <1>2
<1>3. ASSUME NEW code, Returns(p, code)
      PROVE  /\ call'[p].op # "write"
             /\ \A q \in Processes \ {p} : call'[q] = call[q]
  BY <1>2, <1>3, CallFields DEF Returns
<1>4. Starts(p) => call[p].op = "none"
  BY CallFields DEF Starts
<1>5. ASSUME NEW o \in Objects, RefuseWrite(p, o) \/ NotFound(p, o)
      PROVE  Quiet(p) /\ restored' = restored /\ call[p].op = "none"
  BY <1>3, <1>4, <1>5 DEF RefuseWrite, NotFound, Quiet, history
<1>6. ASSUME NEW o \in Objects, BeginRead(p, o)
      PROVE  Quiet(p) /\ restored' = restored /\ call[p].op = "none"
  <2>1. Reading(o, 0, Size(o), TRUE).op # "write"
    BY CallFields
  <2>2. call' = [call EXCEPT ![p] = Reading(o, 0, Size(o), TRUE)]
    BY <1>6 DEF BeginRead
  <2> QED
    BY <1>2, <1>4, <1>6, <2>1, <2>2 DEF BeginRead, Quiet
<1>7. ASSUME ReadPiece(p)
      PROVE  Quiet(p) /\ restored' = restored /\ call[p].op = "read"
  <2> DEFINE o == call[p].obj
             n == call[p].pos + 1
             c == Reading(o, n, call[p].size, call[p].sound /\ n \in there[o])
  <2>1. c.op # "write"
    BY CallFields
  <2>2. \/ call' = [call EXCEPT ![p] = c]
        \/ Returns(p, "ERROR")
    BY <1>7 DEF ReadPiece
  <2> HIDE DEF c
  <2>3. /\ call'[p].op # "write"
        /\ \A q \in Processes \ {p} : call'[q] = call[q]
    BY <1>2, <1>3, <2>1, <2>2
  <2> QED
    BY <1>7, <2>3 DEF ReadPiece, Quiet, history
<1>8. ASSUME EndRead(p) \/ FailRead(p)
      PROVE  Quiet(p) /\ restored' = restored /\ call[p].op = "read"
  BY <1>3, <1>8 DEF EndRead, FailRead, Quiet, history
<1>9. ASSUME FailWrite(p) \/ Crash(p) PROVE Quiet(p) /\ restored' = restored
  BY <1>2, <1>3, <1>9, CallFields DEF FailWrite, Crash, Quiet, history
<1>10. ASSUME EndWrite(p) PROVE Quiet(p)
  BY <1>3, <1>10 DEF EndWrite, Quiet
<1> QED
  BY <1>5, <1>6, <1>7, <1>8, <1>9, <1>10

LEMMA BeginWriteStep ==
    ASSUME TypeOK, NEW p \in Processes, NEW o \in Objects, BeginWrite(p, o)
    PROVE  /\ call[p].op = "none" /\ call'[p] = Writing(o, 0)
           /\ \A q \in Processes \ {p} : call'[q] = call[q]
           /\ files' = files \cup {o} /\ there'[o] = {} /\ opener'[o] = p
           /\ o \notin restored'
           /\ \A x \in Objects \ {o} :
                /\ there'[x] = there[x] /\ opener'[x] = opener[x]
                /\ x \in restored' <=> x \in restored
  BY CallFields DEF TypeOK, BeginWrite, Starts

LEMMA WritePieceStep ==
    ASSUME TypeOK, NEW p \in Processes, WritePiece(p)
    PROVE  /\ call[p].op = "write"
           /\ call[p].obj \in Objects /\ call[p].pos \in Nat
           /\ call[p].pos + 1 \in Whole(call[p].obj)
           /\ call'[p] = Writing(call[p].obj, call[p].pos + 1)
           /\ \A q \in Processes \ {p} : call'[q] = call[q]
           /\ there'[call[p].obj] =
                there[call[p].obj] \cup {call[p].pos + 1}
           /\ \A x \in Objects \ {call[p].obj} : there'[x] = there[x]
           /\ UNCHANGED <<files, history>>
<1>1. call[p] \in CallType /\ call[p].op = "write"
  BY DEF TypeOK, WritePiece
<1>2. call[p].obj \in Objects /\ call[p].pos \in Nat
  BY <1>1, CallFacts
<1>3. Pieces[call[p].obj] \in Nat /\ call[p].pos < Pieces[call[p].obj]
  BY <1>2, ObjectsAssumption DEF WritePiece
<1>4. call[p].pos + 1 \in Whole(call[p].obj)
  BY <1>2, <1>3 DEF Whole
<1> QED
  BY <1>1, <1>2, <1>4 DEF WritePiece, TypeOK

-----------------------------------------------------------------------------
(* Storing an object again repairs it                                      *)

LEMMA StepRepaired ==
    TypeOK /\ RepairedByRewrite /\ [Next]_vars => RepairedByRewrite'
<1> SUFFICES ASSUME TypeOK, RepairedByRewrite, [Next]_vars
             PROVE  RepairedByRewrite'
  OBVIOUS
<1>1. CASE UNCHANGED vars
  BY <1>1 DEF vars, RepairedByRewrite, IsWriting, Whole
<1>2. ASSUME NEW p \in Processes, Quiet(p), restored' = restored
      PROVE  RepairedByRewrite'
  BY <1>2 DEF Quiet, RepairedByRewrite, IsWriting, Whole
<1>3. ASSUME NEW p \in Processes, NEW o \in Objects, BeginWrite(p, o)
      PROVE  RepairedByRewrite'
  <2> SUFFICES ASSUME NEW x \in Objects
               PROVE  /\ x \in restored' => there'[x] = Whole(x)
                      /\ \A q \in Processes :
                            opener'[x] = q /\ IsWriting(q, x)'
                                => 1..call'[q].pos \subseteq there'[x]
    BY DEF RepairedByRewrite, Whole
  <2>1. CASE x = o
    BY <1>3, <2>1, BeginWriteStep, CallFields DEF IsWriting
  <2>2. CASE x # o
    BY <1>3, <2>2, BeginWriteStep, CallFields DEF IsWriting, RepairedByRewrite
  <2> QED
    BY <2>1, <2>2
<1>4. ASSUME NEW p \in Processes, WritePiece(p)
      PROVE  RepairedByRewrite'
  <2> DEFINE o == call[p].obj
             n == call[p].pos + 1
  <2>1. IsWriting(p, o) /\ o \in Objects /\ n \in Whole(o) /\ n - 1 = call[p].pos
    BY <1>4, WritePieceStep DEF IsWriting
  <2>2. call'[p].op = "write" /\ call'[p].obj = o /\ call'[p].pos = n
    BY <1>4, WritePieceStep, CallFields
  <2>3. /\ \A q \in Processes \ {p} : call'[q] = call[q]
        /\ there'[o] = there[o] \cup {n}
        /\ \A x \in Objects \ {o} : there'[x] = there[x]
        /\ opener' = opener /\ restored' = restored
    BY <1>4, WritePieceStep DEF history
  <2>4. n \in Nat /\ n \in 1..Pieces[o] /\ Pieces[o] \in Nat
    BY <2>1, ObjectsAssumption DEF Whole
  <2> HIDE DEF o, n
  <2> SUFFICES ASSUME NEW x \in Objects
               PROVE  /\ x \in restored => there'[x] = Whole(x)
                      /\ \A q \in Processes :
                            opener[x] = q /\ IsWriting(q, x)'
                                => 1..call'[q].pos \subseteq there'[x]
    BY <2>3 DEF RepairedByRewrite, Whole
  <2>5. there[x] \subseteq there'[x]
    BY <2>3
  <2>6. x \in restored => there'[x] = Whole(x)
    BY <2>1, <2>3 DEF RepairedByRewrite
  <2>7. ASSUME NEW q \in Processes, opener[x] = q, IsWriting(q, x)'
        PROVE  1..call'[q].pos \subseteq there'[x]
    <3>1. CASE q = p
      <4>1. x = o
        BY <2>2, <2>7, <3>1 DEF IsWriting
      <4>2. 1..(n - 1) \subseteq there[o]
        BY <2>1, <2>7, <3>1, <4>1 DEF RepairedByRewrite
      <4>3. 1..n = 1..(n - 1) \cup {n}
        BY <2>4
      <4> QED
        BY <2>2, <2>3, <3>1, <4>1, <4>2, <4>3
    <3>2. CASE q # p
      BY <2>3, <2>5, <2>7, <3>2 DEF IsWriting, RepairedByRewrite
    <3> QED
      BY <3>1, <3>2
  <2> QED
    BY <2>6, <2>7
<1>5. ASSUME NEW p \in Processes, EndWrite(p)
      PROVE  RepairedByRewrite'
  <2> DEFINE o == call[p].obj
  <2>1. /\ call[p] \in CallType /\ IsWriting(p, o)
        /\ call[p].pos = Pieces[o]
    BY <1>5 DEF EndWrite, TypeOK, IsWriting
  <2>2. o \in Objects
    BY <2>1, CallFacts DEF IsWriting
  <2>3. opener[o] = p => there[o] = Whole(o)
    BY <2>1, <2>2 DEF RepairedByRewrite, TypeOK, Whole
  <2>4. restored' = IF opener[o] = p THEN restored \cup {o} ELSE restored
    BY <1>5 DEF EndWrite
  <2>5. Quiet(p)
    BY <1>5, QuietSteps
  <2> HIDE DEF o
  <2> QED
    BY <2>2, <2>3, <2>4, <2>5 DEF RepairedByRewrite, Quiet, IsWriting, Whole
<1> QED
  BY <1>1, <1>2, <1>3, <1>4, <1>5, QuietSteps DEF Next, Start, Advance

\* Storing an object again repairs it, whatever failed or was killed before.
THEOREM RewriteRepairs == Spec => []RepairedByRewrite
<1>1. Init => RepairedByRewrite
  BY CallFields DEF Init, RepairedByRewrite, IsWriting, Nobody
<1> QED
  BY <1>1, StoreTypeCorrect, StepRepaired, PTL DEF Spec

\* What was stored, and what is being written, has a file: nothing removes one.
FilesRemain ==
    /\ stored \subseteq files
    /\ \A p \in Processes : call[p].op = "write" => call[p].obj \in files

LEMMA StepFiles == TypeOK /\ FilesRemain /\ [Next]_vars => FilesRemain'
<1> SUFFICES ASSUME TypeOK, FilesRemain, [Next]_vars
             PROVE  FilesRemain'
  OBVIOUS
<1>1. CASE UNCHANGED vars
  BY <1>1 DEF vars, FilesRemain
<1>2. ASSUME NEW p \in Processes, Quiet(p), stored' \subseteq files
      PROVE  FilesRemain'
  BY <1>2 DEF Quiet, FilesRemain
<1>3. ASSUME NEW p \in Processes, NEW o \in Objects,
             RefuseWrite(p, o) \/ NotFound(p, o) \/ BeginRead(p, o)
      PROVE  FilesRemain'
  BY <1>2, <1>3, QuietSteps
  DEF RefuseWrite, NotFound, BeginRead, history, FilesRemain
<1>4. ASSUME NEW p \in Processes, ReadPiece(p) \/ EndRead(p) \/ FailRead(p)
                                    \/ FailWrite(p) \/ Crash(p)
      PROVE  FilesRemain'
  BY <1>2, <1>4, QuietSteps
  DEF ReadPiece, EndRead, FailRead, FailWrite, Crash, history, FilesRemain
<1>5. ASSUME NEW p \in Processes, EndWrite(p)
      PROVE  FilesRemain'
  BY <1>2, <1>5, QuietSteps DEF EndWrite, FilesRemain
<1>6. ASSUME NEW p \in Processes, NEW o \in Objects, BeginWrite(p, o)
      PROVE  FilesRemain'
  <2>1. stored' = stored
    BY <1>6 DEF BeginWrite
  <2>2. /\ call'[p] = Writing(o, 0) /\ files' = files \cup {o}
        /\ \A q \in Processes \ {p} : call'[q] = call[q]
    BY <1>6, BeginWriteStep
  <2>3. call'[p].obj = o
    BY <2>2, CallFields
  <2> QED
    BY <2>1, <2>2, <2>3 DEF FilesRemain
<1>7. ASSUME NEW p \in Processes, WritePiece(p)
      PROVE  FilesRemain'
  <2>1. /\ call[p].op = "write" /\ call'[p].obj = call[p].obj
        /\ files' = files /\ stored' = stored
        /\ \A q \in Processes \ {p} : call'[q] = call[q]
    BY <1>7, WritePieceStep, CallFields DEF WritePiece, history
  <2> QED
    BY <2>1 DEF FilesRemain
<1> QED
  BY <1>1, <1>3, <1>4, <1>5, <1>6, <1>7 DEF Next, Start, Advance

LEMMA FilesStay == Spec => []FilesRemain
<1>1. Init => FilesRemain
  BY CallFields DEF Init, FilesRemain
<1> QED
  BY <1>1, StoreTypeCorrect, StepFiles, PTL DEF Spec

-----------------------------------------------------------------------------
(* No failing write and no crash: files fill up again                      *)

LEMMA StepMissing ==
    ASSUME NoFailure
    PROVE  TypeOK /\ MissingIsToCome /\ [Next]_vars => MissingIsToCome'
<1> SUFFICES ASSUME TypeOK, MissingIsToCome, [Next]_vars
             PROVE  MissingIsToCome'
  OBVIOUS
<1>0. "write" \notin Faults /\ "crash" \notin Faults
  BY DEF NoFailure
<1>t. files \subseteq Objects
  BY DEF TypeOK
<1>1. CASE UNCHANGED vars
  BY <1>1 DEF vars, MissingIsToCome, IsComing, IsWriting, Whole
<1>2. ASSUME NEW p \in Processes, Quiet(p),
             \A o \in Objects : \A n \in Whole(o) :
                ~(IsWriting(p, o) /\ call[p].pos < n)
      PROVE  MissingIsToCome'
  <2> SUFFICES ASSUME NEW o \in files, NEW n \in Whole(o) \ there[o]
               PROVE  \E q \in Processes :
                        IsWriting(q, o)' /\ call'[q].pos < n
    BY <1>2 DEF MissingIsToCome, IsComing, Quiet, Whole
  <2>1. PICK q \in Processes : IsWriting(q, o) /\ call[q].pos < n
    BY DEF MissingIsToCome, IsComing
  <2>2. q # p
    BY <1>2, <1>t, <2>1
  <2> QED
    BY <1>2, <2>1, <2>2 DEF Quiet, IsWriting
<1>3. ASSUME NEW p \in Processes, NEW o \in Objects, BeginWrite(p, o)
      PROVE  MissingIsToCome'
  <2> SUFFICES ASSUME NEW x \in files', NEW n \in Whole(x) \ there'[x]
               PROVE  \E q \in Processes :
                        IsWriting(q, x)' /\ call'[q].pos < n
    BY DEF MissingIsToCome, IsComing, Whole
  <2>1. CASE x = o
    <3>1. IsWriting(p, o)' /\ call'[p].pos = 0
      BY <1>3, BeginWriteStep, CallFields DEF IsWriting
    <3>2. 0 < n
      BY <2>1, ObjectsAssumption DEF Whole
    <3> QED
      BY <2>1, <3>1, <3>2
  <2>2. CASE x # o
    <3>1. x \in files /\ x \in Objects /\ there'[x] = there[x]
      BY <1>3, <1>t, <2>2, BeginWriteStep
    <3>2. PICK q \in Processes : IsWriting(q, x) /\ call[q].pos < n
      BY <3>1 DEF MissingIsToCome, IsComing
    <3>3. q # p
      BY <1>3, <3>2, BeginWriteStep DEF IsWriting
    <3>4. call'[q] = call[q]
      BY <1>3, <3>3, BeginWriteStep
    <3> QED
      BY <3>2, <3>4 DEF IsWriting
  <2> QED
    BY <2>1, <2>2
<1>4. ASSUME NEW p \in Processes, WritePiece(p)
      PROVE  MissingIsToCome'
  <2> DEFINE o == call[p].obj
             m == call[p].pos + 1
  <2>1. IsWriting(p, o) /\ o \in Objects /\ m \in Whole(o) /\ call[p].pos \in Nat
    BY <1>4, WritePieceStep DEF IsWriting
  <2>2. call'[p].op = "write" /\ call'[p].obj = o /\ call'[p].pos = m
    BY <1>4, WritePieceStep, CallFields
  <2>3. /\ \A q \in Processes \ {p} : call'[q] = call[q]
        /\ there'[o] = there[o] \cup {m}
        /\ \A x \in Objects \ {o} : there'[x] = there[x]
        /\ files' = files
    BY <1>4, WritePieceStep
  <2> SUFFICES ASSUME NEW x \in files, NEW n \in Whole(x) \ there'[x]
               PROVE  \E q \in Processes :
                        IsWriting(q, x)' /\ call'[q].pos < n
    BY <2>3 DEF MissingIsToCome, IsComing, Whole
  <2>4. n \notin there[x] /\ (x = o => n # m) /\ n \in Nat
    BY <1>t, <2>3, ObjectsAssumption DEF Whole
  <2>5. PICK q \in Processes : IsWriting(q, x) /\ call[q].pos < n
    BY <2>4 DEF MissingIsToCome, IsComing
  <2>6. CASE q # p
    BY <2>3, <2>5, <2>6 DEF IsWriting
  <2>7. CASE q = p
    <3>1. x = o
      BY <2>5, <2>7 DEF IsWriting
    <3>2. m < n
      BY <2>1, <2>4, <2>5, <2>7, <3>1
    <3> QED
      BY <2>2, <3>1, <3>2 DEF IsWriting
  <2> QED
    BY <2>6, <2>7
<1>5. ASSUME NEW p \in Processes, EndWrite(p)
      PROVE  MissingIsToCome'
  <2>1. ASSUME NEW o \in Objects, NEW n \in Whole(o), IsWriting(p, o)
        PROVE  ~(call[p].pos < n)
    BY <1>5, <2>1, ObjectsAssumption DEF EndWrite, IsWriting, Whole
  <2> QED
    BY <1>2, <1>5, <2>1, QuietSteps
<1>6. ASSUME NEW p \in Processes, Quiet(p), call[p].op \in {"none", "read"}
      PROVE  MissingIsToCome'
  BY <1>2, <1>6 DEF IsWriting
<1>7. ASSUME NEW p \in Processes
      PROVE  ~FailWrite(p) /\ ~Crash(p)
  BY <1>0 DEF FailWrite, Crash
<1> QED
  BY <1>1, <1>3, <1>4, <1>5, <1>6, <1>7, QuietSteps DEF Next, Start, Advance

\* Without failures, however many processes rewrite an object at once, a piece
\* missing from its file is still to be written by one of them...
THEOREM MissingComes == ASSUME NoFailure PROVE Spec => []MissingIsToCome
<1>1. Init => MissingIsToCome
  BY DEF Init, MissingIsToCome, IsComing
<1> QED
  BY <1>1, StoreTypeCorrect, StepMissing, PTL DEF Spec

LEMMA MissingWhole == TypeOK /\ MissingIsToCome => WholeWhenQuiet
  BY DEF TypeOK, MissingIsToCome, IsComing, WholeWhenQuiet, Whole

\* ... so a file nobody is writing is whole.
THEOREM QuietIsWhole == ASSUME NoFailure PROVE Spec => []WholeWhenQuiet
  BY MissingComes, StoreTypeCorrect, MissingWhole, PTL

-----------------------------------------------------------------------------
(* Reads that no write overlaps                                            *)

\* What such a read relies on: the file it measured is whole and stays so.
ReaderOK(p) ==
    call[p].op = "read" /\ p \notin disturbed
        => /\ there[call[p].obj] = Whole(call[p].obj)
           /\ call[p].size = Pieces[call[p].obj]
           /\ call[p].sound = TRUE
           /\ \A q \in Processes : ~IsWriting(q, call[p].obj)

ReadersOK == \A p \in Processes : ReaderOK(p)

\* The step of one process leaves another's read alone if it neither writes
\* that object nor starts to.
LEMMA OtherReaders ==
    ASSUME TypeOK, ReadersOK, NEW p \in Processes, NEW r \in Processes, p # r,
           \A q \in Processes \ {p} : call'[q] = call[q],
           r \in disturbed <=> r \in disturbed',
           call[r].op = "read" /\ r \notin disturbed =>
                /\ there'[call[r].obj] = there[call[r].obj]
                /\ call'[p].op = "write" => call'[p].obj # call[r].obj
    PROVE  ReaderOK(r)'
<1>1. call'[r] = call[r]
  OBVIOUS
<1> SUFFICES ASSUME call[r].op = "read", r \notin disturbed
             PROVE  /\ there'[call[r].obj] = Whole(call[r].obj)
                    /\ call[r].size = Pieces[call[r].obj]
                    /\ call[r].sound = TRUE
                    /\ \A q \in Processes : ~IsWriting(q, call[r].obj)'
  BY <1>1 DEF ReaderOK, Whole
<1>2. ReaderOK(r)
  BY DEF ReadersOK
<1> QED
  BY <1>2 DEF ReaderOK, IsWriting

LEMMA StepReaders ==
    TypeOK /\ WholeWhenQuiet /\ ReadersOK /\ [Next]_vars => ReadersOK'
<1> SUFFICES ASSUME TypeOK, WholeWhenQuiet, ReadersOK, [Next]_vars
             PROVE  ReadersOK'
  OBVIOUS
<1>1. CASE UNCHANGED vars
  BY <1>1 DEF vars, ReadersOK, ReaderOK, IsWriting, Whole
<1>2. ASSUME NEW p \in Processes, Quiet(p), ReaderOK(p)',
             \A r \in Processes \ {p} : r \in disturbed <=> r \in disturbed'
      PROVE  ReadersOK'
  <2>1. ASSUME NEW r \in Processes, r # p PROVE ReaderOK(r)'
    BY <1>2, <2>1, OtherReaders DEF Quiet
  <2> QED
    BY <1>2, <2>1 DEF ReadersOK
<1>3. ASSUME NEW p \in Processes, call'[p].op # "read" PROVE ReaderOK(p)'
  BY <1>3 DEF ReaderOK
<1>4. ASSUME NEW p \in Processes, NEW code, Returns(p, code)
      PROVE  call'[p].op # "read"
  BY <1>4, CallFields DEF Returns, TypeOK
<1>5. ASSUME NEW p \in Processes, NEW o \in Objects, BeginRead(p, o)
      PROVE  ReadersOK'
  <2>0. PICK sound : sound = TRUE
    OBVIOUS
  <2>1. call'[p] = Reading(o, 0, Size(o), sound) /\ o \in files
    BY <1>5, <2>0 DEF BeginRead, TypeOK
  <2>2. /\ call'[p].obj = o /\ call'[p].size = Size(o)
        /\ call'[p].sound = sound /\ call'[p].op = "read"
    BY <2>1, CallFields
  <2>3. Quiet(p)
    BY <1>5, QuietSteps
  <2>4. \A r \in Processes \ {p} : r \in disturbed <=> r \in disturbed'
    BY <1>5 DEF BeginRead
  <2>5. ASSUME p \notin disturbed'
        PROVE  /\ \A q \in Processes : ~IsWriting(q, o)
               /\ there[o] = Whole(o) /\ Size(o) = Pieces[o]
    <3>1. \A q \in Processes : ~IsWriting(q, o)
      BY <1>5, <2>5 DEF BeginRead
    <3> QED
      BY <2>1, <3>1, SizeFacts DEF WholeWhenQuiet
  <2>6. ASSUME p \notin disturbed', NEW q \in Processes
        PROVE  ~IsWriting(q, o)'
    BY <2>2, <2>3, <2>5, <2>6 DEF Quiet, IsWriting
  <2>7. ReaderOK(p)'
    BY <2>0, <2>2, <2>3, <2>5, <2>6 DEF ReaderOK, Quiet, Whole, IsWriting
  <2> QED
    BY <1>2, <2>3, <2>4, <2>7
<1>6. ASSUME NEW p \in Processes, NEW o \in Objects, BeginWrite(p, o)
      PROVE  ReadersOK'
  <2>1. disturbed' = disturbed \cup {q \in Processes : IsReading(q, o)}
    BY <1>6 DEF BeginWrite
  <2>2. call'[p].op = "write" /\ call'[p].obj = o
    BY <1>6, BeginWriteStep, CallFields
  <2>3. ASSUME NEW r \in Processes, r # p PROVE ReaderOK(r)'
    <3>1. call'[r] = call[r]
      BY <1>6, <2>3, BeginWriteStep
    <3>2. CASE IsReading(r, o)
      BY <2>1, <3>2 DEF ReaderOK
    <3>3. CASE ~IsReading(r, o)
      <4>1. r \in disturbed <=> r \in disturbed'
        BY <2>1, <3>3
      <4>2. call[r].op = "read" => call[r].obj \in Objects \ {o}
        BY <3>3, CallFacts DEF TypeOK, IsReading
      <4>3. call[r].op = "read" => there'[call[r].obj] = there[call[r].obj]
        BY <1>6, <4>2, BeginWriteStep
      <4>4. \A q \in Processes \ {p} : call'[q] = call[q]
        BY <1>6, BeginWriteStep
      <4> QED
        BY <2>2, <2>3, <4>1, <4>2, <4>3, <4>4, OtherReaders
    <3> QED
      BY <3>2, <3>3
  <2>4. ReaderOK(p)'
    BY <1>3, <2>2
  <2> QED
    BY <2>3, <2>4 DEF ReadersOK
<1>7. ASSUME NEW p \in Processes, WritePiece(p)
      PROVE  ReadersOK'
  <2> DEFINE o == call[p].obj
  <2>1. IsWriting(p, o) /\ o \in Objects
    BY <1>7, WritePieceStep DEF IsWriting
  <2>2. call'[p].op = "write" /\ call'[p].obj = o /\ disturbed' = disturbed
    BY <1>7, WritePieceStep, CallFields DEF history
  <2>3. /\ \A q \in Processes \ {p} : call'[q] = call[q]
        /\ \A x \in Objects \ {o} : there'[x] = there[x]
    BY <1>7, WritePieceStep
  <2> HIDE DEF o
  <2>4. ASSUME NEW r \in Processes, r # p PROVE ReaderOK(r)'
    <3>1. call[r].op = "read" => call[r].obj \in Objects
      BY CallFacts DEF TypeOK
    <3>2. call[r].op = "read" /\ r \notin disturbed => call[r].obj # o
      BY <2>1 DEF ReadersOK, ReaderOK
    <3> QED
      BY <2>2, <2>3, <2>4, <3>1, <3>2, OtherReaders
  <2>5. ReaderOK(p)'
    BY <1>3, <2>2
  <2> QED
    BY <2>4, <2>5 DEF ReadersOK
<1>8. ASSUME NEW p \in Processes, ReadPiece(p)
      PROVE  ReadersOK'
  <2>1. Quiet(p) /\ disturbed' = disturbed /\ call[p].op = "read"
    BY <1>8, QuietSteps DEF ReadPiece, history
  <2>3. /\ call[p].obj \in Objects /\ call[p].pos \in Nat
        /\ call[p].size \in Nat /\ call[p].pos < call[p].size
    BY <1>8, <2>1, CallFacts DEF TypeOK, ReadPiece
  <2>a. PICK o \in Objects, n \in Nat :
            o = call[p].obj /\ n = call[p].pos + 1
    BY <2>3
  <2>b. PICK sound : sound = (call[p].sound /\ n \in there[o])
    OBVIOUS
  <2>0. /\ o = call[p].obj /\ n = call[p].pos + 1
        /\ sound = (call[p].sound /\ n \in there[o])
    BY <2>a, <2>b
  <2>2. \/ call' = [call EXCEPT ![p] = Reading(o, n, call[p].size, sound)]
        \/ Returns(p, "ERROR")
    BY <1>8, <2>0 DEF ReadPiece
  <2>4. CASE call' = [call EXCEPT ![p] = Reading(o, n, call[p].size, sound)]
    <3>1. call'[p] = Reading(o, n, call[p].size, sound)
      BY <2>4 DEF TypeOK
    <3>2. /\ call'[p].obj = o /\ call'[p].size = call[p].size
          /\ call'[p].sound = sound
      BY <3>1, CallFields
    <3> SUFFICES ASSUME p \notin disturbed, call'[p].op = "read"
                 PROVE  /\ there'[o] = Whole(o)
                        /\ call'[p].size = Pieces[o]
                        /\ call'[p].sound = TRUE
                        /\ \A q \in Processes :
                              ~(call'[q].op = "write" /\ call'[q].obj = o)
      BY <1>2, <2>1, <3>2 DEF ReaderOK, Whole, IsWriting
    <3>3. /\ there[o] = Whole(o) /\ call[p].size = Pieces[o]
          /\ \A q \in Processes : ~IsWriting(q, o)
      BY <2>0, <2>1 DEF ReadersOK, ReaderOK
    <3>4. call[p].sound = TRUE
      BY <2>0, <2>1 DEF ReadersOK, ReaderOK
    <3>5. n \in there[o]
      BY <2>0, <2>3, <3>3 DEF Whole
    <3>6. sound = TRUE
      BY <2>0, <3>4, <3>5
    <3> QED
      BY <2>1, <3>2, <3>3, <3>6 DEF Quiet, IsWriting
  <2>5. CASE Returns(p, "ERROR")
    BY <1>2, <1>3, <1>4, <2>1, <2>5
  <2> QED
    BY <2>2, <2>4, <2>5
<1>9. ASSUME NEW p \in Processes, Quiet(p), call'[p].op # "read",
             disturbed' = disturbed
      PROVE  ReadersOK'
  BY <1>2, <1>3, <1>9
<1>10. ASSUME NEW p \in Processes, NEW o \in Objects,
              RefuseWrite(p, o) \/ NotFound(p, o)
       PROVE  ReadersOK'
  BY <1>4, <1>9, <1>10, QuietSteps DEF RefuseWrite, NotFound, history
<1>11. ASSUME NEW p \in Processes,
              EndRead(p) \/ FailRead(p) \/ FailWrite(p) \/ EndWrite(p)
       PROVE  ReadersOK'
  BY <1>4, <1>9, <1>11, QuietSteps
  DEF EndRead, FailRead, FailWrite, EndWrite, history
<1>12. ASSUME NEW p \in Processes, Crash(p)
       PROVE  ReadersOK'
  BY <1>9, <1>12, QuietSteps, CallFields DEF Crash, history, TypeOK
<1> QED
  BY <1>1, <1>5, <1>6, <1>7, <1>8, <1>10, <1>11, <1>12
  DEF Next, Start, Advance

LEMMA StepUndisturbed ==
    ASSUME NoFailure, NoReadFailure, Dense = {}
    PROVE  TypeOK /\ ReadersOK /\ [Next]_vars =>
             \A p \in Processes :
                call[p].op = "read" /\ call'[p] = None /\ p \notin disturbed
                    => ret'[p] = "OK"
<1> SUFFICES ASSUME TypeOK, ReadersOK, [Next]_vars, NEW p \in Processes,
                    call[p].op = "read", call'[p] = None, p \notin disturbed
             PROVE  ret'[p] = "OK"
  OBVIOUS
<1>0. "write" \notin Faults /\ "crash" \notin Faults /\ "read" \notin Faults
  BY DEF NoFailure, NoReadFailure
<1> DEFINE o == call[p].obj
<1>1. /\ o \in Objects /\ call[p].pos \in Nat /\ call[p].size \in Nat
      /\ there[o] = Whole(o) /\ call[p].size = Pieces[o]
      /\ call[p].sound = TRUE
  BY CallFacts DEF TypeOK, ReadersOK, ReaderOK
<1>2. call'[p] # call[p]
  BY CallFields
<1>3. ~UNCHANGED vars
  BY <1>2 DEF vars
<1>5. ASSUME NEW q \in Processes,
             Start(q) \/ Advance(q) \/ FailWrite(q) \/ FailRead(q) \/ Crash(q)
      PROVE  q = p
  <2>1. Quiet(q) \/ WritePiece(q) \/ \E x \in Objects : BeginWrite(q, x)
    BY <1>5, QuietSteps DEF Start, Advance
  <2>2. \A r \in Processes \ {q} : call'[r] = call[r]
    BY <2>1, BeginWriteStep, WritePieceStep DEF Quiet
  <2> QED
    BY <1>2, <2>2
<1>6. ~Start(p) /\ ~WritePiece(p) /\ ~EndWrite(p)
  BY CallFields
  DEF Start, RefuseWrite, BeginWrite, NotFound, BeginRead, Starts,
      WritePiece, EndWrite
<1>7. ~FailWrite(p) /\ ~FailRead(p) /\ ~Crash(p)
  BY <1>0 DEF FailWrite, FailRead, Crash
<1>8. ~ReadPiece(p)
  <2> SUFFICES ASSUME ReadPiece(p) PROVE FALSE
    OBVIOUS
  <2>1. call[p].pos < call[p].size
    BY DEF ReadPiece
  <2>2. Size(o) = Pieces[o]
    BY <1>1, SizeFacts
  <2>3. ~(call[p].pos + 1 > Size(o))
    BY <1>1, <2>1, <2>2
  <2>4. call' = [call EXCEPT ![p] = Reading(o, call[p].pos + 1, call[p].size,
                    call[p].sound /\ call[p].pos + 1 \in there[o])]
    BY <2>3 DEF ReadPiece
  <2>5. call'[p].op = "read"
    BY <2>4, CallFields DEF TypeOK
  <2> QED
    BY <2>5, CallFields
<1>9. EndRead(p)
  BY <1>3, <1>5, <1>6, <1>7, <1>8 DEF Next, Advance
<1> QED
  BY <1>1, <1>9 DEF EndRead, Inflates, Returns, TypeOK

\* Where no write fails and no process dies, where reads meet no error of
\* their own and nothing compresses more than tenfold, a read that no write of
\* the same object overlaps succeeds.
THEOREM ReadsUndisturbed ==
    ASSUME NoFailure, NoReadFailure, Dense = {}
    PROVE  Spec => UndisturbedReads
<1>1. Init => ReadersOK
  BY CallFields DEF Init, ReadersOK, ReaderOK
<1> QED
  BY <1>1, StoreTypeCorrect, QuietIsWhole, StepReaders, StepUndisturbed, PTL
  DEF Spec, UndisturbedReads

-----------------------------------------------------------------------------
(* The store implements StoredObjects, under every fault                   *)

\* A reader that nobody disturbs reads a file that stays as it was measured.
Calm(p) ==
    call[p].op = "read" /\ p \notin disturbed
        => LET o == call[p].obj
           IN /\ o \in files /\ call[p].size = Size(o)
              /\ call[p].sound = TRUE <=> 1..call[p].pos \subseteq there[o]
              /\ \A q \in Processes : ~IsWriting(q, o)

AllCalm == \A p \in Processes : Calm(p)

LEMMA OthersCalm ==
    ASSUME TypeOK, AllCalm, NEW p \in Processes, NEW r \in Processes, p # r,
           \A q \in Processes \ {p} : call'[q] = call[q],
           r \in disturbed <=> r \in disturbed',
           files \subseteq files',
           call[r].op = "read" /\ r \notin disturbed =>
                /\ there'[call[r].obj] = there[call[r].obj]
                /\ call'[p].op = "write" => call'[p].obj # call[r].obj
    PROVE  Calm(r)'
<1>1. call'[r] = call[r]
  OBVIOUS
<1> DEFINE o == call[r].obj
<1> SUFFICES ASSUME call[r].op = "read", r \notin disturbed
             PROVE  /\ o \in files' /\ call[r].size = Size(o)'
                    /\ call[r].sound = TRUE <=> 1..call[r].pos \subseteq there'[o]
                    /\ \A q \in Processes : ~IsWriting(q, o)'
  BY <1>1 DEF Calm, Size
<1>2. Calm(r)
  BY DEF AllCalm
<1>3. /\ o \in files /\ call[r].size = Size(o)
      /\ call[r].sound = TRUE <=> 1..call[r].pos \subseteq there[o]
      /\ \A q \in Processes : ~IsWriting(q, o)
  BY <1>2 DEF Calm
<1>4. there'[o] = there[o] /\ Size(o)' = Size(o)
  BY DEF Size
<1> QED
  BY <1>3, <1>4 DEF IsWriting

LEMMA StepCalm ==
    TypeOK /\ FilesRemain /\ AllCalm /\ [Next]_vars => AllCalm'
<1> SUFFICES ASSUME TypeOK, FilesRemain, AllCalm, [Next]_vars
             PROVE  AllCalm'
  OBVIOUS
<1>1. CASE UNCHANGED vars
  BY <1>1 DEF vars, AllCalm, Calm, IsWriting, Size
<1>2. ASSUME NEW p \in Processes, Quiet(p), Calm(p)',
             \A r \in Processes \ {p} : r \in disturbed <=> r \in disturbed'
      PROVE  AllCalm'
  <2>1. ASSUME NEW r \in Processes, r # p PROVE Calm(r)'
    BY <1>2, <2>1, OthersCalm DEF Quiet
  <2> QED
    BY <1>2, <2>1 DEF AllCalm
<1>3. ASSUME NEW p \in Processes, call'[p].op # "read" PROVE Calm(p)'
  BY <1>3 DEF Calm
<1>4. ASSUME NEW p \in Processes, NEW code, Returns(p, code)
      PROVE  call'[p].op # "read"
  BY <1>4, CallFields DEF Returns, TypeOK
<1>5. ASSUME NEW p \in Processes, NEW o \in Objects, BeginRead(p, o)
      PROVE  AllCalm'
  <2>0. PICK sound : sound = TRUE
    OBVIOUS
  <2>1. call'[p] = Reading(o, 0, Size(o), sound) /\ o \in files
    BY <1>5, <2>0 DEF BeginRead, TypeOK
  <2>2. /\ call'[p].obj = o /\ call'[p].size = Size(o) /\ call'[p].pos = 0
        /\ call'[p].sound = sound /\ call'[p].op = "read"
    BY <2>1, CallFields
  <2>3. Quiet(p)
    BY <1>5, QuietSteps
  <2>4. \A r \in Processes \ {p} : r \in disturbed <=> r \in disturbed'
    BY <1>5 DEF BeginRead
  <2>5. ASSUME p \notin disturbed' PROVE \A q \in Processes : ~IsWriting(q, o)
    BY <1>5, <2>5 DEF BeginRead
  <2>6. ASSUME p \notin disturbed', NEW q \in Processes
        PROVE  ~IsWriting(q, o)'
    BY <2>2, <2>3, <2>5, <2>6 DEF Quiet, IsWriting
  <2>7. Size(o)' = Size(o) /\ files' = files /\ there' = there
    BY <2>3 DEF Quiet, Size
  <2>8. 1..0 \subseteq there[o]
    OBVIOUS
  <2>9. Calm(p)'
    <3> SUFFICES ASSUME p \notin disturbed'
                 PROVE  /\ o \in files' /\ call'[p].size = Size(o)'
                        /\ call'[p].sound = TRUE <=> 1..call'[p].pos \subseteq there'[o]
                        /\ \A q \in Processes : ~IsWriting(q, o)'
      BY <2>2 DEF Calm, IsWriting, Size
    <3> QED
      BY <2>0, <2>1, <2>2, <2>6, <2>7, <2>8
  <2> QED
    BY <1>2, <2>3, <2>4, <2>9
<1>6. ASSUME NEW p \in Processes, NEW o \in Objects, BeginWrite(p, o)
      PROVE  AllCalm'
  <2>1. disturbed' = disturbed \cup {q \in Processes : IsReading(q, o)}
    BY <1>6 DEF BeginWrite
  <2>2. call'[p].op = "write" /\ call'[p].obj = o /\ files \subseteq files'
    BY <1>6, BeginWriteStep, CallFields
  <2>3. ASSUME NEW r \in Processes, r # p PROVE Calm(r)'
    <3>1. call'[r] = call[r]
      BY <1>6, <2>3, BeginWriteStep
    <3>2. CASE IsReading(r, o)
      BY <2>1, <3>2 DEF Calm
    <3>3. CASE ~IsReading(r, o)
      <4>1. r \in disturbed <=> r \in disturbed'
        BY <2>1, <3>3
      <4>2. call[r].op = "read" => call[r].obj \in Objects \ {o}
        BY <3>3, CallFacts DEF TypeOK, IsReading
      <4>3. call[r].op = "read" => there'[call[r].obj] = there[call[r].obj]
        BY <1>6, <4>2, BeginWriteStep
      <4>4. \A q \in Processes \ {p} : call'[q] = call[q]
        BY <1>6, BeginWriteStep
      <4> QED
        BY <2>2, <2>3, <4>1, <4>2, <4>3, <4>4, OthersCalm
    <3> QED
      BY <3>2, <3>3
  <2>4. Calm(p)'
    BY <1>3, <2>2
  <2> QED
    BY <2>3, <2>4 DEF AllCalm
<1>7. ASSUME NEW p \in Processes, WritePiece(p)
      PROVE  AllCalm'
  <2> DEFINE o == call[p].obj
  <2>1. IsWriting(p, o) /\ o \in Objects
    BY <1>7, WritePieceStep DEF IsWriting
  <2>2. call'[p].op = "write" /\ call'[p].obj = o /\ disturbed' = disturbed
        /\ files' = files
    BY <1>7, WritePieceStep, CallFields DEF history
  <2>3. /\ \A q \in Processes \ {p} : call'[q] = call[q]
        /\ \A x \in Objects \ {o} : there'[x] = there[x]
    BY <1>7, WritePieceStep
  <2> HIDE DEF o
  <2>4. ASSUME NEW r \in Processes, r # p PROVE Calm(r)'
    <3>1. call[r].op = "read" => call[r].obj \in Objects
      BY CallFacts DEF TypeOK
    <3>2. call[r].op = "read" /\ r \notin disturbed => call[r].obj # o
      BY <2>1 DEF AllCalm, Calm
    <3> QED
      BY <2>2, <2>3, <2>4, <3>1, <3>2, OthersCalm
  <2>5. Calm(p)'
    BY <1>3, <2>2
  <2> QED
    BY <2>4, <2>5 DEF AllCalm
<1>8. ASSUME NEW p \in Processes, ReadPiece(p)
      PROVE  AllCalm'
  <2>1. Quiet(p) /\ disturbed' = disturbed /\ call[p].op = "read"
    BY <1>8, QuietSteps DEF ReadPiece, history
  <2>3. /\ call[p].obj \in Objects /\ call[p].pos \in Nat
        /\ call[p].size \in Nat /\ call[p].pos < call[p].size
    BY <1>8, <2>1, CallFacts DEF TypeOK, ReadPiece
  <2>a. PICK o \in Objects, n \in Nat :
            o = call[p].obj /\ n = call[p].pos + 1
    BY <2>3
  <2>b. PICK sound : sound = (call[p].sound /\ n \in there[o])
    OBVIOUS
  <2>0. /\ o = call[p].obj /\ n = call[p].pos + 1
        /\ sound = (call[p].sound /\ n \in there[o])
    BY <2>a, <2>b
  <2>2. \/ call' = [call EXCEPT ![p] = Reading(o, n, call[p].size, sound)]
        \/ Returns(p, "ERROR")
    BY <1>8, <2>0 DEF ReadPiece
  <2>4. CASE call' = [call EXCEPT ![p] = Reading(o, n, call[p].size, sound)]
    <3>1. call'[p] = Reading(o, n, call[p].size, sound)
      BY <2>4 DEF TypeOK
    <3>2. /\ call'[p].obj = o /\ call'[p].size = call[p].size
          /\ call'[p].sound = sound /\ call'[p].pos = n
      BY <3>1, CallFields
    <3>3. files' = files /\ there' = there /\ Size(o)' = Size(o)
      BY <2>1 DEF Quiet, Size
    <3> SUFFICES ASSUME p \notin disturbed, call'[p].op = "read"
                 PROVE  /\ o \in files /\ call[p].size = Size(o)
                        /\ sound = TRUE <=> 1..n \subseteq there[o]
                        /\ \A q \in Processes :
                              ~(call'[q].op = "write" /\ call'[q].obj = o)
      BY <1>2, <2>1, <3>2, <3>3 DEF Calm, Size, IsWriting
    <3>4. /\ o \in files /\ call[p].size = Size(o)
          /\ \A q \in Processes : ~IsWriting(q, o)
      BY <2>0, <2>1 DEF AllCalm, Calm
    <3>5. call[p].sound = TRUE <=> 1..call[p].pos \subseteq there[o]
      BY <2>0, <2>1 DEF AllCalm, Calm
    <3>6. 1..n = 1..call[p].pos \cup {n}
      BY <2>0, <2>3
    <3>7. sound = TRUE <=> 1..n \subseteq there[o]
      <4>1. 1..n \subseteq there[o] <=> 1..call[p].pos \subseteq there[o] /\ n \in there[o]
        BY <3>6
      <4>2. call[p].sound \in BOOLEAN
        BY <2>1, CallFacts DEF TypeOK
      <4> QED
        BY <2>0, <3>5, <4>1, <4>2, Zenon
    <3> QED
      BY <2>1, <3>2, <3>4, <3>7 DEF Quiet, IsWriting
  <2>5. CASE Returns(p, "ERROR")
    BY <1>2, <1>3, <1>4, <2>1, <2>5
  <2> QED
    BY <2>2, <2>4, <2>5
<1>9. ASSUME NEW p \in Processes, Quiet(p), call'[p].op # "read",
             disturbed' = disturbed
      PROVE  AllCalm'
  BY <1>2, <1>3, <1>9
<1>10. ASSUME NEW p \in Processes, NEW o \in Objects,
              RefuseWrite(p, o) \/ NotFound(p, o)
       PROVE  AllCalm'
  BY <1>4, <1>9, <1>10, QuietSteps DEF RefuseWrite, NotFound, history
<1>11. ASSUME NEW p \in Processes,
              EndRead(p) \/ FailRead(p) \/ FailWrite(p) \/ EndWrite(p)
       PROVE  AllCalm'
  BY <1>4, <1>9, <1>11, QuietSteps
  DEF EndRead, FailRead, FailWrite, EndWrite, history
<1>12. ASSUME NEW p \in Processes, Crash(p)
       PROVE  AllCalm'
  BY <1>9, <1>12, QuietSteps, CallFields DEF Crash, history, TypeOK
<1> QED
  BY <1>1, <1>5, <1>6, <1>7, <1>8, <1>10, <1>11, <1>12
  DEF Next, Start, Advance

States == [o \in Objects |-> StateOf(o)]
Calls == [p \in Processes |-> CallOf(p)]

LEMMA CallViews ==
    ASSUME TypeOK, NEW p \in Processes
    PROVE  /\ CallOf(p) = Stored!Idle <=> call[p].op = "none"
           /\ \A o : /\ CallOf(p) = Stored!Write(o) <=> IsWriting(p, o)
                     /\ CallOf(p) = Stored!Read(o) <=> IsReading(p, o)
<1>1. call[p].op \in {"none", "write", "read"}
  BY CallFacts DEF TypeOK
<1>2. CASE call[p].op = "none"
  <2>1. CallOf(p) = Stored!Idle
    BY <1>2 DEF CallOf, None, Stored!Idle
  <2>2. \A o : CallOf(p) # Stored!Write(o) /\ CallOf(p) # Stored!Read(o)
    BY <2>1 DEF Stored!Idle, Stored!Write, Stored!Read
  <2> QED
    BY <1>2, <2>1, <2>2 DEF IsWriting, IsReading
<1>3. CASE call[p].op # "none"
  <2>1. CallOf(p) = [op |-> call[p].op, obj |-> call[p].obj]
    BY <1>3 DEF CallOf
  <2>2. CallOf(p) # Stored!Idle
    BY <1>3, <2>1 DEF Stored!Idle
  <2>3. \A o : CallOf(p) = Stored!Write(o) <=> IsWriting(p, o)
    BY <2>1 DEF Stored!Write, IsWriting
  <2>4. \A o : CallOf(p) = Stored!Read(o) <=> IsReading(p, o)
    BY <2>1 DEF Stored!Read, IsReading
  <2> QED
    BY <1>3, <2>2, <2>3, <2>4
<1> QED
  BY <1>2, <1>3

LEMMA WritersAre ==
    ASSUME TypeOK, NEW o
    PROVE  /\ Stored!Writers(o) = {p \in Processes : IsWriting(p, o)}
           /\ Stored!Readers(o) = {p \in Processes : IsReading(p, o)}
<1>1. \A p \in Processes : /\ CallOf(p) = Stored!Write(o) <=> IsWriting(p, o)
                           /\ CallOf(p) = Stored!Read(o) <=> IsReading(p, o)
  BY CallViews
<1>2. \A p \in Processes : Calls[p] = CallOf(p)
  BY DEF Calls
<1>3. /\ Stored!Writers(o) = {p \in Processes : Calls[p] = Stored!Write(o)}
      /\ Stored!Readers(o) = {p \in Processes : Calls[p] = Stored!Read(o)}
  BY DEF Stored!Writers, Stored!Readers, Calls
<1> QED
  BY <1>1, <1>2, <1>3

\* One process goes from one call to another.
LEMMA CallsStep ==
    ASSUME NEW p \in Processes, \A q \in Processes \ {p} : call'[q] = call[q]
    PROVE  Calls' = [Calls EXCEPT ![p] = CallOf(p)']
<1>1. \A q \in Processes \ {p} : CallOf(q)' = CallOf(q)
  BY DEF CallOf
<1>2. Calls' = [q \in Processes |-> CallOf(q)']
  BY DEF Calls
<1> QED
  BY <1>1, <1>2 DEF Calls

LEMMA SameState ==
    ASSUME NEW o \in Objects, o \in files <=> o \in files', there'[o] = there[o],
           \A n \in Whole(o) :
              (\E q \in Processes : IsWriting(q, o)' /\ call'[q].pos < n)
              <=> \E q \in Processes : IsWriting(q, o) /\ call[q].pos < n
    PROVE  StateOf(o)' = StateOf(o)
<1>1. IsComing(o)' <=> IsComing(o)
  BY DEF IsComing, Whole
<1>2. Whole(o)' = Whole(o)
  BY DEF Whole
<1> QED
  BY <1>1, <1>2 DEF StateOf

\* The step of a process that has nothing to bring.
LEMMA QuietStates ==
    ASSUME TypeOK, NEW p \in Processes, Quiet(p),
           \A o \in Objects : \A n \in Whole(o) : ~(IsWriting(p, o) /\ call[p].pos < n)
    PROVE  States' = States
<1>1. ASSUME NEW o \in Objects PROVE StateOf(o)' = StateOf(o)
  <2>1. ASSUME NEW n \in Whole(o)
        PROVE  (\E q \in Processes : IsWriting(q, o)' /\ call'[q].pos < n)
               <=> \E q \in Processes : IsWriting(q, o) /\ call[q].pos < n
    BY DEF Quiet, IsWriting
  <2> QED
    BY <2>1, SameState DEF Quiet
<1> QED
  BY <1>1 DEF States

\* What a state says of the pieces.
LEMMA StateFacts ==
    ASSUME TypeOK, FilesRemain, NEW o \in Objects
    PROVE  /\ StateOf(o) \in {"absent", "whole", "coming", "broken"}
           /\ StateOf(o) = "absent" <=> o \notin files
           /\ StateOf(o) = "whole" <=> o \in files /\ there[o] = Whole(o)
           /\ StateOf(o) = "coming" <=>
                 o \in files /\ there[o] # Whole(o) /\ IsComing(o)
           /\ \A p \in Processes : IsWriting(p, o) => o \in files
           /\ there[o] # {} => o \in files \/ o \notin files
<1>1. \A p \in Processes : IsWriting(p, o) => o \in files
  BY DEF FilesRemain, IsWriting
<1> QED
  BY <1>1 DEF StateOf

RefinesInv == TypeOK /\ FilesRemain /\ RepairedByRewrite /\ AllCalm

StoredStep == [Stored!Next]_(Stored!vars)

LEMMA StoredSame ==
    ASSUME States' = States, Calls' = Calls,
           UNCHANGED <<opener, disturbed, ret>>
    PROVE  StoredStep
  BY DEF StoredStep, Stored!vars, States, Calls

\* Begin to store.
LEMMA BeginWriteRefines ==
    ASSUME RefinesInv, NEW p \in Processes, NEW o \in Objects, BeginWrite(p, o)
    PROVE  Stored!BeginWrite(p, o)
<1>1. TypeOK
  BY DEF RefinesInv
<1>2. /\ call[p].op = "none" /\ call'[p] = Writing(o, 0)
      /\ \A q \in Processes \ {p} : call'[q] = call[q]
      /\ files' = files \cup {o} /\ there'[o] = {}
      /\ \A x \in Objects \ {o} : there'[x] = there[x]
  BY <1>1, BeginWriteStep
<1>3. call'[p].op = "write" /\ call'[p].obj = o /\ call'[p].pos = 0
  BY <1>2, CallFields
<1>4. Calls[p] = Stored!Idle
  BY <1>1, <1>2, CallViews DEF Calls
<1>5. Calls' = [Calls EXCEPT ![p] = Stored!Write(o)]
  <2>1. CallOf(p)' = Stored!Write(o)
    BY <1>3 DEF CallOf, Stored!Write
  <2> QED
    BY <1>2, <2>1, CallsStep
<1>6. StateOf(o)' = "coming"
  <2>1. Pieces[o] \in Nat \ {0}
    BY ObjectsAssumption
  <2>2. Whole(o)' # {} /\ \A n \in Whole(o)' : 0 < n
    BY <2>1 DEF Whole
  <2>3. IsComing(o)'
    BY <1>3, <2>2 DEF IsComing, IsWriting
  <2> QED
    BY <1>2, <2>2, <2>3 DEF StateOf
<1>7. ASSUME NEW x \in Objects \ {o} PROVE StateOf(x)' = StateOf(x)
  <2>1. ASSUME NEW n \in Whole(x)
        PROVE  (\E q \in Processes : IsWriting(q, x)' /\ call'[q].pos < n)
               <=> \E q \in Processes : IsWriting(q, x) /\ call[q].pos < n
    BY <1>2, <1>3 DEF IsWriting
  <2> QED
    BY <1>2, <2>1, SameState
<1>8. States' = [States EXCEPT ![o] = "coming"]
  <2>1. States' = [x \in Objects |-> StateOf(x)']
    BY DEF States
  <2> QED
    BY <1>6, <1>7, <2>1 DEF States
<1>9. disturbed' = disturbed \cup Stored!Readers(o)
  BY <1>1, WritersAre DEF BeginWrite
<1>10. opener' = [opener EXCEPT ![o] = p] /\ ret' = ret
  BY DEF BeginWrite
<1> QED
  BY <1>4, <1>5, <1>8, <1>9, <1>10 DEF Stored!BeginWrite, States, Calls

\* A piece is written: the last that was missing, or one of several.
LEMMA WritePieceRefines ==
    ASSUME RefinesInv, NEW p \in Processes, WritePiece(p)
    PROVE  StoredStep
<1>1. TypeOK /\ FilesRemain
  BY DEF RefinesInv
<1>a. call[p].obj \in Objects /\ call[p].pos \in Nat
  BY <1>1, WritePieceStep
<1>b. PICK o \in Objects, n \in Nat : o = call[p].obj /\ n = call[p].pos + 1
  BY <1>a
<1>2. /\ call[p].op = "write" /\ call[p].obj = o /\ call[p].pos \in Nat
      /\ n = call[p].pos + 1 /\ n \in Whole(o) /\ call'[p] = Writing(o, n)
      /\ \A q \in Processes \ {p} : call'[q] = call[q]
      /\ there'[o] = there[o] \cup {n}
      /\ \A x \in Objects \ {o} : there'[x] = there[x]
      /\ files' = files /\ opener' = opener /\ disturbed' = disturbed
  BY <1>1, <1>b, WritePieceStep DEF history
<1>3. call'[p].op = "write" /\ call'[p].obj = o /\ call'[p].pos = n
  BY <1>2, CallFields
<1>4. ret' = ret /\ IsWriting(p, o) /\ n \in Nat /\ call[p].pos < n
      /\ \A m \in Nat : m # n => (call[p].pos < m <=> n < m)
  BY <1>2 DEF WritePiece, IsWriting
<1>5. Calls' = Calls
  <2>1. CallOf(p)' = CallOf(p)
    BY <1>2, <1>3 DEF CallOf
  <2>2. Calls' = [Calls EXCEPT ![p] = CallOf(p)']
    BY <1>2, CallsStep
  <2> QED
    BY <2>1, <2>2 DEF Calls
<1>6. ASSUME NEW x \in Objects \ {o} PROVE StateOf(x)' = StateOf(x)
  <2>1. ASSUME NEW m \in Whole(x)
        PROVE  (\E q \in Processes : IsWriting(q, x)' /\ call'[q].pos < m)
               <=> \E q \in Processes : IsWriting(q, x) /\ call[q].pos < m
    BY <1>2, <1>3 DEF IsWriting
  <2> QED
    BY <1>2, <2>1, SameState
<1>7. /\ Pieces[o] \in Nat \ {0} /\ Whole(o)' = Whole(o) /\ Whole(o) \subseteq Nat
      /\ there[o] \subseteq Whole(o) /\ o \in files
  <2>1. o \in files
    BY <1>1, <1>2 DEF FilesRemain
  <2> QED
    BY <1>1, <1>2, <2>1, ObjectsAssumption DEF Whole, TypeOK
<1>8. IsComing(o)' <=> IsComing(o)
  <2>1. ASSUME NEW m \in Whole(o), m # n
        PROVE  (\E q \in Processes : IsWriting(q, o)' /\ call'[q].pos < m)
               <=> \E q \in Processes : IsWriting(q, o) /\ call[q].pos < m
    <3>1. m \in Nat
      BY <1>7
    <3>2. IsWriting(p, o)' /\ (call'[p].pos < m <=> call[p].pos < m)
      BY <1>3, <1>4, <2>1, <3>1 DEF IsWriting
    <3>3. \A q \in Processes \ {p} :
              /\ IsWriting(q, o)' <=> IsWriting(q, o)
              /\ call'[q].pos < m <=> call[q].pos < m
      BY <1>2 DEF IsWriting
    <3> QED
      BY <1>4, <3>2, <3>3
  <2>2. \E q \in Processes : IsWriting(q, o) /\ call[q].pos < n
    BY <1>4
  <2>3. n \in there'[o] /\ \A m : m # n => (m \in there'[o] <=> m \in there[o])
    BY <1>2
  <2> QED
    BY <1>7, <2>1, <2>2, <2>3 DEF IsComing
<1>9. CASE there'[o] = Whole(o) /\ there[o] # Whole(o)
  <2>1. Whole(o) \ there[o] = {n}
    <3>1. n \in there[o] => there[o] \cup {n} = there[o]
      OBVIOUS
    <3>2. n \notin there[o]
      BY <1>2, <1>9, <3>1
    <3>3. Whole(o) = there[o] \cup {n}
      BY <1>2, <1>9
    <3> QED
      BY <3>2, <3>3
  <2>2. IsComing(o)
    BY <1>4, <2>1 DEF IsComing
  <2>3. StateOf(o) = "coming" /\ StateOf(o)' = "whole"
    BY <1>2, <1>7, <1>9, <2>2 DEF StateOf
  <2>4. States' = [States EXCEPT ![o] = "whole"] /\ States[o] = "coming"
    <3>1. States' = [x \in Objects |-> StateOf(x)']
      BY DEF States
    <3> QED
      BY <1>2, <1>6, <2>3, <3>1 DEF States
  <2>5. Stored!Writers(o) # {}
    BY <1>1, <1>4, WritersAre
  <2>6. Stored!Complete(o)
    BY <1>2, <1>4, <1>5, <2>4, <2>5 DEF Stored!Complete, States, Calls
  <2> QED
    BY <1>2, <2>6 DEF StoredStep, Stored!Next
<1>10. CASE there'[o] = Whole(o) <=> there[o] = Whole(o)
  <2>1. StateOf(o)' = StateOf(o)
    BY <1>2, <1>7, <1>8, <1>10 DEF StateOf
  <2>2. States' = States
    BY <1>6, <2>1 DEF States
  <2> QED
    BY <1>2, <1>4, <1>5, <2>2, StoredSame
<1>11. there[o] = Whole(o) => there'[o] = Whole(o)
  BY <1>2
<1> QED
  BY <1>9, <1>10, <1>11

\* One call returns: the rest is as it was.
LEMMA ReturnRefines ==
    ASSUME TypeOK, NEW p \in Processes, NEW code, Returns(p, code)
    PROVE  /\ Calls' = [Calls EXCEPT ![p] = Stored!Idle]
           /\ ret' = [ret EXCEPT ![p] = code]
<1>1. call'[p] = None /\ \A q \in Processes \ {p} : call'[q] = call[q]
  BY DEF Returns, TypeOK
<1>2. CallOf(p)' = Stored!Idle
  BY <1>1, CallFields DEF CallOf, None, Stored!Idle
<1> QED
  BY <1>1, <1>2, CallsStep DEF Returns

\* The step of a process that may leave pieces behind: nothing else changes,
\* and what was coming is coming still from others, or broken.
LEMMA WriterGone ==
    ASSUME TypeOK, FilesRemain, NEW p \in Processes, Quiet(p),
           NEW o \in Objects, IsWriting(p, o)
    PROVE  /\ o \in files
           /\ \A x \in Objects \ {o} : StateOf(x)' = StateOf(x)
           /\ \/ /\ StateOf(o)' = StateOf(o)
                 /\ StateOf(o) = "coming" =>
                      \E q \in Processes \ {p} : IsWriting(q, o)
              \/ StateOf(o) = "coming" /\ StateOf(o)' = "broken"
<1>1. o \in files /\ o \in files' /\ there'[o] = there[o] /\ Whole(o)' = Whole(o)
  BY DEF FilesRemain, IsWriting, Quiet, Whole
<1>2. ASSUME NEW x \in Objects \ {o} PROVE StateOf(x)' = StateOf(x)
  <2>1. ASSUME NEW n \in Whole(x)
        PROVE  (\E q \in Processes : IsWriting(q, x)' /\ call'[q].pos < n)
               <=> \E q \in Processes : IsWriting(q, x) /\ call[q].pos < n
    BY DEF Quiet, IsWriting
  <2> QED
    BY <2>1, SameState DEF Quiet
<1>3. CASE there[o] = Whole(o)
  <2>1. StateOf(o) = "whole" /\ StateOf(o)' = "whole"
    BY <1>1, <1>3 DEF StateOf
  <2> QED
    BY <1>1, <1>2, <2>1
<1>4. CASE there[o] # Whole(o)
  <2>1. IsComing(o)' => IsComing(o) /\ \E q \in Processes \ {p} : IsWriting(q, o)
    <3> SUFFICES ASSUME IsComing(o)'
                 PROVE  IsComing(o) /\ \E q \in Processes \ {p} : IsWriting(q, o)
      OBVIOUS
    <3>1. ASSUME NEW n \in Whole(o) \ there[o]
          PROVE  \E q \in Processes \ {p} : IsWriting(q, o) /\ call[q].pos < n
      BY <1>1, <3>1 DEF IsComing, IsWriting, Quiet
    <3>2. Whole(o) \ there[o] # {}
      BY <1>4 DEF TypeOK
    <3> QED
      BY <3>1, <3>2 DEF IsComing
  <2>2. /\ StateOf(o) = IF IsComing(o) THEN "coming" ELSE "broken"
        /\ StateOf(o)' = IF IsComing(o)' THEN "coming" ELSE "broken"
    BY <1>1, <1>4 DEF StateOf
  <2> QED
    BY <1>1, <1>2, <2>1, <2>2
<1> QED
  BY <1>3, <1>4

\* A write fails, or its process is killed.
LEMMA StopWriteRefines ==
    ASSUME RefinesInv, NEW p \in Processes, NEW o \in Objects, IsWriting(p, o),
           Quiet(p), UNCHANGED <<opener, disturbed>>,
           \/ "write" \in Faults /\ Returns(p, "ERROR")
           \/ "crash" \in Faults /\ call' = [call EXCEPT ![p] = None] /\ UNCHANGED ret
    PROVE  Stored!StopWrite(p, o)
<1>1. TypeOK /\ FilesRemain
  BY DEF RefinesInv
<1>2. p \in Stored!Writers(o)
  BY <1>1, WritersAre
<1>3. \/ "write" \in Faults /\ Calls' = [Calls EXCEPT ![p] = Stored!Idle]
         /\ ret' = [ret EXCEPT ![p] = "ERROR"]
      \/ "crash" \in Faults /\ Calls' = [Calls EXCEPT ![p] = Stored!Idle]
         /\ UNCHANGED ret
  <2>1. CASE call' = [call EXCEPT ![p] = None]
    <3>1. call'[p] = None /\ \A q \in Processes \ {p} : call'[q] = call[q]
      BY <1>1, <2>1 DEF TypeOK
    <3>2. CallOf(p)' = Stored!Idle
      BY <3>1, CallFields DEF CallOf, None, Stored!Idle
    <3>3. Calls' = [Calls EXCEPT ![p] = Stored!Idle]
      BY <3>1, <3>2, CallsStep
    <3> QED
      BY <3>3 DEF Returns
  <2> QED
    BY <2>1 DEF Returns
<1>4. \/ States' = States /\ (States[o] = "coming" => Stored!Writers(o) # {p})
      \/ States[o] = "coming" /\ States' = [States EXCEPT ![o] = "broken"]
  <2>1. States' = [x \in Objects |-> StateOf(x)']
    BY DEF States
  <2>2. \A x \in Objects \ {o} : StateOf(x)' = StateOf(x)
    BY <1>1, WriterGone
  <2>3. CASE /\ StateOf(o)' = StateOf(o)
             /\ StateOf(o) = "coming" => \E q \in Processes \ {p} : IsWriting(q, o)
    <3>1. States' = States
      BY <2>1, <2>2, <2>3 DEF States
    <3>2. States[o] = "coming" => Stored!Writers(o) # {p}
      BY <1>1, <2>3, WritersAre DEF States
    <3> QED
      BY <3>1, <3>2
  <2>4. CASE StateOf(o) = "coming" /\ StateOf(o)' = "broken"
    BY <2>1, <2>2, <2>4 DEF States
  <2> QED
    BY <1>1, <2>3, <2>4, WriterGone
<1> QED
  BY <1>2, <1>3, <1>4 DEF Stored!StopWrite, Stored!Returns, States, Calls

\* A write succeeds.
LEMMA EndWriteRefines ==
    ASSUME RefinesInv, NEW p \in Processes, NEW o \in Objects, IsWriting(p, o),
           EndWrite(p)
    PROVE  Stored!EndWrite(p, o)
<1>1. TypeOK /\ FilesRemain /\ RepairedByRewrite
  BY DEF RefinesInv
<1>2. /\ Quiet(p) /\ Returns(p, "OK") /\ call[p].pos = Pieces[o]
      /\ UNCHANGED <<opener, disturbed>>
  BY <1>1, QuietSteps DEF EndWrite, IsWriting
<1>3. Pieces[o] \in Nat \ {0} /\ o \in files
  BY <1>1, ObjectsAssumption DEF FilesRemain, IsWriting
<1>4. \A x \in Objects : \A n \in Whole(x) : ~(IsWriting(p, x) /\ call[p].pos < n)
  <2> SUFFICES ASSUME NEW x \in Objects, NEW n \in Whole(x),
                      IsWriting(p, x), call[p].pos < n
               PROVE  FALSE
    OBVIOUS
  <2>1. x = o
    BY DEF IsWriting
  <2> QED
    BY <1>2, <1>3, <2>1 DEF Whole
<1>5. States' = States
  BY <1>1, <1>2, <1>4, QuietStates
<1>6. p \in Stored!Writers(o)
  BY <1>1, WritersAre
<1>7. opener[o] = p => States[o] = "whole"
  <2> SUFFICES ASSUME opener[o] = p PROVE StateOf(o) = "whole"
    BY DEF States
  <2>1. 1..call[p].pos \subseteq there[o]
    BY <1>1 DEF RepairedByRewrite
  <2>2. there[o] = Whole(o)
    BY <1>1, <1>2, <2>1 DEF TypeOK, Whole
  <2> QED
    BY <1>3, <2>2 DEF StateOf
<1>8. States[o] = "coming" => Stored!Writers(o) # {p}
  <2> SUFFICES ASSUME StateOf(o) = "coming" PROVE Stored!Writers(o) # {p}
    BY DEF States
  <2>1. there[o] # Whole(o) /\ IsComing(o)
    BY <1>1, StateFacts
  <2>2. PICK n \in Whole(o) : n \notin there[o]
    BY <1>1, <2>1 DEF TypeOK
  <2>3. PICK q \in Processes : IsWriting(q, o) /\ call[q].pos < n
    BY <2>1, <2>2 DEF IsComing
  <2>4. q # p
    BY <1>4, <2>3
  <2> QED
    BY <1>1, <2>3, <2>4, WritersAre
<1>9. Calls' = [Calls EXCEPT ![p] = Stored!Idle] /\ ret' = [ret EXCEPT ![p] = "OK"]
  BY <1>1, <1>2, ReturnRefines
<1> QED
  BY <1>2, <1>5, <1>6, <1>7, <1>8, <1>9
  DEF Stored!EndWrite, Stored!Returns, States, Calls

\* A call that does nothing.
LEMMA RefuseRefines ==
    ASSUME RefinesInv, NEW p \in Processes, NEW o \in Objects,
           RefuseWrite(p, o) \/ NotFound(p, o)
    PROVE  Stored!Refuse(p, o)
<1>1. TypeOK /\ FilesRemain
  BY DEF RefinesInv
<1>2. Quiet(p) /\ call[p].op = "none" /\ UNCHANGED <<opener, disturbed>>
  BY <1>1, QuietSteps DEF RefuseWrite, NotFound, history
<1>3. States' = States /\ Calls[p] = Stored!Idle
  BY <1>1, <1>2, QuietStates, CallViews DEF IsWriting, Calls
<1>4. PICK code : /\ Returns(p, code)
                  /\ \/ code \in {"INVALID", "ERROR"}
                     \/ code = "NOTFOUND" /\ States[o] = "absent"
  BY DEF RefuseWrite, NotFound, States, StateOf
<1>5. Calls' = [Calls EXCEPT ![p] = Stored!Idle] /\ ret' = [ret EXCEPT ![p] = code]
  BY <1>1, <1>4, ReturnRefines
<1> QED
  BY <1>2, <1>3, <1>4, <1>5 DEF Stored!Refuse, Stored!Returns, States, Calls

\* Begin to read.
LEMMA BeginReadRefines ==
    ASSUME RefinesInv, NEW p \in Processes, NEW o \in Objects, BeginRead(p, o)
    PROVE  Stored!BeginRead(p, o)
<1>1. TypeOK
  BY DEF RefinesInv
<1>2. Quiet(p) /\ call[p].op = "none" /\ UNCHANGED <<opener, ret>>
  BY <1>1, QuietSteps DEF BeginRead
<1>3. States' = States /\ Calls[p] = Stored!Idle
  BY <1>1, <1>2, QuietStates, CallViews DEF IsWriting, Calls
<1>4. States[o] # "absent"
  BY DEF BeginRead, States, StateOf
<1>5. disturbed' = IF Stored!Writers(o) = {} THEN disturbed \ {p} ELSE disturbed \cup {p}
  <2>1. Stored!Writers(o) = {q \in Processes : IsWriting(q, o)}
    BY <1>1, WritersAre
  <2> QED
    BY <2>1 DEF BeginRead
<1>6. Calls' = [Calls EXCEPT ![p] = Stored!Read(o)]
  <2>1. PICK sound : sound = TRUE
    OBVIOUS
  <2>2. call'[p] = Reading(o, 0, Size(o), sound)
    BY <1>1, <2>1 DEF BeginRead, TypeOK
  <2>3. call'[p].op = "read" /\ call'[p].obj = o
    BY <2>2, CallFields
  <2>4. CallOf(p)' = Stored!Read(o)
    BY <2>3 DEF CallOf, Stored!Read
  <2> QED
    BY <1>2, <2>4, CallsStep DEF Quiet
<1> QED
  BY <1>2, <1>3, <1>4, <1>5, <1>6 DEF Stored!BeginRead, States, Calls

\* A read comes to its end, or finds the file shorter than it was.
LEMMA EndReadRefines ==
    ASSUME RefinesInv, NEW p \in Processes, NEW o \in Objects, IsReading(p, o),
           Quiet(p), UNCHANGED <<opener, disturbed>>,
           NEW code \in {"OK", "ERROR"}, Returns(p, code),
           code = "OK" => o \notin Dense,
           p \notin disturbed => (code = "OK" <=> there[o] = Whole(o) /\ o \notin Dense)
    PROVE  Stored!EndRead(p, o)
<1>1. TypeOK /\ FilesRemain /\ AllCalm
  BY DEF RefinesInv
<1>2. States' = States /\ p \in Stored!Readers(o)
  BY <1>1, QuietStates, WritersAre DEF IsWriting, IsReading
<1>3. p \notin disturbed => (code = "OK" <=> States[o] = "whole" /\ o \notin Dense)
  <2>1. p \notin disturbed => o \in files
    BY <1>1 DEF AllCalm, Calm, IsReading
  <2>2. States[o] = "whole" <=> o \in files /\ there[o] = Whole(o)
    BY <1>1, StateFacts DEF States
  <2> QED
    BY <2>1, <2>2
<1>4. Calls' = [Calls EXCEPT ![p] = Stored!Idle] /\ ret' = [ret EXCEPT ![p] = code]
  BY <1>1, ReturnRefines
<1> QED
  BY <1>2, <1>3, <1>4 DEF Stored!EndRead, Stored!Returns, States, Calls

LEMMA ReadPieceRefines ==
    ASSUME RefinesInv, NEW p \in Processes, NEW o \in Objects, IsReading(p, o),
           ReadPiece(p)
    PROVE  StoredStep
<1>1. TypeOK /\ AllCalm
  BY DEF RefinesInv
<1>2. Quiet(p) /\ UNCHANGED <<opener, disturbed>>
  BY <1>1, QuietSteps DEF ReadPiece, history
<1>3. /\ call[p].op = "read" /\ call[p].obj = o /\ call[p].pos \in Nat
      /\ call[p].size \in Nat /\ call[p].pos < call[p].size
  BY <1>1, CallFacts DEF TypeOK, ReadPiece, IsReading
<1>4. PICK n \in Nat : n = call[p].pos + 1
  BY <1>3
<1>5. PICK sound : sound = (call[p].sound /\ n \in there[o])
  OBVIOUS
<1>6. \/ call' = [call EXCEPT ![p] = Reading(o, n, call[p].size, sound)] /\ ret' = ret
      \/ n > Size(o) /\ Returns(p, "ERROR")
  BY <1>3, <1>4, <1>5 DEF ReadPiece
<1>7. CASE call' = [call EXCEPT ![p] = Reading(o, n, call[p].size, sound)] /\ ret' = ret
  <2>1. call'[p] = Reading(o, n, call[p].size, sound)
    BY <1>1, <1>7 DEF TypeOK
  <2>2. call'[p].op = "read" /\ call'[p].obj = o
    BY <2>1, CallFields
  <2>3. CallOf(p)' = CallOf(p)
    BY <1>3, <2>2 DEF CallOf
  <2>4. Calls' = Calls
    BY <1>2, <2>3, CallsStep DEF Quiet, Calls
  <2>5. States' = States
    BY <1>1, <1>2, <1>3, QuietStates DEF IsWriting
  <2> QED
    BY <1>2, <1>7, <2>4, <2>5, StoredSame
<1>8. CASE n > Size(o) /\ Returns(p, "ERROR")
  <2>1. p \in disturbed
    <3> SUFFICES ASSUME p \notin disturbed PROVE FALSE
      OBVIOUS
    <3>1. call[p].size = Size(o)
      BY <1>1, <1>3 DEF AllCalm, Calm
    <3> QED
      BY <1>3, <1>4, <1>8, <3>1
  <2>2. Stored!EndRead(p, o)
    BY <1>2, <1>8, <2>1, EndReadRefines
  <2> QED
    BY <2>2 DEF StoredStep, Stored!Next
<1> QED
  BY <1>6, <1>7, <1>8

LEMMA LastPieceRefines ==
    ASSUME RefinesInv, NEW p \in Processes, NEW o \in Objects, IsReading(p, o),
           EndRead(p)
    PROVE  Stored!EndRead(p, o)
<1>1. TypeOK /\ AllCalm
  BY DEF RefinesInv
<1>2. Quiet(p) /\ UNCHANGED <<opener, disturbed>>
  BY <1>1, QuietSteps DEF EndRead, history
<1>3. /\ call[p].op = "read" /\ call[p].obj = o /\ call[p].pos = call[p].size
      /\ call[p].size \in Nat /\ call[p].sound \in BOOLEAN
  BY <1>1, CallFacts DEF TypeOK, EndRead, IsReading
<1>4. PICK code \in {"OK", "ERROR"} :
          /\ Returns(p, code)
          /\ code = "OK" <=> Inflates(o, call[p].size, call[p].sound)
  BY <1>3 DEF EndRead
<1>5. code = "OK" <=>
          call[p].sound = TRUE /\ call[p].size = Pieces[o] /\ o \notin Dense
  BY <1>3, <1>4 DEF Inflates
<1>6. ASSUME p \notin disturbed
      PROVE  call[p].sound = TRUE /\ call[p].size = Pieces[o] <=> there[o] = Whole(o)
  <2>1. /\ call[p].size = Size(o)
        /\ call[p].sound = TRUE <=> 1..call[p].pos \subseteq there[o]
    BY <1>1, <1>3, <1>6 DEF AllCalm, Calm
  <2>2. there[o] = Whole(o) => Size(o) = Pieces[o]
    BY <1>1, SizeFacts
  <2>3. there[o] \subseteq Whole(o) /\ Whole(o) = 1..Pieces[o]
    BY <1>1 DEF TypeOK, Whole
  <2> QED
    BY <1>3, <2>1, <2>2, <2>3
<1> QED
  BY <1>2, <1>4, <1>5, <1>6, EndReadRefines

\* A read meets an error, or its process is killed.
LEMMA StopReadRefines ==
    ASSUME RefinesInv, NEW p \in Processes, NEW o \in Objects, IsReading(p, o),
           Quiet(p), UNCHANGED <<opener, disturbed>>,
           \/ "read" \in Faults /\ Returns(p, "ERROR")
           \/ "crash" \in Faults /\ call' = [call EXCEPT ![p] = None] /\ UNCHANGED ret
    PROVE  Stored!StopRead(p, o)
<1>1. TypeOK
  BY DEF RefinesInv
<1>2. States' = States /\ p \in Stored!Readers(o)
  BY <1>1, QuietStates, WritersAre DEF IsWriting, IsReading
<1>3. Calls' = [Calls EXCEPT ![p] = Stored!Idle]
  <2>1. call'[p] = None /\ \A q \in Processes \ {p} : call'[q] = call[q]
    BY <1>1 DEF TypeOK, Returns
  <2>2. CallOf(p)' = Stored!Idle
    BY <2>1, CallFields DEF CallOf, None, Stored!Idle
  <2> QED
    BY <2>1, <2>2, CallsStep
<1> QED
  BY <1>2, <1>3 DEF Stored!StopRead, Stored!Returns, Returns, States, Calls

LEMMA StepRefines == RefinesInv /\ [Next]_vars => StoredStep
<1> SUFFICES ASSUME RefinesInv, [Next]_vars PROVE StoredStep
  OBVIOUS
<1>1. TypeOK
  BY DEF RefinesInv
<1>2. CASE UNCHANGED vars
  <2>1. States' = States /\ Calls' = Calls
    BY <1>2 DEF vars, States, Calls, StateOf, CallOf, IsComing, IsWriting, Whole
  <2> QED
    BY <1>2, <2>1, StoredSame DEF vars
<1>3. ASSUME NEW p \in Processes,
             Start(p) \/ Advance(p) \/ FailWrite(p) \/ FailRead(p) \/ Crash(p)
      PROVE  StoredStep
  <2>a. call[p] \in CallType
    BY <1>1 DEF TypeOK
  <2>w. ASSUME call[p].op = "write" PROVE \E o \in Objects : IsWriting(p, o)
    BY <2>a, <2>w, CallFacts DEF IsWriting
  <2>r. ASSUME call[p].op = "read" PROVE \E o \in Objects : IsReading(p, o)
    BY <2>a, <2>r, CallFacts DEF IsReading
  <2>1. ASSUME NEW o \in Objects,
               \/ Stored!Refuse(p, o) \/ Stored!BeginWrite(p, o)
               \/ Stored!EndWrite(p, o) \/ Stored!StopWrite(p, o)
               \/ Stored!BeginRead(p, o) \/ Stored!EndRead(p, o)
               \/ Stored!StopRead(p, o)
        PROVE  StoredStep
    BY <2>1 DEF StoredStep, Stored!Next
  <2>2. CASE Start(p)
    BY <2>1, <2>2, RefuseRefines, BeginWriteRefines, BeginReadRefines DEF Start
  <2>3. CASE WritePiece(p)
    BY <2>3, WritePieceRefines
  <2>4. CASE EndWrite(p)
    <3>1. call[p].op = "write"
      BY <2>4 DEF EndWrite
    <3> QED
      BY <2>1, <2>4, <2>w, <3>1, EndWriteRefines
  <2>5. CASE ReadPiece(p)
    <3>1. call[p].op = "read"
      BY <2>5 DEF ReadPiece
    <3> QED
      BY <2>5, <2>r, <3>1, ReadPieceRefines
  <2>6. CASE EndRead(p)
    <3>1. call[p].op = "read"
      BY <2>6 DEF EndRead
    <3> QED
      BY <2>1, <2>6, <2>r, <3>1, LastPieceRefines
  <2>7. CASE FailWrite(p)
    <3>1. /\ call[p].op = "write" /\ "write" \in Faults /\ Returns(p, "ERROR")
          /\ Quiet(p) /\ UNCHANGED <<opener, disturbed>>
      BY <1>1, <2>7, QuietSteps DEF FailWrite, history
    <3> QED
      BY <2>1, <2>w, <3>1, StopWriteRefines
  <2>8. CASE FailRead(p)
    <3>1. /\ call[p].op = "read" /\ "read" \in Faults /\ Returns(p, "ERROR")
          /\ Quiet(p) /\ UNCHANGED <<opener, disturbed>>
      BY <1>1, <2>8, QuietSteps DEF FailRead, history
    <3> QED
      BY <2>1, <2>r, <3>1, StopReadRefines
  <2>9. CASE Crash(p)
    <3>1. /\ "crash" \in Faults /\ call[p] # None /\ UNCHANGED ret
          /\ call' = [call EXCEPT ![p] = None]
          /\ Quiet(p) /\ UNCHANGED <<opener, disturbed>>
      BY <1>1, <2>9, QuietSteps DEF Crash, history
    <3>2. call[p].op \in {"write", "read"}
      BY <2>a, <3>1, CallFacts
    <3> QED
      BY <2>1, <2>w, <2>r, <3>1, <3>2, StopWriteRefines, StopReadRefines
  <2> QED
    BY <1>3, <2>2, <2>3, <2>4, <2>5, <2>6, <2>7, <2>8, <2>9 DEF Advance
<1> QED
  BY <1>2, <1>3 DEF Next

LEMMA InitRefines == Init => Stored!Init
<1> SUFFICES ASSUME Init PROVE Stored!Init
  OBVIOUS
<1>1. \A o \in Objects : StateOf(o) = "absent"
  BY DEF Init, StateOf
<1>2. \A p \in Processes : CallOf(p) = Stored!Idle
  BY CallFields DEF Init, CallOf, None, Stored!Idle
<1> QED
  BY <1>1, <1>2 DEF Init, Stored!Init, Nobody, Stored!Nobody

\* The store of files and pieces implements the store of objects, under every
\* fault: whoever writes, fails or is killed when, an object leaves the states
\* it is in only as module StoredObjects says.
THEOREM StoreImplementsObjects == Spec => ImplementsStoredObjects
<1>1. Init => AllCalm
  BY CallFields DEF Init, AllCalm, Calm
<1>2. Spec => []RefinesInv
  BY <1>1, StoreTypeCorrect, FilesStay, RewriteRepairs, StepCalm, PTL
  DEF Spec, RefinesInv
<1> QED
  BY <1>2, InitRefines, StepRefines, PTL
  DEF Spec, ImplementsStoredObjects, Stored!Spec, StoredStep
=============================================================================
