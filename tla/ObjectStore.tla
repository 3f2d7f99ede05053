---------------------------- MODULE ObjectStore ----------------------------
(***************************************************************************)
(* The object store of src/core/object.c, shared by the processes that call *)
(* git_object_write and git_object_read.                                    *)
(*                                                                         *)
(* An object's file is the compressed form of its content.  It is written   *)
(* in place, under its final name, in the pieces the C library hands to the *)
(* system, and every writer of an object writes the same pieces.  So a file *)
(* is the set of pieces that are there: a piece that is missing before one  *)
(* that is there is a hole of zeros.  zlib refuses anything but the whole   *)
(* set.                                                                     *)
(***************************************************************************)
EXTENDS Naturals, FiniteSetsExt

CONSTANTS
    Processes,
    Objects,      \* object names; the name determines the content
    Pieces,       \* Pieces[o]: the pieces of o's compressed form
    Empty,        \* objects without data
    Dense,        \* objects whose content is over 10 times its compressed form
    MaxCalls,     \* bound on the model: calls a process makes
    Faults        \* what the environment may do to a call

ASSUME ObjectsAssumption ==
    /\ Pieces \in [Objects -> Nat \ {0}]
    /\ Empty \subseteq Objects /\ Dense \subseteq Objects
ASSUME CallsAssumption == MaxCalls \in Nat
ASSUME FaultsAssumption == Faults \subseteq {"open", "write", "crash", "read"}

VARIABLES
    files,       \* the objects that have a file
    there,       \* there[o]: the pieces in the file of o
    call,        \* call[p]: the call p is in
    left,        \* left[p]: calls p may still make
    ret,         \* ret[p]: what p's last call returned
    stored,      \* history: the objects some write of which has succeeded
    disturbed,   \* history: the readers whose object was written meanwhile
    opener,      \* history: who emptied the file of o last
    restored     \* history: the objects whose last opener got to the end

vars == <<files, there, call, left, ret, stored, disturbed, opener, restored>>
history == <<stored, disturbed, opener, restored>>

Nobody == "nobody"
Whole(o) == 1..Pieces[o]
Size(o) == IF there[o] = {} THEN 0 ELSE Max(there[o])

None == [op |-> "none"]
Writing(o, n) == [op |-> "write", obj |-> o, pos |-> n]
Reading(o, n, size, sound) ==
    [op |-> "read", obj |-> o, pos |-> n, size |-> size, sound |-> sound]

IsWriting(p, o) == call[p].op = "write" /\ call[p].obj = o
IsReading(p, o) == call[p].op = "read" /\ call[p].obj = o

Init ==
    /\ files = {}
    /\ there = [o \in Objects |-> {}]
    /\ call = [p \in Processes |-> None]
    /\ left = [p \in Processes |-> MaxCalls]
    /\ ret = [p \in Processes |-> "OK"]
    /\ stored = {}
    /\ disturbed = {}
    /\ opener = [o \in Objects |-> Nobody]
    /\ restored = {}

Starts(p) == /\ call[p] = None
             /\ left[p] > 0
             /\ left' = [left EXCEPT ![p] = @ - 1]

Returns(p, code) == /\ call' = [call EXCEPT ![p] = None]
                    /\ ret' = [ret EXCEPT ![p] = code]

-----------------------------------------------------------------------------
(* git_object_write                                                        *)

\* An object without data, or whose directory or file cannot be made.
RefuseWrite(p, o) ==
    /\ Starts(p)
    /\ \/ o \in Empty /\ Returns(p, "INVALID")
       \/ o \notin Empty /\ "open" \in Faults /\ Returns(p, "ERROR")
    /\ UNCHANGED <<files, there, history>>

\* fopen with "wb": whatever the file held is gone.
BeginWrite(p, o) ==
    /\ Starts(p)
    /\ o \notin Empty
    /\ files' = files \cup {o}
    /\ there' = [there EXCEPT ![o] = {}]
    /\ call' = [call EXCEPT ![p] = Writing(o, 0)]
    /\ disturbed' = disturbed \cup {q \in Processes : IsReading(q, o)}
    /\ opener' = [opener EXCEPT ![o] = p]
    /\ restored' = restored \ {o}
    /\ UNCHANGED <<ret, stored>>

\* Variant: the loop over the pieces runs once too often.
WritePieceBeyond(p) ==
    /\ call[p].op = "write" /\ call[p].pos <= Pieces[call[p].obj]
    /\ LET o == call[p].obj
           n == call[p].pos + 1
       IN /\ there' = [there EXCEPT ![o] = @ \cup {n}]
          /\ call' = [call EXCEPT ![p] = Writing(o, n)]
    /\ UNCHANGED <<files, left, ret, history>>

WritePiece(p) ==
    /\ call[p].op = "write" /\ call[p].pos < Pieces[call[p].obj]
    /\ LET o == call[p].obj
           n == call[p].pos + 1
       IN /\ there' = [there EXCEPT ![o] = @ \cup {n}]
          /\ call' = [call EXCEPT ![p] = Writing(o, n)]
    /\ UNCHANGED <<files, left, ret, history>>

\* Variant: success is reported with the last piece still unwritten.
EndWriteEarly(p) ==
    /\ call[p].op = "write" /\ call[p].pos + 1 >= Pieces[call[p].obj]
    /\ Returns(p, "OK")
    /\ stored' = stored \cup {call[p].obj}
    /\ restored' = IF opener[call[p].obj] = p THEN restored \cup {call[p].obj}
                   ELSE restored
    /\ UNCHANGED <<files, there, left, disturbed, opener>>

EndWrite(p) ==
    /\ call[p].op = "write" /\ call[p].pos = Pieces[call[p].obj]
    /\ Returns(p, "OK")
    /\ stored' = stored \cup {call[p].obj}
    /\ restored' = IF opener[call[p].obj] = p THEN restored \cup {call[p].obj}
                   ELSE restored
    /\ UNCHANGED <<files, there, left, disturbed, opener>>

\* A short fwrite or a failing fclose: an error, and the file stays.
FailWrite(p) ==
    /\ "write" \in Faults
    /\ call[p].op = "write"
    /\ Returns(p, "ERROR")
    /\ UNCHANGED <<files, there, left, history>>

-----------------------------------------------------------------------------
(* git_object_read: find out the size, read that many bytes, inflate.       *)

NotFound(p, o) ==
    /\ Starts(p)
    /\ o \notin files
    /\ Returns(p, "NOTFOUND")
    /\ UNCHANGED <<files, there, history>>

\* Variant: the size comes out a piece short.
BeginReadShort(p, o) ==
    /\ Starts(p)
    /\ o \in files
    /\ call' = [call EXCEPT ![p] = Reading(o, 0, Size(o) - 1, TRUE)]
    /\ disturbed' = IF \E q \in Processes : IsWriting(q, o)
                    THEN disturbed \cup {p} ELSE disturbed \ {p}
    /\ UNCHANGED <<files, there, ret, stored, opener, restored>>

BeginRead(p, o) ==
    /\ Starts(p)
    /\ o \in files
    /\ call' = [call EXCEPT ![p] = Reading(o, 0, Size(o), TRUE)]
    /\ disturbed' = IF \E q \in Processes : IsWriting(q, o)
                    THEN disturbed \cup {p} ELSE disturbed \ {p}
    /\ UNCHANGED <<files, there, ret, stored, opener, restored>>

\* The next piece, or a short fread if the file has shrunk below it.
ReadPiece(p) ==
    /\ call[p].op = "read" /\ call[p].pos < call[p].size
    /\ LET o == call[p].obj
           n == call[p].pos + 1
       IN \/ /\ n <= Size(o)
             /\ call' = [call EXCEPT ![p] =
                    Reading(o, n, @.size, @.sound /\ n \in there[o])]
             /\ UNCHANGED ret
          \/ n > Size(o) /\ Returns(p, "ERROR")
    /\ UNCHANGED <<files, there, left, history>>

\* git_object_decompress tries a buffer of 4 and then 10 times the input.
Inflates(o, size, sound) == sound /\ size = Pieces[o] /\ o \notin Dense

EndRead(p) ==
    /\ call[p].op = "read" /\ call[p].pos = call[p].size
    /\ Returns(p, IF Inflates(call[p].obj, call[p].size, call[p].sound)
                  THEN "OK" ELSE "ERROR")
    /\ UNCHANGED <<files, there, left, history>>

FailRead(p) ==
    /\ "read" \in Faults
    /\ call[p].op = "read"
    /\ Returns(p, "ERROR")
    /\ UNCHANGED <<files, there, left, history>>

\* The process is killed; what it had written stays.
Crash(p) ==
    /\ "crash" \in Faults
    /\ call[p] # None
    /\ call' = [call EXCEPT ![p] = None]
    /\ left' = [left EXCEPT ![p] = 0]
    /\ UNCHANGED <<files, there, ret, history>>

-----------------------------------------------------------------------------
Start(p) ==
    \E o \in Objects : \/ RefuseWrite(p, o) \/ BeginWrite(p, o)
                       \/ NotFound(p, o) \/ BeginRead(p, o)

\* What a process in a call does next if nothing goes wrong.
Advance(p) == WritePiece(p) \/ EndWrite(p) \/ ReadPiece(p) \/ EndRead(p)

Next ==
    \E p \in Processes :
        Start(p) \/ Advance(p) \/ FailWrite(p) \/ FailRead(p) \/ Crash(p)

Spec == Init /\ [][Next]_vars

\* A process in a call is scheduled until the call returns; the loops are
\* bounded and take no lock.  Nothing makes a process start a call.
Fairness == \A p \in Processes : WF_vars(Advance(p))

FairSpec == Spec /\ Fairness

-----------------------------------------------------------------------------
(* Properties                                                              *)

CallType ==
    [op : {"none"}]
    \cup [op : {"write"}, obj : Objects, pos : Nat]
    \cup [op : {"read"}, obj : Objects, pos : Nat, size : Nat, sound : BOOLEAN]

\* The type invariant; no position passes the end of what it runs over.
TypeOK ==
    /\ files \subseteq Objects
    /\ there \in [Objects -> SUBSET Nat]
    /\ \A o \in Objects : there[o] \subseteq Whole(o)
    /\ call \in [Processes -> CallType]
    /\ \A p \in Processes :
        /\ call[p].op = "write" => call[p].pos <= Pieces[call[p].obj]
        /\ call[p].op = "read" => /\ call[p].pos <= call[p].size
                                  /\ call[p].size <= Pieces[call[p].obj]
    /\ left \in [Processes -> 0..MaxCalls]
    /\ ret \in [Processes -> {"OK", "ERROR", "INVALID", "NOTFOUND"}]
    /\ stored \subseteq Objects \ Empty
    /\ disturbed \subseteq Processes
    /\ opener \in [Objects -> Processes \cup {Nobody}]
    /\ restored \subseteq Objects

\* Every piece that is missing is still to come from somebody.
IsComing(o) ==
    \A n \in Whole(o) \ there[o] :
        \E p \in Processes : IsWriting(p, o) /\ call[p].pos < n

\* What makes WholeWhenQuiet hold.
MissingIsToCome == \A o \in files : IsComing(o)

\* However many processes rewrite an object at once, each truncating what
\* the others wrote, the file is whole when none of them is writing any more.
WholeWhenQuiet ==
    \A o \in files :
        (\A p \in Processes : ~IsWriting(p, o)) => there[o] = Whole(o)

\* Whatever failed or was killed before, storing an object again repairs it:
\* a writer that nobody truncated after it has its pieces in the file, all of
\* them once its call succeeds.  Holds under every fault.
RepairedByRewrite ==
    \A o \in Objects :
        /\ o \in restored => there[o] = Whole(o)
        /\ \A p \in Processes : opener[o] = p /\ IsWriting(p, o)
                => 1..call[p].pos \subseteq there[o]

\* A read that no write of the same object overlaps succeeds.
UndisturbedReads ==
    [][\A p \in Processes :
        call[p].op = "read" /\ call'[p] = None /\ p \notin disturbed
            => ret'[p] = "OK"]_vars

\* Commands end, so in the end every object that was ever stored is there
\* whole, for good.
StoredInTheEnd == \A o \in Objects : o \in stored ~> [](there[o] = Whole(o))

\* What the file of an object says, in the terms of StoredObjects.
StateOf(o) ==
    IF o \notin files THEN "absent"
    ELSE IF there[o] = Whole(o) THEN "whole"
    ELSE IF IsComing(o) THEN "coming" ELSE "broken"

CallOf(p) == IF call[p].op = "none" THEN None
             ELSE [op |-> call[p].op, obj |-> call[p].obj]

Stored == INSTANCE StoredObjects WITH
    state <- [o \in Objects |-> StateOf(o)],
    busy <- [p \in Processes |-> CallOf(p)],
    last <- opener

\* The store implements StoredObjects: under every fault an object is absent,
\* whole, coming or broken, and goes from one to the other only as it says.
ImplementsStoredObjects == Stored!Spec

\* test_object.c: "Data matches after roundtrip".  Refuted by an object
\* that compresses more than tenfold: it can be stored and never read.
RoundTrip ==
    [][\A p \in Processes :
        call[p].op = "read" /\ call'[p] = None /\ p \notin disturbed
            => ret'[p] # "ERROR"]_vars
=============================================================================
