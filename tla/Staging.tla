------------------------------ MODULE Staging ------------------------------
(***************************************************************************)
(* The add command of src/commands/add.c and the hash-object command of     *)
(* src/commands/hash_object.c, run by several processes over one work tree, *)
(* one object store and one index file.                                     *)
(*                                                                         *)
(* An add reads the index, goes through its arguments storing a blob and     *)
(* making an entry for every file, and writes the index back.  The object   *)
(* store is module ObjectStore, one call at a time for each process.  The   *)
(* index in memory is a table, what module Index implements: here one path  *)
(* has one entry, and an index of up to one stdio buffer (4096 bytes, some  *)
(* fifty entries) reaches its file in the one write fclose makes.           *)
(*                                                                         *)
(* A content is a sequence of bytes, since a file can be read in part.  A   *)
(* path is what the index would call a file: the directories of an argument *)
(* are named, for "add ." gives each path another spelling (module Status). *)
(***************************************************************************)
EXTENDS Naturals, Sequences, FiniteSets

CONSTANTS
    Processes,
    Hashers,       \* those that may run hash-object
    Paths,
    Nothing,       \* no file, no entry
    Torn,          \* an index file truncated and not written yet
    UnsafePaths,   \* paths git_validate_safe_path refuses
    LongPaths,     \* paths the walk of a directory has no room to build
    Special,       \* paths of what is there and is no regular file
    Contents,      \* what the environment puts in a file
    InitialWork,   \* the work tree at first
    Pieces,        \* see module ObjectStore
    Arguments,     \* the argument lists that may be given to add
    MaxRuns,       \* bound on the model: commands a process runs
    MaxEdits,      \* bound on the model: changes to the work tree
    Faults         \* what the environment may do

Prefixes(c) == {SubSeq(c, 1, n) : n \in 0..Len(c)}
Objects == UNION {Prefixes(c) : c \in Contents}
Blob(c) == c            \* the name of a blob determines its content
Empty == {<<>>}
Table == [Paths -> Objects \cup {Nothing}]
Blank == [f \in Paths |-> Nothing]

\* One argument: the name of a file, or of a directory with those below it.
Argument == [kind : {"file", "directory"}, under : SUBSET Paths]

ASSUME StagingAssumption ==
    /\ Hashers \subseteq Processes
    /\ UnsafePaths \subseteq Paths /\ LongPaths \subseteq Paths
    /\ Special \subseteq Paths /\ IsFiniteSet(Paths)
    /\ \A c \in Contents : Len(c) \in Nat
    /\ <<>> \in Objects /\ Nothing \notin Objects \cup Table
    /\ Pieces \in [Objects -> Nat \ {0}]
    /\ InitialWork \in [Paths -> Contents \cup {Nothing}]
    /\ \A f \in Special : InitialWork[f] = Nothing
    /\ Arguments \subseteq Seq(Argument)
    /\ \A as \in Arguments : \A i \in DOMAIN as :
            as[i].kind = "file" => Cardinality(as[i].under) = 1
    /\ MaxRuns \in Nat /\ MaxEdits \in Nat
    /\ Faults \subseteq {"open", "write", "crash", "memory", "close", "index", "look"}

VARIABLES
    work,      \* work[f]: the content of regular file f of the work tree
    edits,     \* changes that may still be made to it
    index,     \* the index file: absent, torn or a table
    cmd,       \* cmd[p]: the command p runs
    exit,      \* exit[p]: how p's last command ended
    past,      \* history: past[f] is all that file f has held
    last,      \* history: the last table the index file held
    printed,   \* history: the names hash-object -w has printed
    fresh,     \* history: the processes whose table was read from the index
               \* file and not replaced there by another process since
    files, there, call, left, ret, stored, disturbed, opener, restored

store == <<files, there, call, left, ret, stored, disturbed, opener, restored>>
vars == <<work, edits, index, cmd, exit, past, last, printed, fresh, store>>

MaxCalls == MaxRuns * Cardinality(Paths)

Store == INSTANCE ObjectStore
         WITH Dense <- {}, Faults <- Faults \cap {"open", "write", "crash"}

\* A process between two commands; runs is what it may still start.
\* `held` is what hash-object has open, `keeps` whether it was given -w.
Off(runs) ==
    [stage |-> "off", runs |-> runs, op |-> "add", held |-> Nothing,
     keeps |-> FALSE, args |-> <<>>, todo |-> {},
     path |-> Nothing, size |-> 0, blob |-> Nothing, failed |-> FALSE,
     table |-> Blank, dirty |-> FALSE, asked |-> {}, named |-> {},
     got |-> Blank]

Init ==
    /\ work = InitialWork
    /\ edits = MaxEdits
    /\ index = Nothing
    /\ cmd = [p \in Processes |-> Off(MaxRuns)]
    /\ exit = [p \in Processes |-> "none"]
    /\ past = [f \in Paths |-> {work[f]} \ {Nothing}]
    /\ last = Blank
    /\ printed = {} /\ fresh = {}
    /\ Store!Init

At(p, stage) == cmd[p].stage = stage
Goes(p, c) == cmd' = [cmd EXCEPT ![p] = c]
Exits(p, status) == /\ Goes(p, Off(cmd[p].runs))
                    /\ exit' = [exit EXCEPT ![p] = status]
Status(p) == IF cmd[p].failed THEN "ERROR" ELSE "OK"

-----------------------------------------------------------------------------
(* cmd_add                                                                 *)

\* git_index_read into a new handle.  No file at all is an empty index; a
\* torn one has no header.  Reading an index that exists clears the handle
\* first, and that makes it dirty.
Begin(p) ==
    /\ At(p, "off") /\ cmd[p].runs > 0
    /\ index # Torn
    /\ \E as \in Arguments :
          Goes(p, [Off(cmd[p].runs - 1) EXCEPT
                     !.stage = "walking", !.args = as,
                     !.table = IF index = Nothing THEN Blank ELSE index,
                     !.dirty = index # Nothing])
    /\ fresh' = fresh \cup {p}
    /\ exit' = [exit EXCEPT ![p] = "none"]
    /\ UNCHANGED <<work, past, edits, index, last, printed, store>>

\* Variant: a torn index is taken for one that is not there.
BeginWithNone(p) ==
    /\ At(p, "off") /\ cmd[p].runs > 0
    /\ index = Torn
    /\ \E as \in Arguments :
          Goes(p, [Off(cmd[p].runs - 1) EXCEPT !.stage = "walking", !.args = as])
    /\ fresh' = fresh \cup {p}
    /\ exit' = [exit EXCEPT ![p] = "none"]
    /\ UNCHANGED <<work, past, edits, index, last, printed, store>>

BeginFails(p) ==
    /\ At(p, "off") /\ cmd[p].runs > 0
    /\ index = Torn
    /\ Goes(p, Off(cmd[p].runs - 1))
    /\ exit' = [exit EXCEPT ![p] = "ERROR"]
    /\ UNCHANGED <<work, past, edits, index, last, printed, fresh, store>>

\* The files an argument stands for: the one it names, or the ones readdir
\* finds in the directory it names and below it.
Listed(arg) == IF arg.kind = "file" THEN arg.under
               ELSE {f \in arg.under : work[f] # Nothing \/ f \in Special}
Named(arg) == IF arg.kind = "file" THEN arg.under ELSE {}

\* add_directory leaves out a path it has no room for, and says so, but it
\* does not count that as an error.
Reached(arg) == Named(arg) \cup (Listed(arg) \ LongPaths)

Unsafe(arg) == arg.kind = "file" /\ arg.under \subseteq UnsafePaths

\* Variant: the arguments are not used up.
NextArgumentAgain(p) ==
    /\ At(p, "walking") /\ cmd[p].todo = {} /\ cmd[p].args # <<>>
    /\ LET arg == Head(cmd[p].args)
       IN /\ ~Unsafe(arg)
          /\ Goes(p, [cmd[p] EXCEPT !.asked = @ \cup Listed(arg),
                                    !.named = @ \cup Named(arg),
                                    !.todo = Reached(arg)])
    /\ UNCHANGED <<work, past, edits, index, exit, last, printed, fresh, store>>

\* The next argument.
NextArgument(p) ==
    /\ At(p, "walking") /\ cmd[p].todo = {} /\ cmd[p].args # <<>>
    /\ LET arg == Head(cmd[p].args)
       IN /\ ~Unsafe(arg)
          /\ Goes(p, [cmd[p] EXCEPT !.args = Tail(@),
                                    !.asked = @ \cup Listed(arg),
                                    !.named = @ \cup Named(arg),
                                    !.todo = Reached(arg)])
    /\ UNCHANGED <<work, past, edits, index, exit, last, printed, fresh, store>>

\* Its path is refused, or is that of a directory that is not there or cannot
\* be opened: an error, and the next one's turn.
RefuseArgument(p) ==
    /\ At(p, "walking") /\ cmd[p].todo = {} /\ cmd[p].args # <<>>
    /\ LET arg == Head(cmd[p].args)
       IN /\ \/ Unsafe(arg)
             \/ arg.kind = "directory" /\ ("look" \in Faults \/ Listed(arg) = {})
          /\ Goes(p, [cmd[p] EXCEPT !.args = Tail(@),
                                    !.asked = @ \cup Listed(arg),
                                    !.named = @ \cup Named(arg),
                                    !.failed = TRUE])
    /\ UNCHANGED <<work, past, edits, index, exit, last, printed, fresh, store>>

\* Variant: the command forgets that a file failed.
FailsQuietly(p) == Goes(p, [cmd[p] EXCEPT !.stage = "walking", !.todo = {}])

\* A file that cannot be added ends its argument, not the command.
Fails(p) == Goes(p, [cmd[p] EXCEPT !.stage = "walking", !.todo = {},
                                   !.failed = TRUE])

\* What is no regular file is passed over, and that is no error.
PassOver(p) ==
    /\ At(p, "walking")
    /\ \E f \in cmd[p].todo \cap Special :
          Goes(p, [cmd[p] EXCEPT !.todo = @ \ {f}])
    /\ UNCHANGED <<work, past, edits, index, exit, last, printed, fresh, store>>

\* add_path_recursive, and the stat of git_index_add_from_workdir.  readdir
\* gives the files of a directory in no particular order; a directory below
\* the argument may not open.
Stat(p) ==
    /\ At(p, "walking")
    /\ \E f \in cmd[p].todo \ Special :
        \/ /\ f \in UnsafePaths \/ work[f] = Nothing \/ "look" \in Faults
           /\ Fails(p)
        \/ /\ f \notin UnsafePaths /\ work[f] # Nothing
           /\ Goes(p, [cmd[p] EXCEPT !.stage = "reading", !.path = f,
                                     !.size = Len(work[f]),
                                     !.todo = @ \ {f}])
    /\ UNCHANGED <<work, past, edits, index, exit, last, printed, fresh, store>>

\* fread has to give the bytes stat counted; what the file has beyond them is
\* left out.
CanRead(p) == LET f == cmd[p].path
              IN work[f] # Nothing /\ Len(work[f]) >= cmd[p].size
BytesRead(p) == SubSeq(work[cmd[p].path], 1, cmd[p].size)

\* Variant: the entry is made before the blob is stored.
ReadStagesAtOnce(p) ==
    /\ At(p, "reading")
    /\ CanRead(p) /\ Store!BeginWrite(p, Blob(BytesRead(p)))
    /\ Goes(p, [cmd[p] EXCEPT !.stage = "storing", !.blob = BytesRead(p),
                              !.table[cmd[p].path] = BytesRead(p)])
    /\ UNCHANGED <<work, past, edits, index, exit, last, printed, fresh>>

\* The file is read, and its blob opened, which empties the blob's file.
Read(p) ==
    /\ At(p, "reading")
    /\ CanRead(p) /\ Store!BeginWrite(p, Blob(BytesRead(p)))
    /\ Goes(p, [cmd[p] EXCEPT !.stage = "storing", !.blob = BytesRead(p)])
    /\ UNCHANGED <<work, past, edits, index, exit, last, printed, fresh>>

\* The file is gone, or shorter than it was, or cannot be read.
ReadFails(p) ==
    /\ At(p, "reading")
    /\ ~CanRead(p) \/ "look" \in Faults
    /\ Fails(p)
    /\ UNCHANGED <<work, past, edits, index, exit, last, printed, fresh, store>>

\* The blob is refused: it has no data, or cannot be opened.
Refused(p) ==
    /\ At(p, "reading")
    /\ CanRead(p) /\ Store!RefuseWrite(p, Blob(BytesRead(p)))
    /\ Fails(p)
    /\ UNCHANGED <<work, past, edits, index, exit, last, printed, fresh>>

StorePiece(p) ==
    /\ At(p, "storing")
    /\ Store!WritePiece(p)
    /\ UNCHANGED <<work, past, edits, index, cmd, exit, last, printed, fresh>>

\* The blob is stored; git_index_add makes its entry.
Stored(p) ==
    /\ At(p, "storing") /\ cmd[p].op = "add"
    /\ Store!EndWrite(p)
    /\ LET f == cmd[p].path
           c == cmd[p].blob
       IN Goes(p, [cmd[p] EXCEPT !.stage = "walking", !.dirty = TRUE,
                                 !.table[f] = c, !.got[f] = c])
    /\ UNCHANGED <<work, past, edits, index, exit, last, printed, fresh>>

\* The blob is not stored, or its entry cannot be made.
NotStored(p) ==
    /\ At(p, "storing") /\ cmd[p].op = "add"
    /\ \/ Store!FailWrite(p)
       \/ "memory" \in Faults /\ Store!EndWrite(p)
    /\ Fails(p)
    /\ UNCHANGED <<work, past, edits, index, exit, last, printed, fresh>>

Walked(p) == At(p, "walking") /\ cmd[p].todo = {} /\ cmd[p].args = <<>>

\* Nothing to write, or no way to open the index file.
EndWithoutSave(p) ==
    /\ Walked(p)
    /\ \/ ~cmd[p].dirty /\ Exits(p, Status(p))
       \/ cmd[p].dirty /\ "index" \in Faults /\ Exits(p, "ERROR")
    /\ UNCHANGED <<work, past, edits, index, last, printed, fresh, store>>

\* git_index_write: fopen with "wb" ...
BeginSave(p) ==
    /\ Walked(p) /\ cmd[p].dirty
    /\ index' = Torn
    /\ Goes(p, [cmd[p] EXCEPT !.stage = "saving"])
    /\ fresh' = fresh \cap {p}
    /\ UNCHANGED <<work, past, edits, exit, last, printed, store>>

\* Variant: a command that failed leaves without writing.
EndSaveUnlessFailed(p) ==
    /\ At(p, "saving")
    /\ IF cmd[p].failed THEN UNCHANGED <<index, last, fresh>>
       ELSE /\ index' = cmd[p].table /\ last' = cmd[p].table
            /\ fresh' = fresh \cap {p}
    /\ Exits(p, Status(p))
    /\ UNCHANGED <<work, past, edits, printed, store>>

\* ... and fclose.  Its result is not looked at.
EndSave(p) ==
    /\ At(p, "saving")
    /\ \/ /\ index' = cmd[p].table /\ last' = cmd[p].table
          /\ fresh' = fresh \cap {p}
       \/ "close" \in Faults /\ UNCHANGED <<index, last, fresh>>
    /\ Exits(p, Status(p))
    /\ UNCHANGED <<work, past, edits, printed, store>>

-----------------------------------------------------------------------------
(* cmd_hash_object                                                         *)

\* The file is opened and then measured.
BeginHash(p) ==
    /\ At(p, "off") /\ p \in Hashers /\ cmd[p].runs > 0
    /\ \E f \in Paths \ UnsafePaths, keeps \in BOOLEAN :
        /\ work[f] # Nothing
        /\ Goes(p, [Off(cmd[p].runs - 1) EXCEPT
                      !.stage = "hashing", !.op = "hash", !.path = f,
                      !.held = work[f], !.size = Len(work[f]), !.keeps = keeps])
    /\ exit' = [exit EXCEPT ![p] = "none"]
    /\ UNCHANGED <<work, past, edits, index, last, printed, fresh, store>>

RefuseHash(p) ==
    /\ At(p, "off") /\ p \in Hashers /\ cmd[p].runs > 0
    /\ \E f \in Paths : \/ f \in UnsafePaths \cup Special
                        \/ work[f] = Nothing \/ "look" \in Faults
    /\ Goes(p, Off(cmd[p].runs - 1))
    /\ exit' = [exit EXCEPT ![p] = "ERROR"]
    /\ UNCHANGED <<work, past, edits, index, last, printed, fresh, store>>

\* What the open file holds now: it was written over where it is, or another
\* took its place, or it was removed.
HeldNow(p) == {cmd[p].held, work[cmd[p].path]} \ {Nothing}

\* Without -w the name is printed and nothing is stored.
Hash(p) ==
    /\ At(p, "hashing")
    /\ \E c \in HeldNow(p) :
        LET bytes == SubSeq(c, 1, cmd[p].size)
        IN /\ cmd[p].size \in 1..Len(c)
           /\ \/ cmd[p].keeps /\ Store!BeginWrite(p, Blob(bytes))
                 /\ Goes(p, [cmd[p] EXCEPT !.stage = "storing", !.blob = bytes])
                 /\ UNCHANGED exit
              \/ ~cmd[p].keeps /\ Exits(p, "OK") /\ UNCHANGED store
    /\ UNCHANGED <<work, past, edits, index, last, printed, fresh>>

\* The file is shorter by now, has no data, or its blob is refused.
HashFails(p) ==
    /\ At(p, "hashing")
    /\ \E c \in HeldNow(p) :
        \/ cmd[p].size \notin 1..Len(c) /\ UNCHANGED store
        \/ /\ cmd[p].size \in 1..Len(c) /\ cmd[p].keeps
           /\ Store!RefuseWrite(p, Blob(SubSeq(c, 1, cmd[p].size)))
    /\ Exits(p, "ERROR")
    /\ UNCHANGED <<work, past, edits, index, last, printed, fresh>>

HashStored(p) ==
    /\ At(p, "storing") /\ cmd[p].op = "hash"
    /\ Store!EndWrite(p)
    /\ printed' = printed \cup {cmd[p].blob}
    /\ Exits(p, "OK")
    /\ UNCHANGED <<work, past, edits, index, last, fresh>>

HashNotStored(p) ==
    /\ At(p, "storing") /\ cmd[p].op = "hash"
    /\ Store!FailWrite(p)
    /\ Exits(p, "ERROR")
    /\ UNCHANGED <<work, past, edits, index, last, printed, fresh>>

-----------------------------------------------------------------------------
(* The environment                                                         *)

Edit(f) ==
    /\ edits > 0 /\ edits' = edits - 1 /\ f \notin Special
    /\ \E c \in Contents \cup {Nothing} :
        /\ work' = [work EXCEPT ![f] = c]
        /\ past' = [past EXCEPT ![f] = @ \cup ({c} \ {Nothing})]
    /\ UNCHANGED <<index, cmd, exit, last, printed, fresh, store>>

\* A killed process runs nothing any more.
Crash(p) ==
    /\ "crash" \in Faults
    /\ ~At(p, "off")
    /\ \/ At(p, "storing") /\ Store!Crash(p)
       \/ ~At(p, "storing") /\ UNCHANGED store
    /\ Goes(p, Off(0))
    /\ exit' = [exit EXCEPT ![p] = "killed"]
    /\ UNCHANGED <<work, past, edits, index, last, printed, fresh>>

-----------------------------------------------------------------------------
\* What a command does once it has begun.
Step(p) ==
    \/ NextArgument(p) \/ RefuseArgument(p) \/ PassOver(p) \/ Stat(p)
    \/ Read(p) \/ ReadFails(p) \/ Refused(p)
    \/ StorePiece(p) \/ Stored(p) \/ NotStored(p)
    \/ EndWithoutSave(p) \/ BeginSave(p) \/ EndSave(p)
    \/ Hash(p) \/ HashFails(p) \/ HashStored(p) \/ HashNotStored(p)

Next ==
    \/ \E p \in Processes : \/ Begin(p) \/ BeginFails(p)
                          \/ BeginHash(p) \/ RefuseHash(p)
                          \/ Step(p) \/ Crash(p)
    \/ \E f \in Paths : Edit(f)

Spec == Init /\ [][Next]_vars

\* A command runs until it ends: its loops are bounded and it waits for nobody.
Fairness == \A p \in Processes : WF_vars(Step(p))

FairSpec == Spec /\ Fairness

-----------------------------------------------------------------------------
(* Properties                                                              *)

TypeOK ==
    /\ work \in [Paths -> Contents \cup {Nothing}]
    /\ edits \in 0..MaxEdits
    /\ index \in Table \cup {Nothing, Torn}
    /\ exit \in [Processes -> {"none", "OK", "ERROR", "killed"}]
    /\ past \in [Paths -> SUBSET Contents]
    /\ last \in Table
    /\ \A p \in Processes :
        /\ cmd[p].stage \in {"off", "walking", "reading", "storing", "saving", "hashing"}
        /\ cmd[p].runs \in 0..MaxRuns
        /\ cmd[p].todo \subseteq cmd[p].asked
        /\ cmd[p].named \subseteq cmd[p].asked
        /\ cmd[p].table \in Table
        /\ cmd[p].op \in {"add", "hash"}
        /\ At(p, "storing") <=> call[p] # Store!None
        /\ At(p, "storing") => Store!IsWriting(p, Blob(cmd[p].blob))
    /\ Store!TypeOK

\* The blob comes before the entry, and before its name is printed: whatever
\* fails and whoever is killed, an entry, in the index file or in memory, and
\* a name hash-object -w has printed stand for a blob that some write got to
\* the end.
EntriesStored ==
    /\ \A t \in {cmd[p].table : p \in Processes} \cup ({index} \ {Nothing, Torn}) :
          \A f \in Paths : t[f] # Nothing => Blob(t[f]) \in stored
    /\ \A c \in printed : Blob(c) \in stored

\* While no write fails and nobody is killed, the blob of an entry, and one
\* whose name was printed, can be read unless somebody is storing it once more.
EntriesReadable ==
    \A c \in printed \cup (IF index \in {Nothing, Torn} THEN {}
                           ELSE {index[f] : f \in Paths} \ {Nothing}) :
        \/ there[Blob(c)] = 1..Pieces[Blob(c)]
        \/ \E p \in Processes : Store!IsWriting(p, Blob(c))

Saves(p) == At(p, "saving") /\ exit'[p] \in {"OK", "ERROR"}

\* A command that no other overtook in saving leaves the entries of all
\* other paths as the last command left them, if its save gets through.  One
\* that was overtaken brings back what it had read: there is no lock on the
\* index.
KeepsTheRest ==
    [][\A p \in fresh : Saves(p) /\ index' # Torn =>
        \A f \in Paths :
            index'[f] = IF cmd[p].got[f] = Nothing THEN last[f]
                        ELSE cmd[p].got[f]]_vars

\* The bytes that may be staged for a file whose size was looked at before it
\* was read: it may have been written over with something longer in between.
Cuts(f) == {SubSeq(c[1], 1, Len(c[2])) :
                c \in {d \in past[f] \X past[f] : Len(d[2]) <= Len(d[1])}}

\* What add passes over without counting it as an error.
PassedOver(p) == Special \cup (LongPaths \ cmd[p].named)

\* A command that says OK has staged every file it was asked for, in every
\* argument, but those that are no regular files and those below a directory
\* whose paths are too long, and it has saved what it staged; one that reports
\* an error still saves the files that worked.  What it saves of a file is the
\* beginning of a content the file has had, of the length of a content the
\* file has had: cut short only if a longer one came between stat and fread.
ExitTellsTruth ==
    [][\A p \in Processes :
        /\ exit[p] = "none" /\ exit'[p] = "OK" =>
            /\ \A f \in cmd[p].asked \ PassedOver(p) : cmd[p].got[f] # Nothing
            /\ \A f \in Paths : cmd[p].got[f] # Nothing => At(p, "saving")
        /\ Saves(p) =>
            \A f \in Paths : cmd[p].got[f] # Nothing =>
                index'[f] = cmd[p].got[f] /\ index'[f] \in Cuts(f)]_vars

\* Commands end, and the index file is not left torn.
CommandsEnd == \A p \in Processes : ~At(p, "off") ~> At(p, "off")
TornHeals == index = Torn ~> index # Torn
=============================================================================
