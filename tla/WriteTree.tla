----------------------------- MODULE WriteTree -----------------------------
(***************************************************************************)
(* The write-tree command: write_tree_recursive and the tree builder of     *)
(* src/core/tree.c, over a work tree that may change meanwhile.             *)
(*                                                                         *)
(* The recursion is a stack of frames, one per directory being read.  The   *)
(* object store is a set, those objects whose files are whole: an object's  *)
(* name determines the object.  To store one again empties its file, so a   *)
(* store that fails or is killed takes out what was there before it; what   *)
(* the file goes through is the subject of module ObjectStore.              *)
(*                                                                         *)
(* A content is a sequence of bytes, since a file can be read in part.      *)
(* A symbolic link is what it leads to, so a directory may be found again   *)
(* below itself.                                                            *)
(***************************************************************************)
EXTENDS Naturals, Sequences, FiniteSets, Functions, TreeFormat

CONSTANTS
    Dirs, Root,       \* directories; "." is Root
    Names,            \* the names in them but ".", ".." and ".git", each a
                      \* rank in strcmp order
    Contents,         \* what files hold
    MaxFileSize,      \* MAX_FILE_SIZE
    InitialTrees,     \* the work trees to begin with
    MaxDepth,         \* MAX_TREE_DEPTH, 100
    MaxPathLen,       \* MAX_PATH_LEN, 4096
    MaxTreeEntries,   \* MAX_TREE_ENTRIES, 10000
    MaxRuns,          \* bound on the model: commands that are run
    MaxEdits,         \* bound on the model: changes to the work tree
    Faults            \* what the environment may do

None == [kind |-> "none"]
Other == [kind |-> "other"]         \* a socket, a device
Dir(d) == [kind |-> "dir", dir |-> d]
File(c, x) == [kind |-> "file", content |-> c, exec |-> x]

Files == {File(c, x) : c \in Contents, x \in BOOLEAN}
Nodes == {None, Other} \cup {Dir(d) : d \in Dirs} \cup Files

ASSUME TreesAssumption ==
    /\ Root \in Dirs
    /\ Names \subseteq Nat
    /\ Length \in [Names -> Nat \ {0}]
    /\ \A c \in Contents : Len(c) \in Nat
    /\ InitialTrees \subseteq [Dirs -> [Names -> Nodes]]
ASSUME LimitsAssumption ==
    /\ {MaxDepth, MaxTreeEntries} \subseteq Nat \ {0}
    /\ {MaxPathLen, MaxFileSize, MaxRuns, MaxEdits} \subseteq Nat
ASSUME FaultsAssumption ==
    Faults \subseteq {"open", "stat", "read", "store", "memory", "crash"}

VARIABLES
    work,      \* work[d][n]: what the directory d has under the name n
    edits,     \* changes that may still be made to it
    stack,     \* the calls of write_tree_recursive, the innermost last
    depth,     \* the counter they share
    objects,   \* the object store: the objects whose files are whole
    runs,      \* commands that may still be run
    exit,      \* how the last command ended
    printed,   \* the tree whose name it printed
    stored,    \* history: all that some write got to the end
    seen       \* history: seen[d][n] is what work[d][n] has been

store == <<objects, stored>>
vars == <<work, edits, stack, depth, store, runs, exit, printed, seen>>

Blob(c) == [type |-> "blob", content |-> c]
Tree(s) == [type |-> "tree", entries |-> s]

Init ==
    /\ work \in InitialTrees
    /\ edits = MaxEdits
    /\ stack = <<>> /\ depth = 0
    /\ objects = {} /\ stored = {}
    /\ runs = MaxRuns
    /\ exit = "none" /\ printed = Tree(<<>>)
    /\ seen = [d \in Dirs |-> [n \in Names |-> {work[d][n]}]]

-----------------------------------------------------------------------------
(* The frames                                                              *)

\* `todo` is what readdir has still to give, in no particular order; `listed`
\* and `skipped` record what it gave and what was passed over; `size` is what
\* an open file measured, `held` what it may hold by now.
Frame(d, len) ==
    LET present == {n \in Names : work[d][n] # None}
    IN [dir |-> d, len |-> len, stage |-> "looking", todo |-> present,
        at |-> 0, exec |-> FALSE, size |-> 0, held |-> {}, entries |-> <<>>, ret |-> "OK",
        listed |-> present, skipped |-> {}]

Top == stack[Len(stack)]
Below == SubSeq(stack, 1, Len(stack) - 1)
Becomes(f) == stack' = Append(Below, f)
In(stage) == stack # <<>> /\ Top.stage = stage

Passed(f, n) == [f EXCEPT !.stage = "looking", !.todo = @ \ {n}, !.ret = "OK",
                          !.skipped = @ \cup {n}]
Broken(f, code) == [f EXCEPT !.stage = "leaving", !.ret = code]

\* git_object_write to the end, or stopped between the fopen that empties the
\* file and its fclose.
Keeps(o) == objects' = objects \cup {o} /\ stored' = stored \cup {o}
BreaksOff(o) == objects' = objects \ {o} /\ UNCHANGED stored

ValidModes == {"040000", "100644", "100755", "120000", "160000"}
GIT_MODE_DIR == "40000"
FileMode(x) == IF x THEN "100755" ELSE "100644"

\* Variant: the limit is one too high.
AddedBeyond(f, mode, n, obj) ==
    IF mode \notin ValidModes THEN {Broken(f, "INVALID")}
    ELSE IF Len(f.entries) > MaxTreeEntries THEN {Broken(f, "OVERFLOW")}
    ELSE {[f EXCEPT !.stage = "looking", !.ret = "OK",
                    !.entries = Append(@, [mode |-> mode, name |-> n, obj |-> obj])]}

\* What git_tree_builder_add can make of a frame; the mode comes first.
Added(f, mode, n, obj) ==
    IF mode \notin ValidModes THEN {Broken(f, "INVALID")}
    ELSE IF Len(f.entries) >= MaxTreeEntries THEN {Broken(f, "OVERFLOW")}
    ELSE {[f EXCEPT !.stage = "looking", !.ret = "OK",
                    !.entries = Append(@, [mode |-> mode, name |-> n, obj |-> obj])]}
         \cup (IF "memory" \in Faults THEN {Broken(f, "NOMEM")} ELSE {})

\* Variant: the builder's entries are written as they came.
Unsorted(s) == {s}

\* qsort by name.  The slash compare_tree_entries puts after a directory
\* does not come into it: the builder refuses the mode of a directory.
Sorted(s) ==
    {t \in {[i \in DOMAIN s |-> s[f[i]]] : f \in Bijection(DOMAIN s, DOMAIN s)} :
        \A i, j \in DOMAIN t : i < j => t[i].name <= t[j].name}

-----------------------------------------------------------------------------
(* Going into a directory and coming out                                   *)

\* opendir, after the check of the depth, and the builder.
CannotEnter(code) ==
    \/ depth >= MaxDepth /\ code = "ERROR"
    \/ depth < MaxDepth /\ "open" \in Faults /\ code = "ERROR"
    \/ depth < MaxDepth /\ "memory" \in Faults /\ code = "NOMEM"

Start ==
    /\ stack = <<>> /\ runs > 0
    /\ runs' = runs - 1
    /\ \/ /\ depth < MaxDepth
          /\ stack' = <<Frame(Root, 1)>>
          /\ depth' = depth + 1
          /\ exit' = "none"
       \/ /\ \E code \in {"ERROR", "NOMEM"} : CannotEnter(code) /\ exit' = code
          /\ UNCHANGED <<stack, depth>>
    /\ UNCHANGED <<work, edits, store, printed, seen>>

PathLength(n) == Top.len + 1 + Length[n]
TooLong(n) == PathLength(n) + 1 > MaxPathLen

\* Variant: the depth is not looked at.
DescendAnyDepth(n) ==
    /\ In("looking") /\ n \in Top.todo
    /\ ~TooLong(n) /\ work[Top.dir][n].kind = "dir"
    /\ stack' = Append(Append(Below, [Top EXCEPT !.todo = @ \ {n}, !.at = n]),
                       Frame(work[Top.dir][n].dir, PathLength(n)))
    /\ depth' = depth + 1
    /\ UNCHANGED <<work, edits, store, runs, exit, printed, seen>>

Descend(n) ==
    /\ In("looking") /\ n \in Top.todo
    /\ ~TooLong(n) /\ work[Top.dir][n].kind = "dir"
    /\ depth < MaxDepth
    /\ stack' = Append(Append(Below, [Top EXCEPT !.todo = @ \ {n}, !.at = n]),
                       Frame(work[Top.dir][n].dir, PathLength(n)))
    /\ depth' = depth + 1
    /\ UNCHANGED <<work, edits, store, runs, exit, printed, seen>>

CannotDescend(n) ==
    /\ In("looking") /\ n \in Top.todo
    /\ ~TooLong(n) /\ work[Top.dir][n].kind = "dir"
    /\ \E code \in {"ERROR", "NOMEM"} :
          CannotEnter(code) /\ Becomes(Broken(Top, code))
    /\ UNCHANGED <<work, edits, depth, store, runs, exit, printed, seen>>

\* The call returns: to the one below, which adds the subdirectory to its
\* tree, or to the command.
Returns(code, tree) ==
    IF Len(stack) = 1
    THEN /\ stack' = <<>>
         /\ exit' = code
         /\ printed' = IF code = "OK" THEN tree ELSE printed
    ELSE LET f == stack[Len(stack) - 1]
             rest == SubSeq(stack, 1, Len(stack) - 2)
         IN /\ \E g \in IF code = "OK" THEN Added(f, GIT_MODE_DIR, f.at, tree)
                        ELSE {Broken(f, code)} :
                  stack' = Append(rest, g)
            /\ UNCHANGED <<exit, printed>>

AtEnd == \/ In("looking") /\ Top.todo = {}
         \/ In("leaving")

\* The end of the loop; the tree is written if the last of what it did went
\* well and there is something to put in it.
Leave ==
    /\ AtEnd
    /\ Top.ret # "OK" \/ Top.entries = <<>>
    /\ Returns(IF Top.entries = <<>> THEN "ERROR" ELSE Top.ret, Tree(<<>>))
    /\ depth' = depth - 1
    /\ UNCHANGED <<work, edits, store, runs, seen>>

LeaveWithTree ==
    /\ AtEnd
    /\ Top.ret = "OK" /\ Top.entries # <<>>
    /\ \E s \in Sorted(Top.entries) :
        \/ Keeps(Tree(s)) /\ Returns("OK", Tree(s))
        \/ /\ "store" \in Faults /\ Returns("ERROR", Tree(s))
           /\ BreaksOff(Tree(s)) \/ UNCHANGED store
        \/ "memory" \in Faults /\ Returns("NOMEM", Tree(s)) /\ UNCHANGED store
    /\ depth' = depth - 1
    /\ UNCHANGED <<work, edits, runs, seen>>

-----------------------------------------------------------------------------
(* An entry of a directory                                                 *)

\* The name makes the path too long: it is passed over, and the error stays
\* in `ret`, where the next entry whose path is not too long clears it: it
\* counts only if readdir gives this entry last.
PassLong(n) ==
    /\ In("looking") /\ n \in Top.todo
    /\ TooLong(n)
    /\ Becomes([Passed(Top, n) EXCEPT !.ret = "BUFSIZE"])
    /\ UNCHANGED <<work, edits, depth, store, runs, exit, printed, seen>>

\* Variant: the entry is looked at again.
PassAgain(n) ==
    /\ In("looking") /\ n \in Top.todo
    /\ ~TooLong(n)
    /\ work[Top.dir][n].kind \in {"none", "other"} \/ "stat" \in Faults
    /\ Becomes([Top EXCEPT !.skipped = @ \cup {n}])
    /\ UNCHANGED <<work, edits, depth, store, runs, exit, printed, seen>>

\* No stat, because it is gone or for another reason, or neither a directory
\* nor a file.
Pass(n) ==
    /\ In("looking") /\ n \in Top.todo
    /\ ~TooLong(n)
    /\ work[Top.dir][n].kind \in {"none", "other"} \/ "stat" \in Faults
    /\ Becomes(Passed(Top, n))
    /\ UNCHANGED <<work, edits, depth, store, runs, exit, printed, seen>>

StatFile(n) ==
    /\ In("looking") /\ n \in Top.todo
    /\ ~TooLong(n) /\ work[Top.dir][n].kind = "file"
    /\ Becomes([Top EXCEPT !.stage = "opening", !.todo = @ \ {n}, !.at = n,
                           !.ret = "OK", !.exec = work[Top.dir][n].exec])
    /\ UNCHANGED <<work, edits, depth, store, runs, exit, printed, seen>>

Found == work[Top.dir][Top.at]
Opens == Found.kind = "file" /\ Len(Found.content) <= MaxFileSize

\* The file cannot be opened or is too large: it is passed over.
PassFile ==
    /\ In("opening")
    /\ ~Opens \/ "open" \in Faults
    /\ Becomes(Passed(Top, Top.at))
    /\ UNCHANGED <<work, edits, depth, store, runs, exit, printed, seen>>

\* fopen and ftell.
OpenFile ==
    /\ In("opening") /\ Opens
    /\ Becomes([Top EXCEPT !.stage = "reading", !.size = Len(Found.content),
                           !.held = {Found.content}])
    /\ UNCHANGED <<work, edits, depth, store, runs, exit, printed, seen>>

\* What fread can give of the bytes that were measured.
BytesRead == {SubSeq(c, 1, Top.size) : c \in {d \in Top.held : Len(d) >= Top.size}}

\* Variant: a file that fails is left out and the loop goes on.
FailFileQuietly ==
    /\ In("reading")
    /\ \/ "read" \in Faults \/ "memory" \in Faults \/ Top.size = 0
       \/ \E c \in Top.held : Len(c) < Top.size
    /\ Becomes([Top EXCEPT !.stage = "looking"])
    /\ UNCHANGED <<work, edits, depth, store, runs, exit, printed, seen>>

\* fread comes up short, or memory runs out: the end of the loop.  A blob
\* without data is refused.
FailFile ==
    /\ In("reading")
    /\ \E code \in {"ERROR", "NOMEM", "INVALID"} :
        /\ \/ /\ code = "ERROR"
              /\ "read" \in Faults \/ \E c \in Top.held : Len(c) < Top.size
           \/ code = "NOMEM" /\ "memory" \in Faults
           \/ code = "INVALID" /\ Top.size = 0
        /\ Becomes(Broken(Top, code))
    /\ UNCHANGED <<work, edits, depth, store, runs, exit, printed, seen>>

\* The blob is not stored, before its file was opened or after.
FailBlob ==
    /\ In("reading") /\ Top.size > 0
    /\ "store" \in Faults
    /\ \E b \in BytesRead : BreaksOff(Blob(b)) \/ UNCHANGED store
    /\ Becomes(Broken(Top, "ERROR"))
    /\ UNCHANGED <<work, edits, depth, runs, exit, printed, seen>>

\* Variant: the entry is made although its blob was not stored.
AddFileAnyway ==
    /\ In("reading") /\ Top.size > 0
    /\ \E b \in BytesRead :
        /\ Keeps(Blob(b)) \/ BreaksOff(Blob(b))
        /\ \E f \in Added(Top, FileMode(Top.exec), Top.at, Blob(b)) : Becomes(f)
    /\ UNCHANGED <<work, edits, depth, runs, exit, printed, seen>>

\* Read, store, add, with the mode from the stat before.
AddFile ==
    /\ In("reading") /\ Top.size > 0
    /\ \E b \in BytesRead :
        /\ Keeps(Blob(b))
        /\ \E f \in Added(Top, FileMode(Top.exec), Top.at, Blob(b)) : Becomes(f)
    /\ UNCHANGED <<work, edits, depth, runs, exit, printed, seen>>

-----------------------------------------------------------------------------
(* The environment                                                         *)

IsReading(d, n) == In("reading") /\ Top.dir = d /\ Top.at = n

\* A file is made, changed or removed.  One that is changed may be written
\* over where it is, which the command that has it open sees, or replaced.
Edit(d, n) ==
    /\ edits > 0 /\ edits' = edits - 1
    /\ work[d][n] \in Files \cup {None}
    /\ \E node \in Files \cup {None} :
          /\ work' = [work EXCEPT ![d][n] = node]
          /\ seen' = [seen EXCEPT ![d][n] = @ \cup {node}]
          /\ IF IsReading(d, n) /\ node # None /\ work[d][n] # None
             THEN Becomes([Top EXCEPT !.held = @ \cup {node.content}])
             ELSE UNCHANGED stack
    /\ UNCHANGED <<depth, store, runs, exit, printed>>

\* What the command may be storing when it is killed.
BeingStored ==
    {Blob(b) : b \in IF In("reading") /\ Top.size > 0 THEN BytesRead ELSE {}}
    \cup {Tree(s) : s \in IF AtEnd /\ Top.ret = "OK" /\ Top.entries # <<>>
                          THEN Sorted(Top.entries) ELSE {}}

Crash ==
    /\ "crash" \in Faults
    /\ stack # <<>>
    /\ (\E o \in BeingStored : BreaksOff(o)) \/ UNCHANGED store
    /\ stack' = <<>> /\ depth' = 0 /\ exit' = "killed"
    /\ UNCHANGED <<work, edits, runs, printed, seen>>

-----------------------------------------------------------------------------
Step ==
    \/ \E n \in Names : \/ Descend(n) \/ CannotDescend(n)
                        \/ PassLong(n) \/ Pass(n) \/ StatFile(n)
    \/ PassFile \/ OpenFile \/ FailFile \/ FailBlob \/ AddFile
    \/ Leave \/ LeaveWithTree

Next == \/ Start \/ Step \/ Crash
        \/ \E d \in Dirs, n \in Names : Edit(d, n)

Spec == Init /\ [][Next]_vars

\* A command runs until it ends: it waits for nobody.
FairSpec == Spec /\ WF_vars(Step)

-----------------------------------------------------------------------------
(* Properties                                                              *)

Codes == {"OK", "ERROR", "INVALID", "BUFSIZE", "OVERFLOW", "NOMEM"}

TypeOK ==
    /\ work \in [Dirs -> [Names -> Nodes]]
    /\ edits \in 0..MaxEdits /\ runs \in 0..MaxRuns
    /\ exit \in Codes \cup {"none", "killed"}
    /\ objects \subseteq stored
    /\ \A i \in DOMAIN stack :
        /\ stack[i].dir \in Dirs
        /\ stack[i].stage \in {"looking", "opening", "reading", "leaving"}
        /\ stack[i].todo \cup stack[i].skipped \subseteq stack[i].listed
        /\ stack[i].ret \in Codes
        /\ Len(stack[i].entries) <= MaxTreeEntries

\* The shared counter is the number of calls that have not returned, whatever
\* way they return, so the limit on it ends the recursion where a link leads
\* back up.
DepthIsCounted == depth = Len(stack) /\ depth <= MaxDepth

Trees == {o \in stored : o.type = "tree"}

\* An object is stored before the tree that names it, subdirectories before
\* the directory: wherever the command fails or is killed, a tree that was
\* stored, and an entry of one under way, names an object that some write has
\* got to the end.  (A later write of the same object that is broken off may
\* have emptied its file since.)
NothingDangles ==
    \A s \in {t.entries : t \in Trees} \cup {stack[i].entries : i \in DOMAIN stack} :
        \A i \in DOMAIN s : s[i].obj \in stored

\* The bytes that may be stored for a file, given what it has been: it is
\* measured and then read, and may be written over with something longer in
\* between.
Cuts(nodes) ==
    LET held == {f.content : f \in nodes \cap Files}
    IN {SubSeq(c[1], 1, Len(c[2])) :
            c \in {e \in held \X held : Len(e[2]) <= Len(e[1])}}

\* Each tree that was stored is in order, has each name once, and shows files
\* of one directory: with a mode the file has had, and of a content the file
\* has had the beginning, of the length of a content the file has had.
TreesAreTrue ==
    \A t \in Trees :
        /\ \A i, j \in DOMAIN t.entries :
              i < j => t.entries[i].name < t.entries[j].name
        /\ \E d \in Dirs : \A i \in DOMAIN t.entries :
              LET e == t.entries[i] IN
              /\ e.obj.content \in Cuts(seen[d][e.name])
              /\ \E f \in seen[d][e.name] \cap Files : FileMode(f.exec) = e.mode

\* Whatever tree is stored, ls-tree and cat-file show all of its entries, each
\* with its mode and its hash and ls-tree with its name: no name a directory
\* can have is too long for their buffers, and none of them loses its place.
TreesAreListed ==
    \A t \in Trees :
        /\ LsTree(t) = [i \in DOMAIN t.entries |->
                           [mode |-> ModeBytes(t.entries[i]),
                            name |-> NameBytes(t.entries[i]),
                            hash |-> HashBytes(t.entries[i])]]
        /\ CatFile(t) = [i \in DOMAIN t.entries |->
                            [mode |-> ModeBytes(t.entries[i]),
                             hash |-> HashBytes(t.entries[i])]]

\* A command that says OK has every file it found in the tree it prints,
\* except those it passed over, and it leaves that tree and all that the tree
\* names whole in the store, whatever was broken there before.
TreeIsComplete ==
    [][stack # <<>> /\ exit' = "OK" /\ stack' = <<>> =>
        /\ printed' \in objects'
        /\ \A i \in DOMAIN printed'.entries : printed'.entries[i].obj \in objects'
        /\ {printed'.entries[i].name : i \in DOMAIN printed'.entries}
               = stack[1].listed \ stack[1].skipped]_vars

\* The command ends, even where a directory is found again below itself.
CommandEnds == stack # <<>> ~> stack = <<>>

\* CHANGELOG.md: "`write-tree` command with recursive directory traversal".
\* Refuted: the mode git_common.h gives a directory is one the builder
\* refuses, so a single subdirectory makes the command fail.
SubdirectoriesAreWritten == exit # "INVALID"
=============================================================================
