------------------------------- MODULE Status -------------------------------
(***************************************************************************)
(* The status command of src/commands/status.c, over an index that add may  *)
(* change and a work tree whose files may change meanwhile.                 *)
(*                                                                         *)
(* A file counts as changed if the second of its last change or its size is *)
(* not what its entry says: what its entry says is what add found when it   *)
(* looked at the file, before it read it.  Contents are sequences of bytes. *)
(***************************************************************************)
EXTENDS Naturals, Sequences, FiniteSets

CONSTANTS
    Dirs, Root,       \* directories; "." is Root
    Names,            \* the names in them but ".", ".." and ".git"
    Dot,              \* "." as the first name of a path
    Length,           \* Length[n]: the bytes of name n
    Contents,         \* what files hold
    InitialTrees,     \* the work trees to begin with
    Addable,          \* the files add may be given: path, directory and name;
                      \* the path is the one status gives them
    Editable,         \* <<d, n>>: the files that change
    Word,             \* 2^32: stat fields are cast to uint32_t
    MaxFileSize,      \* MAX_FILE_SIZE, 100 MB
    MaxPathLen,       \* MAX_PATH_LEN, 4096
    MaxLinks,         \* links the system follows in one path, 40 on Linux
    MaxStack,         \* calls of scan_directory the C stack has room for
    Capacity,         \* names in one list, 1024
    MaxClock, MaxEdits, MaxAdds, MaxRuns,   \* bounds on the model
    Faults            \* what the environment may do

None == [kind |-> "none"]
Other == [kind |-> "other"]
Dir(d) == [kind |-> "dir", dir |-> d]
Link(d) == [kind |-> "link", dir |-> d]     \* a symbolic link to a directory
File(c, t) == [kind |-> "file", content |-> c, mtime |-> t]

Files == {File(c, t) : c \in Contents, t \in 0..MaxClock}
Nodes == {None, Other} \cup {Dir(d) : d \in Dirs} \cup {Link(d) : d \in Dirs}
         \cup Files

\* No file is from the future: time 0 is when the model begins, or before.
ASSUME StatusAssumption ==
    /\ Root \in Dirs
    /\ Dot \notin Names
    /\ Length \in [Names -> Nat \ {0}]
    /\ Contents \subseteq Seq(Nat)
    /\ InitialTrees \subseteq [Dirs -> [Names -> Nodes]]
    /\ \A w \in InitialTrees, d \in Dirs, n \in Names :
          w[d][n].kind = "file" => w[d][n].mtime = 0
    /\ \A a \in Addable : /\ a.path \in Seq(Names) /\ a.path # <<>>
                          /\ a.dir \in Dirs /\ a.name \in Names
    /\ \A a, b \in Addable : a.path = b.path => a = b
    /\ Editable \subseteq Dirs \X Names
ASSUME StatusLimits ==
    /\ {Word, MaxStack, Capacity} \subseteq Nat \ {0}
    /\ {MaxFileSize, MaxPathLen, MaxLinks} \subseteq Nat
    /\ MaxPathLen > 3      \* "./" and a name of one byte have room
    /\ {MaxClock, MaxEdits, MaxAdds, MaxRuns} \subseteq Nat
    /\ MaxClock < Word /\ MaxFileSize < Word
    /\ Faults \subseteq {"index", "look", "memory"}

VARIABLES
    work,       \* work[d][n]: what the directory d has under the name n
    clock,      \* the time in seconds
    index,      \* the index file: path as add spells it -> entry
    adding,     \* the files an add has looked at and not yet read
    stack,      \* the calls of scan_directory, the innermost last
    handle,     \* the index as the command has read it
    staged, modified, untracked,    \* its three lists
    exit,       \* how the last command ended
    edits, adds, runs,      \* what may still be done
    touched,    \* history: the files changed since the command began
    gaps        \* history: it could not look at something, or list it

tree == <<work, clock, edits>>
lists == <<staged, modified, untracked>>
vars == <<tree, index, adding, adds, stack, handle, lists, exit, runs, touched, gaps>>

Blank == [p \in {} |-> 0]

Init ==
    /\ work \in InitialTrees /\ clock = 0
    /\ index = Blank /\ adding = {}
    /\ stack = <<>> /\ handle = Blank
    /\ staged = {} /\ modified = <<>> /\ untracked = <<>>
    /\ exit = "none"
    /\ edits = MaxEdits /\ adds = MaxAdds /\ runs = MaxRuns
    /\ touched = {} /\ gaps = FALSE

-----------------------------------------------------------------------------
(* The work tree, and add                                                  *)

Tick ==
    /\ clock < MaxClock /\ clock' = clock + 1
    /\ UNCHANGED <<work, edits, index, adding, adds, stack, handle, lists, exit,
                   runs, touched, gaps>>

\* A file is made, changed or removed; a change sets the time of the file.
Edit(d, n) ==
    /\ edits > 0 /\ edits' = edits - 1
    /\ work[d][n] \in Files \cup {None}
    /\ \E node \in {None} \cup {File(c, clock) : c \in Contents} :
          work' = [work EXCEPT ![d][n] = node]
    /\ touched' = touched \cup {<<d, n>>}
    /\ UNCHANGED <<clock, index, adding, adds, stack, handle, lists, exit, runs, gaps>>

\* The path git_index_add_from_workdir is given is the one it stores: `add .` goes
\* through the directories from "." on, and scan_directory takes no "./" along.
Spellings(a) == {a.path, <<Dot>> \o a.path}

\* git_index_add_from_workdir: stat ...
AddLooks(a) ==
    /\ adds > 0 /\ adds' = adds - 1
    /\ work[a.dir][a.name].kind = "file"
    /\ \E key \in Spellings(a) :
          LET node == work[a.dir][a.name]
          IN adding' = adding \cup {[file |-> a, key |-> key, mtime |-> node.mtime,
                                     size |-> Len(node.content), looked |-> clock]}
    /\ UNCHANGED <<tree, index, stack, handle, lists, exit, runs, touched, gaps>>

CanAdd(x) ==
    LET node == work[x.file.dir][x.file.name]
    IN /\ node.kind = "file" /\ Len(node.content) >= x.size
       /\ x.size \in 1..MaxFileSize

\* ... and then the bytes stat counted, the entry and the saved index.
\* `looked` is history: when stat was called.
AddReads(x) ==
    /\ x \in adding /\ adding' = adding \ {x}
    /\ CanAdd(x)
    /\ LET entry == [mtime |-> x.mtime % Word, size |-> x.size % Word,
                     content |-> SubSeq(work[x.file.dir][x.file.name].content,
                                        1, x.size),
                     looked |-> x.looked]
       IN index' = [p \in DOMAIN index \cup {x.key} |->
                       IF p = x.key THEN entry ELSE index[p]]
    /\ UNCHANGED <<tree, adds, stack, handle, lists, exit, runs, touched, gaps>>

AddFails(x) ==
    /\ x \in adding /\ adding' = adding \ {x}
    /\ ~CanAdd(x)
    /\ UNCHANGED <<tree, index, adds, stack, handle, lists, exit, runs, touched, gaps>>

-----------------------------------------------------------------------------
(* scan_directory                                                          *)

\* `todo` is what readdir has still to give; `links` counts the links in the
\* path, `len` its bytes.
Frame(d, path, len, links) ==
    [dir |-> d, path |-> path, len |-> len, links |-> links,
     todo |-> {n \in Names : work[d][n] # None}, stage |-> "looking", at |-> 0]

Top == stack[Len(stack)]
Below == SubSeq(stack, 1, Len(stack) - 1)
Becomes(f) == stack' = Append(Below, f)
In(stage) == stack # <<>> /\ Top.stage = stage
Done(n) == [Top EXCEPT !.todo = @ \ {n}]

PathOf(n) == Append(Top.path, n)
LengthOf(n) == IF Top.path = <<>> THEN Length[n] ELSE Top.len + 1 + Length[n]

\* What stat finds under the path of an entry.  snprintf cuts a path that is
\* too long: it names nothing, or, when no byte of the name is left, the
\* directory it is read from.
Found(n) ==
    LET node == work[Top.dir][n]
    IN IF LengthOf(n) >= MaxPathLen
       THEN IF Top.len + 2 >= MaxPathLen THEN Dir(Top.dir) ELSE None
       ELSE IF node.kind = "link" /\ Top.links >= MaxLinks THEN None
       ELSE node

Scanning(n) == In("looking") /\ n \in Top.todo

\* Nothing stat finds, or neither file nor directory.
Pass(n) ==
    /\ Scanning(n)
    /\ Found(n).kind \in {"none", "other"}
    /\ Becomes(Done(n))
    /\ UNCHANGED <<tree, index, adding, adds, handle, lists, exit, runs, touched, gaps>>

\* stat or opendir fails: nobody is told.
PassUnseen(n) ==
    /\ Scanning(n)
    /\ "look" \in Faults
    /\ Becomes(Done(n))
    /\ gaps' = TRUE
    /\ UNCHANGED <<tree, index, adding, adds, handle, lists, exit, runs, touched>>

\* Variant: what is left of the directory is forgotten.
DescendForGood(n) ==
    /\ Scanning(n)
    /\ Found(n).kind \in {"dir", "link"}
    /\ Len(stack) < MaxStack
    /\ LET node == Found(n)
       IN stack' = Append(Append(Below, [Top EXCEPT !.todo = {}]),
                          Frame(node.dir, PathOf(n), LengthOf(n),
                                Top.links + IF node.kind = "link" THEN 1 ELSE 0))
    /\ UNCHANGED <<tree, index, adding, adds, handle, lists, exit, runs, touched, gaps>>

\* Variant: the directory below is still to come when the scan is back.
DescendAgain(n) ==
    /\ Scanning(n)
    /\ Found(n).kind \in {"dir", "link"}
    /\ Len(stack) < MaxStack
    /\ LengthOf(n) < MaxPathLen
    /\ LET node == Found(n)
       IN stack' = Append(stack, Frame(node.dir, PathOf(n), LengthOf(n),
                                       Top.links + IF node.kind = "link" THEN 1 ELSE 0))
    /\ UNCHANGED <<tree, index, adding, adds, handle, lists, exit, runs, touched, gaps>>

Descend(n) ==
    /\ Scanning(n)
    /\ Found(n).kind \in {"dir", "link"}
    /\ Len(stack) < MaxStack
    /\ LET node == Found(n)
           cut == LengthOf(n) >= MaxPathLen
       IN stack' = Append(Append(Below, Done(n)),
                          IF cut THEN Frame(node.dir, Top.path, MaxPathLen - 1, Top.links)
                          ELSE Frame(node.dir, PathOf(n), LengthOf(n),
                                     Top.links + IF node.kind = "link" THEN 1 ELSE 0))
    /\ UNCHANGED <<tree, index, adding, adds, handle, lists, exit, runs, touched, gaps>>

\* The depth is not counted: the stack overflows.
Overflow(n) ==
    /\ Scanning(n)
    /\ Found(n).kind \in {"dir", "link"}
    /\ Len(stack) = MaxStack
    /\ stack' = <<>> /\ exit' = "killed"
    /\ UNCHANGED <<tree, index, adding, adds, handle, lists, runs, touched, gaps>>

\* Variant: room for one more.
WithNameBeyond(list, p) == {IF Len(list) <= Capacity THEN Append(list, p) ELSE list}

\* add_to_list: a name that finds no room is dropped, and nobody is told.
WithName(list, p) ==
    {IF Len(list) < Capacity THEN Append(list, p) ELSE list}
    \cup (IF "memory" \in Faults THEN {list} ELSE {})

FindUntracked(n) ==
    /\ Scanning(n)
    /\ Found(n).kind = "file" /\ PathOf(n) \notin DOMAIN handle
    /\ Becomes(Done(n))
    /\ \E s \in WithName(untracked, PathOf(n)) :
          /\ untracked' = s
          /\ gaps' = (gaps \/ s = untracked)
    /\ UNCHANGED <<tree, index, adding, adds, handle, staged, modified, exit, runs, touched>>

FindTracked(n) ==
    /\ Scanning(n)
    /\ Found(n).kind = "file" /\ PathOf(n) \in DOMAIN handle
    /\ Becomes([Done(n) EXCEPT !.stage = "comparing", !.at = n])
    /\ UNCHANGED <<tree, index, adding, adds, handle, lists, exit, runs, touched, gaps>>

\* Variant: the size alone is compared.
ChangedInSize(node, entry) ==
    node.kind = "file" => Len(node.content) % Word # entry.size

\* has_file_changed, with a stat of its own: the file may be gone by now.
Changed(node, entry) ==
    node.kind = "file" => \/ node.mtime % Word # entry.mtime
                          \/ Len(node.content) % Word # entry.size

Compare ==
    /\ In("comparing")
    /\ Becomes([Top EXCEPT !.stage = "looking"])
    /\ LET p == PathOf(Top.at)
           changed == Changed(work[Top.dir][Top.at], handle[p])
       IN \/ ~changed /\ UNCHANGED <<modified, gaps>>
          \/ /\ changed \/ "look" \in Faults
             /\ \E s \in WithName(modified, p) :
                   /\ modified' = s
                   /\ gaps' = (gaps \/ s = modified)
    /\ UNCHANGED <<tree, index, adding, adds, handle, staged, untracked, exit, runs, touched>>

-----------------------------------------------------------------------------
(* cmd_status                                                              *)

\* The index is read once; the list of what is staged is its entries, as
\* many as there is room for.  The work tree is read without regard to it.
Begin ==
    /\ stack = <<>> /\ runs > 0 /\ runs' = runs - 1
    /\ handle' = index
    /\ \E s \in SUBSET DOMAIN index :
          /\ \/ s = DOMAIN index /\ Cardinality(s) <= Capacity
             \/ Cardinality(s) = Capacity
             \/ "memory" \in Faults /\ Cardinality(s) < Capacity
          /\ staged' = s
    /\ modified' = <<>> /\ untracked' = <<>>
    /\ stack' = <<Frame(Root, <<>>, 1, 0)>>
    /\ exit' = "none"
    /\ touched' = {} /\ gaps' = FALSE
    /\ UNCHANGED <<tree, index, adding, adds>>

\* The index cannot be read, or memory runs out before the scan.
CannotBegin ==
    /\ stack = <<>> /\ runs > 0 /\ runs' = runs - 1
    /\ \/ "index" \in Faults /\ exit' = "ERROR"
       \/ "memory" \in Faults /\ exit' = "NOMEM"
    /\ UNCHANGED <<tree, index, adding, adds, stack, handle, lists, touched, gaps>>

\* Back to the directory above; after the outermost the lists are printed.
Leave ==
    /\ In("looking") /\ Top.todo = {}
    /\ stack' = Below
    /\ exit' = IF Len(stack) = 1 THEN "OK" ELSE exit
    /\ UNCHANGED <<tree, index, adding, adds, handle, lists, runs, touched, gaps>>

Step ==
    \/ \E n \in Names : \/ Pass(n) \/ PassUnseen(n) \/ Descend(n) \/ Overflow(n)
                        \/ FindUntracked(n) \/ FindTracked(n)
    \/ Compare \/ Leave

Next ==
    \/ Begin \/ CannotBegin \/ Step
    \/ Tick
    \/ \E f \in Editable : Edit(f[1], f[2])
    \/ \E a \in Addable : AddLooks(a)
    \/ \E x \in adding : AddReads(x) \/ AddFails(x)

Spec == Init /\ [][Next]_vars

\* The scan waits for nobody.
FairSpec == Spec /\ WF_vars(Step)

-----------------------------------------------------------------------------
(* Properties                                                              *)

TypeOK ==
    /\ work \in [Dirs -> [Names -> Nodes]]
    /\ clock \in 0..MaxClock
    /\ edits \in 0..MaxEdits /\ adds \in 0..MaxAdds /\ runs \in 0..MaxRuns
    /\ exit \in {"none", "OK", "ERROR", "NOMEM", "killed"}
    /\ Len(stack) <= MaxStack
    /\ \A i \in DOMAIN stack :
        /\ stack[i].dir \in Dirs
        /\ stack[i].todo \subseteq Names
        /\ stack[i].links \in 0..MaxLinks
        /\ stack[i].stage = "comparing" =>
              Append(stack[i].path, stack[i].at) \in DOMAIN handle
    /\ Len(modified) <= Capacity /\ Len(untracked) <= Capacity
    /\ staged \subseteq DOMAIN handle /\ Cardinality(staged) <= Capacity

Shows(list, p) == \E i \in DOMAIN list : list[i] = p

\* A file nobody changed while the command ran.
Steady(a) == work[a.dir][a.name].kind = "file" /\ <<a.dir, a.name>> \notin touched

\* How the path of a leads through the directories: where each of its names is
\* looked up, after how many links and how many bytes.
Ways(a) ==
    LET n == Len(a.path)
        Places == [dir : Dirs, links : 0..MaxLinks, len : 1..MaxPathLen]
    IN {way \in [1..n -> Places] :
          /\ way[1] = [dir |-> Root, links |-> 0, len |-> 1]
          /\ way[n].dir = a.dir /\ a.path[n] = a.name
          /\ \A i \in 1..n :
                (IF i = 1 THEN 0 ELSE way[i].len + 1) + Length[a.path[i]] < MaxPathLen
          /\ \A i \in 1..n - 1 :
                LET node == work[way[i].dir][a.path[i]]
                IN /\ node.kind \in {"dir", "link"}
                   /\ way[i + 1].dir = node.dir
                   /\ way[i + 1].links =
                         way[i].links + (IF node.kind = "link" THEN 1 ELSE 0)
                   /\ way[i + 1].len = (IF i = 1 THEN 0 ELSE way[i].len + 1)
                                       + Length[a.path[i]]}

\* A path that leads to its file and is not too long to be read.
Leads(a) == Ways(a) # {}

\* A file with another content than was staged under the path status gives it is
\* shown as modified, whatever add and the editor did in which order, unless it
\* was last changed in the very second in which add looked at it.
SettledIsSeen ==
    exit = "OK" /\ ~gaps =>
        \A a \in Addable :
            LET node == work[a.dir][a.name]
            IN Steady(a) /\ a.path \in DOMAIN handle /\ Leads(a) =>
                \/ node.content = handle[a.path].content
                \/ node.mtime = handle[a.path].looked
                \/ Shows(modified, a.path)

\* A file whose path was not in the index when the command began is shown as
\* untracked, also if it has been staged meanwhile or is staged as "./" and its
\* path; one whose path was is not; and no path is shown twice, however
\* directories contain each other.
ListsAreComplete ==
    exit = "OK" /\ ~gaps =>
        /\ \A a \in Addable : Steady(a) /\ Leads(a) =>
              (a.path \notin DOMAIN handle <=> Shows(untracked, a.path))
        /\ \A i, j \in DOMAIN untracked : untracked[i] = untracked[j] => i = j
        /\ \A i, j \in DOMAIN modified : modified[i] = modified[j] => i = j

\* The command ends, also where links lead in a circle.
ScanEnds == stack # <<>> ~> stack = <<>>
=============================================================================
