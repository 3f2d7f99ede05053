------------------------------- MODULE History -------------------------------
(***************************************************************************)
(* The commands that make and show history: init, commit-tree and log of    *)
(* src/commands, over HEAD, the branches and the commits of one repository. *)
(*                                                                         *)
(* A commit is its lines, and its lines are its name.  An object that is    *)
(* being stored cannot be read until its file is closed (module             *)
(* ObjectStore), and the same goes for HEAD.  One that compresses too well   *)
(* cannot be read at all.  Branches move by other means: no command of this *)
(* program writes one.                                                      *)
(***************************************************************************)
EXTENDS Integers, Sequences, SequencesExt

CONSTANTS
    Branches, Main,    \* Main is refs/heads/main
    Trees,             \* names of trees
    Messages,          \* messages, each a sequence of lines
    Foreign,           \* commits other programs have made
    NotCommits,        \* objects of other types
    Missing,           \* names of nothing
    NoCommit,          \* no name: no parent, no file or an empty one
    Torn,              \* HEAD, open for writing or left so
    Garbage,           \* a line that is no name of an object
    InitialRefs,       \* the branches to begin with
    Limits,            \* what may be given to log -n
    Committers,        \* processes that run commit-tree
    MaxCommits, MaxInits, MaxLogs, MaxMoves,    \* bounds on the model
    Faults             \* what the environment may do

VARIABLES
    made,       \* how many of the directories of .git there are
    head,       \* HEAD: NoCommit, Torn, [ref |-> b] or [name |-> c]
    refs,       \* refs[b]: what the file of branch b says
    whole,      \* the objects that can be read
    init,       \* the call init makes next, 0 when it does not run
    storing,    \* storing[p]: the commit p is storing, or NoCommit
    log,        \* the log command
    exit,       \* how it ended, "none" as long as it runs
    commits, inits, logs, moves,     \* what may still be done
    asked,      \* history: <<c, d>>, d was asked for as the parent of c
    stored,     \* history: the objects that have been stored once
    cut,        \* history: the commits whose writer stopped short
    alone       \* history: nobody else has done anything since log began

repo == <<made, head, refs>>
store == <<whole, storing, commits, asked, stored, cut>>
vars == <<repo, store, init, log, exit, inits, logs, moves, alone>>

Directories == 5      \* .git, objects, refs, refs/heads, refs/tags
DEFAULT_MAX_COMMITS == 20

\* One line of a commit.
Line(key, value) == [key |-> key, value |-> value]
Parent(c) == Line("parent", c)
Blank == Line("", NoCommit)
Text == Line("text", NoCommit)
Repeats == Line("repeats", NoCommit)      \* long, and the same all over

\* The lines of a commit, or of a message.
Lines(c) == /\ c \in Seq({c[i] : i \in DOMAIN c})
            /\ \A i \in DOMAIN c : c[i] = Line(c[i].key, c[i].value)

\* The content cmd_commit_tree puts together.
CommitLines(tree, parent, message) ==
    <<Line("tree", tree)>>
    \o (IF parent = NoCommit THEN <<>> ELSE <<Parent(parent)>>)
    \o <<Line("author", NoCommit), Line("committer", NoCommit), Blank>>
    \o message

\* The lines before the first empty one.
Header(c) == {i \in DOMAIN c : \A j \in 1..i : c[j] # Blank}

LastParent(c, lines) ==
    LET parents == {i \in lines : c[i].key = "parent"}
    IN IF parents = {} THEN NoCommit ELSE c[Max(parents)].value

\* Variant: lines of the message are taken for lines of the header.
ParentInAnyLine(c) == LastParent(c, DOMAIN c)

\* parse_commit: of several parents in the header, the last.
ParentOf(c) == LastParent(c, Header(c))

\* git_object_decompress gives up above ten times what is in the file.
Dense(c) == c \notin NotCommits /\ \E i \in DOMAIN c : c[i] = Repeats

ASSUME HistoryAssumption ==
    /\ Main \in Branches
    /\ NoCommit \notin Foreign
    /\ \A c \in Foreign \cup Messages : Lines(c)
    /\ InitialRefs \subseteq
          [Branches -> Foreign \cup NotCommits \cup Missing \cup {NoCommit, Garbage}]
    /\ Limits \subseteq Int
    /\ {MaxCommits, MaxInits, MaxLogs, MaxMoves} \subseteq Nat
    /\ Faults \subseteq {"init", "store", "read"}
\* What is no commit is not taken for one.
ASSUME NamesAssumption ==
    /\ {NoCommit, Torn} \cap [ref : Branches] = {}
    /\ NoCommit \notin NotCommits
    /\ Garbage \notin Foreign

\* failed: history, memory or the disk let log down.
Off == [stage |-> "off", branch |-> Main, at |-> NoCommit, limit |-> 0, shown |-> <<>>,
        failed |-> FALSE]

\* Nothing, or a repository some program has made and used.
Init ==
    /\ \/ /\ made = 0 /\ head = NoCommit /\ whole = {}
          /\ refs = [b \in Branches |-> NoCommit]
       \/ /\ made = Directories /\ head = [ref |-> Main]
          /\ whole = Foreign \cup NotCommits
          /\ refs \in InitialRefs
    /\ init = 0
    /\ storing = [p \in Committers |-> NoCommit] /\ stored = whole
    /\ log = Off /\ exit = "none"
    /\ commits = MaxCommits /\ inits = MaxInits /\ logs = MaxLogs /\ moves = MaxMoves
    /\ asked = {} /\ cut = {} /\ alone = TRUE

-----------------------------------------------------------------------------
(* cmd_init                                                                *)

BeginInit ==
    /\ init = 0 /\ inits > 0
    /\ inits' = inits - 1 /\ init' = 1
    /\ alone' = FALSE
    /\ UNCHANGED <<repo, store, log, exit, logs, moves>>

\* create_dir: those that exist are all right, and passed over in one step.
MakeDirectory ==
    /\ init \in 1..Directories
    /\ made' = IF made < init THEN init ELSE made
    /\ init' = made' + 1
    /\ alone' = FALSE
    /\ UNCHANGED <<head, refs, store, log, exit, inits, logs, moves>>

\* Variant: HEAD before the last directory.
OpenHeadEarly ==
    /\ init = Directories
    /\ head' = Torn
    /\ init' = Directories + 2
    /\ alone' = FALSE
    /\ UNCHANGED <<made, refs, store, log, exit, inits, logs, moves>>

\* fopen with "w": what HEAD said is gone, also in a repository in use.
OpenHead ==
    /\ init = Directories + 1
    /\ head' = Torn
    /\ init' = Directories + 2
    /\ alone' = FALSE
    /\ UNCHANGED <<made, refs, store, log, exit, inits, logs, moves>>

\* If somebody has put another HEAD there since, init writes over it, or into
\* the file that it has replaced.
CloseHead ==
    /\ init = Directories + 2
    /\ \/ head' = [ref |-> Main]
       \/ head # Torn /\ UNCHANGED head
    /\ init' = 0
    /\ alone' = FALSE
    /\ UNCHANGED <<made, refs, store, log, exit, inits, logs, moves>>

\* A call fails, or the process is killed; nothing is taken back.
StopInit ==
    /\ "init" \in Faults
    /\ init > 0 /\ init' = 0
    /\ alone' = FALSE
    /\ UNCHANGED <<repo, store, log, exit, inits, logs, moves>>

-----------------------------------------------------------------------------
(* cmd_commit_tree                                                         *)

Commits == Foreign \cup {a[1] : a \in asked}
Names == Commits \cup NotCommits \cup Missing

\* Neither the tree nor the parent is looked for, so the parent may be any name,
\* also of what is not stored yet.  A name that is none, or a message that is too
\* long, is refused, and nothing happens.
BeginCommit(p) ==
    /\ storing[p] = NoCommit /\ commits > 0
    /\ commits' = commits - 1
    /\ made >= 2
    /\ \E t \in Trees, m \in Messages, d \in {NoCommit} \cup Names :
          LET c == CommitLines(t, d, m)
          IN /\ storing' = [storing EXCEPT ![p] = c]
             /\ whole' = whole \ {c}
             /\ asked' = asked \cup {<<c, d>>}
    /\ alone' = FALSE
    /\ UNCHANGED <<repo, init, stored, cut, log, exit, inits, logs, moves>>

\* The file is closed; it can be read unless somebody else has emptied it.
Closed(p) ==
    whole' = IF \E q \in Committers \ {p} : storing[q] = storing[p]
             THEN whole ELSE whole \cup {storing[p]}

EndCommit(p) ==
    /\ storing[p] # NoCommit
    /\ storing' = [storing EXCEPT ![p] = NoCommit]
    /\ Closed(p)
    /\ stored' = stored \cup {storing[p]}
    /\ alone' = FALSE
    /\ UNCHANGED <<repo, init, commits, asked, cut, log, exit, inits, logs, moves>>

\* The write fails, or the process is killed, perhaps after the file is closed.
CutCommit(p) ==
    /\ "store" \in Faults
    /\ storing[p] # NoCommit
    /\ storing' = [storing EXCEPT ![p] = NoCommit]
    /\ Closed(p) \/ UNCHANGED whole
    /\ cut' = cut \cup {storing[p]}
    /\ alone' = FALSE
    /\ UNCHANGED <<repo, init, commits, asked, stored, log, exit, inits, logs, moves>>

-----------------------------------------------------------------------------
(* Other programs move the branches and HEAD, to what commit-tree printed   *)
(* or to what they made themselves.                                        *)

Target == stored \ NotCommits

MoveBranch(b) ==
    /\ made = Directories /\ moves > 0 /\ moves' = moves - 1
    /\ \E c \in Target : refs' = [refs EXCEPT ![b] = c]
    /\ alone' = FALSE
    /\ UNCHANGED <<made, head, store, init, log, exit, inits, logs>>

MoveHead ==
    /\ made = Directories /\ moves > 0 /\ moves' = moves - 1
    /\ head' \in [ref : Branches] \cup [name : Target]
    /\ alone' = FALSE
    /\ UNCHANGED <<made, refs, store, init, log, exit, inits, logs>>

-----------------------------------------------------------------------------
(* cmd_log                                                                 *)

At(stage) == log.stage = stage
Ends(status) == /\ log' = [log EXCEPT !.stage = "off"]
                /\ exit' = status
Walks(c) == /\ log' = [log EXCEPT !.stage = "walking", !.at = c]
            /\ UNCHANGED exit
logOnly == <<repo, store, init, inits, moves>>

BeginLog ==
    /\ At("off") /\ logs > 0 /\ logs' = logs - 1
    /\ \E n \in Limits \cup {DEFAULT_MAX_COMMITS} :
          log' = [Off EXCEPT !.stage = "head", !.limit = n]
    /\ exit' = "none"
    /\ alone' = TRUE
    /\ UNCHANGED logOnly

\* read_head_sha: HEAD ...
ReadHead ==
    /\ At("head")
    /\ \/ head \in {NoCommit, Torn} /\ Ends("ERROR")
       \/ /\ head \in [ref : Branches]
          /\ log' = [log EXCEPT !.stage = "branch", !.branch = head.ref]
          /\ UNCHANGED exit
       \/ head \notin {NoCommit, Torn} \cup [ref : Branches] /\ Walks(head.name)
    /\ UNCHANGED <<logOnly, logs, alone>>

\* ... and the branch it named then.
ReadBranch ==
    /\ At("branch")
    /\ LET c == refs[log.branch]
       IN \/ c \in {NoCommit, Garbage} /\ Ends("ERROR")
          \/ c \notin {NoCommit, Garbage} /\ Walks(c)
    /\ UNCHANGED <<logOnly, logs, alone>>

\* Variant: one commit less than was asked for.
WalkingOneLess == At("walking") /\ Len(log.shown) + 1 < log.limit /\ log.at # NoCommit

\* The condition of the loop.
Walking == At("walking") /\ Len(log.shown) < log.limit /\ log.at # NoCommit

Readable == {c \in whole : ~Dense(c)}

Show ==
    /\ Walking
    /\ log.at \in Readable \ NotCommits
    /\ log' = [log EXCEPT !.shown = Append(@, log.at), !.at = ParentOf(log.at)]
    /\ UNCHANGED <<logOnly, exit, logs, alone>>

\* Variant: an object that cannot be read ends the walk like any other.
CannotReadQuietly ==
    /\ Walking
    /\ log.at \notin Readable
    /\ Ends("OK")
    /\ UNCHANGED <<logOnly, logs, alone>>

\* What cannot be read is an error only when it is the first.
CannotRead ==
    /\ Walking
    /\ log.at \notin Readable
    /\ Ends(IF log.shown = <<>> THEN "ERROR" ELSE "OK")
    /\ UNCHANGED <<logOnly, logs, alone>>

\* No memory, or a call on a file fails: HEAD, the branch, or an object.
ReadFails ==
    /\ "read" \in Faults
    /\ At("head") \/ At("branch") \/ Walking
    /\ log' = [log EXCEPT !.stage = "off", !.failed = TRUE]
    /\ exit' = IF log.shown = <<>> THEN "ERROR" ELSE "OK"
    /\ UNCHANGED <<logOnly, logs, alone>>

NotACommit ==
    /\ Walking
    /\ log.at \in whole \cap NotCommits
    /\ Ends("ERROR")
    /\ UNCHANGED <<logOnly, logs, alone>>

\* The root was shown, or as many as were asked for.
EndLog ==
    /\ At("walking") /\ ~Walking
    /\ Ends("OK")
    /\ UNCHANGED <<logOnly, logs, alone>>

-----------------------------------------------------------------------------
Next ==
    \/ BeginInit \/ MakeDirectory \/ OpenHead \/ CloseHead \/ StopInit
    \/ \E p \in Committers : BeginCommit(p) \/ EndCommit(p) \/ CutCommit(p)
    \/ \E b \in Branches : MoveBranch(b)
    \/ MoveHead
    \/ BeginLog \/ ReadHead \/ ReadBranch
    \/ Show \/ CannotRead \/ ReadFails \/ NotACommit \/ EndLog

Spec == Init /\ [][Next]_vars

-----------------------------------------------------------------------------
(* Properties                                                              *)

\* Types; and HEAD comes last, so wherever init is stopped, a repository that
\* has a HEAD has all its directories.
TypeOK ==
    /\ made \in 0..Directories /\ init \in 0..Directories + 2
    /\ head \in {NoCommit, Torn} \cup [ref : Branches] \cup [name : Commits]
    /\ head # NoCommit => made = Directories
    /\ refs \in [Branches -> Commits \cup NotCommits \cup Missing \cup {NoCommit, Garbage}]
    /\ whole \subseteq Commits \cup NotCommits
    /\ storing \in [Committers -> Commits \cup {NoCommit}]
    /\ log.stage \in {"off", "head", "branch", "walking"}
    /\ exit \in {"none", "OK", "ERROR"}
    /\ \A i \in DOMAIN log.shown : log.shown[i] \in Commits

\* d is a parent of c: commit-tree was asked for it, or another program wrote
\* it in the header of c.
IsParent(c, d) ==
    \/ <<c, d>> \in asked
    \/ c \in Foreign /\ \E i \in Header(c) : c[i] = Parent(d)
    \/ c \in Foreign /\ d = NoCommit /\ \A i \in Header(c) : c[i].key # "parent"

\* What log shows is a line of parents, and what commit-tree was told comes
\* back, whatever the message looks like.
LogIsAChain ==
    \A i \in 1..Len(log.shown) - 1 : IsParent(log.shown[i], log.shown[i + 1])

\* log says OK and shows less than it was asked for only when it has reached a
\* root, a parent that compresses too well or one that was never stored, whose
\* writer stopped short or that somebody is storing once more at this moment, or
\* when memory or the disk has let it down.
LogStopsForAReason ==
    [][At("walking") /\ exit' = "OK" =>
        \/ Len(log'.shown) >= log.limit
        \/ log'.failed
        \/ \E d \in {NoCommit, log.at} :
            /\ IsParent(Last(log.shown), d)
            /\ \/ d = NoCommit \/ d \in cut \/ d \notin stored
               \/ Dense(d)
               \/ \E p \in Committers : storing[p] = d]_vars

\* The name HEAD leads to.
HeadName == IF head \in {NoCommit, Torn} THEN NoCommit
            ELSE IF head \in [ref : Branches] THEN refs[head.ref]
            ELSE head.name

\* When nobody else does anything meanwhile, log begins where HEAD leads, and
\* unless memory or the disk lets it down it says ERROR exactly if HEAD leads to
\* nothing it can show or it comes to an object that is no commit.
QuietLogIsRight ==
    exit # "none" /\ alone =>
        LET c == HeadName
            next == IF log.shown = <<>> THEN c ELSE ParentOf(Last(log.shown))
        IN /\ log.shown # <<>> => log.shown[1] = c
           /\ Len(log.shown) <= (IF log.limit < 0 THEN 0 ELSE log.limit)
           /\ ~log.failed => (exit = "ERROR" <=>
                \/ c \in {NoCommit, Garbage}
                \/ /\ Len(log.shown) < log.limit
                   /\ \/ next \in NotCommits \cap whole
                      \/ log.shown = <<>> /\ c \notin Readable)
=============================================================================
