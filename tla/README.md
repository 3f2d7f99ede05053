# C-Git: specification, model checking and proofs

TLA+ modules for the parts of C-Git that keep state, TLC configurations that
check them on small instances, and theorems that TLAPS proves for every value
of the constants. `PROJECT.json` is the index: components, runs, the source
lines behind every definition, findings, hazards and theorems. Paths below are
relative to the repository.

## 1. The system

C-Git is a command-line program in C, a small Git. Every command is a process
of its own, runs in the work tree's root, and talks to the others only through
the files under `.git`. There are no locks, no renames into place, no
temporary files and no signal handlers. Nothing in the program calls its
library from two threads.

| Part | State | Operations | Module |
|---|---|---|---|
| Index, `src/core/index.c` | the handle (array of entries, capacity, dirty flag); the file `.git/index` | new, free, clear, add, remove, read, write, write_tree, read_tree | `Index`, `StagingArea` |
| Object store, `src/core/object.c` | one zlib file per object in `.git/objects` | write, read (with the compression) | `ObjectStore`, `StoredObjects` |
| add, `src/commands/add.c` | the command's handle and its place in the arguments | read the index, walk, store blobs, make entries, write the index | `Staging` |
| hash-object, `src/commands/hash_object.c` | the open file | open, measure, read, store, print | `Staging` |
| write-tree, `src/core/tree.c` | the recursion, the shared depth counter, one builder per directory | descend, look up, read and store a file, add, sort and store a tree | `WriteTree` |
| ls-tree, cat-file | none | take the bytes of a tree apart | `TreeFormat` |
| status, `src/commands/status.c` | the recursion, three lists of at most 1024 names | compare index and work tree by time and size | `Status` |
| init, commit-tree, log | `HEAD`, the branches, the commits | make the repository; store a commit; walk along the parents | `History` |
| SHA-1, `src/core/sha1.c` | block buffer, a count in two words | init, update, final | `Sha1Stream` |
| validation, `src/utils/validation.c` | none | predicates on strings, joining of paths | in part, where it is used |
| dispatch, error | one message that no decision reads | selecting a command, printing | not modelled |

**Interaction.** `add` reads the index file into a handle, calls
`git_index_add_from_workdir` for each file, which stats and reads it, calls
`git_object_write` and then `git_index_add`, and at the end writes the handle
back if it is dirty. `hash-object -w` stores a blob and leaves the index alone.
`write-tree` does not look at the index: it walks the work tree and stores
blobs and trees. `status` reads the index once and then scans the work tree.
`commit-tree` stores a commit and moves no branch; branches are moved by other
programs. `log` reads `HEAD`, then the branch it names, then commits.

**What is hard here.**

* *Files rewritten in place.* Index, objects and `HEAD` are opened for writing
  under their final name, so readers and other writers see them empty and in
  part, and a crash, a full disk or a failed flush leaves them so.
* *Processes without locks.* Two `add`s interleave at any point; two writers of
  one object truncate each other's file; `log` reads `HEAD` and the branch in
  two steps.
* *Partial failure.* A read of the index that fails leaves a cleared, partly
  filled, dirty handle; a file that cannot be added ends its argument and not
  the command, and what the walk of a directory passes over is no error;
  `write-tree` passes over some failures and stops at others; `status` and `log`
  stay silent about what they cannot read.
* *Limits.* The array of the index grows at two places by different rules; the
  inflate buffer has two sizes; `write-tree` counts its depth and `status` does
  not; lists, paths and the parsers' buffers end somewhere; count words wrap.
* *Read then use.* Sizes and times come from a `stat` or an `fseek` before the
  read, and modes from a `stat` before the open.
* *Two names for one file.* `add .` calls a file `./f`, and `status` calls it
  `f`; the index compares paths byte by byte.

**What makes each part correct.** The index: one entry per path, the file in
path order and complete, `dirty` true to its name, a successful read exact. The
store: an object whose writers are done is whole, storing again repairs, a read
nobody disturbs succeeds. `add` and `hash-object`: an entry or a printed name
only for a stored blob, the entries of other paths kept, the exit status true,
what is staged is of the file, an end to every command. `write-tree`: no tree
names what was never stored, trees show what the files have held, a printed tree
is complete and whole with all it names, the recursion ends, and every tree can
be listed. `status`: a file that differs is shown, every file is in the list it
belongs to, the scan ends. History: what has a `HEAD` is a whole repository, `log` shows a line of
parents and stops only for a reason. SHA-1: the digest does not depend on the
pieces a message comes in.

## 2. The modules

Definitions whose comment begins with "Variant:" are the same step with a
plausible mistake in it. No specification uses them; each shows that some
property would notice the mistake (`PROJECT.json`, "mutants").

### StagingArea and Index

`StagingArea` is what the rest of the program may rely on: a table `staged` and
a copy `saved`, with Stage, Unstage, Reset, Save, Load. A load that runs out of
memory keeps a part (`LoadPart`), which is how far the promise has to be
weakened for this code.

`Index` is the C structure: `entries` is `index->entries[0..entry_count-1]`,
`capacity` and `dirty` are the fields, `file` is `.git/index` as a header count
and the records that are there. A path is its rank in `strcmp` order.
`git_index_read` and `git_index_read_tree` take a step per entry (`load`)
because an error in the middle leaves what was loaded. `git_index_write` is one
action: it truncates, sorts in place, writes, closes; its failures leave one of
`TornImages`, a stub without header, a prefix of the records, or a prefix whose
last path is cut short (`Cut[p]`, the paths that are prefixes of `p`). `Write`
sorts with *some* sorted permutation, since `qsort` is not stable, and stores
the sort in the handle as the code does. `intent` is a history variable, what
was last handed to a write.

The growth of the array is kept exactly: `git_index_add` caps at
`MAX_TREE_ENTRIES`, `git_index_read` doubles without a cap.

### StoredObjects and ObjectStore

`StoredObjects` is what the rest of the program may rely on. An object is
absent, whole, coming (somebody who is to make it whole is at it) or broken.
`BeginWrite` takes an object away, even a whole one; `Complete` makes it whole,
perhaps before any of its writers returns; `EndWrite` says OK of an object that
is whole, unless another began to store it since; `StopWrite` is the only step
that breaks one. A reader that no writer of the object overlapped learns whether
it is whole, unless it is `Dense`, which nobody can read. `ObjectStore` implements it: the state of an object is computed
from its pieces and its writers (`StateOf`), everything else is renamed.

In `ObjectStore` a file is a set of pieces. `git_object_write` truncates
(`BeginWrite`), writes pieces in order (`WritePiece`) and closes (`EndWrite`);
every writer of an object writes the same pieces at the same places, because an object's name is
the hash of its content. `git_object_read` finds the size, reads as many pieces
(short if the file has shrunk, `sound` if none was a hole) and inflates, which
needs the whole file and an object that is not `Dense`, that is, not over ten
times its compressed size. History variables: `stored`, `disturbed` (readers a
writer overlapped), `opener` and `restored`. One piece stands for what the C
library hands to the system at once.

### Staging

`cmd_add` and `cmd_hash_object` run by several processes. `cmd[p]` is the
process: where it is, its remaining arguments, the files the present argument
still has, its table and dirty flag, or the file `hash-object` holds open. An
argument is a file or a directory with the paths below it: the recursion is
flattened to the set of files it gives (`Listed`), in any order. What the walk
does with them is kept: a path it has no room to build is left out without an
error (`Reached`, `LongPaths`), and so is what is no regular file (`PassOver`,
`Special`); a directory that does not open is refused, and one with no file below it may be
one that is not there (`RefuseArgument`); one further down ends the argument
(`Stat`).
The store's variables and actions come from `Store == INSTANCE ObjectStore`: a
storing process takes the steps of `git_object_write`, piece by piece. The index
in memory is a table, which is what `Index` is shown to implement. The index
file is absent, torn or a table: saving is `BeginSave` (`fopen` with `"wb"`) and
`EndSave` (the flush in `fclose`), which is exact for an index within one stdio
buffer, 4096 bytes or some fifty entries; a larger file is written in several
parts, whose torn forms are in `Index`.

`hash-object` opens its file first (`BeginHash`) and measures and reads what the
open file holds: what was there, if another took its place, or what was written
over it (`HeldNow`). History variables: `past`, what every file has held; `last`, the last table the index file
held; `printed`, the names `-w` has printed; `fresh`, the processes whose table
no other process has replaced in the file since it was read.

### TreeFormat and WriteTree

`TreeFormat` is the tree object as bytes: what the builder puts together
(`TreeBytes`, entry by entry in `BytesUpTo`) and what the parsers of `ls-tree`
and `cat-file` make of it (`Parsed`): per entry two loops that copy into buffers
of fixed size (`ModeEnd`, `NameEnd`), the checks of what they found (`IsEntry`),
and where the next entry begins (`After`). A byte is known by the field it is
in, since the loops look only for a space and a null.

`WriteTree` is `write_tree_recursive` as a stack of frames, one per directory,
with the depth counter the calls share. A frame's `todo` is what `readdir` will
still give, in any order. Each entry is passed over, descended into, or looked
up (`StatFile`), then opened and measured (`OpenFile`), and then read, stored and
added (`AddFile`), and the environment may change files in between: written over
in place, which the open file sees (`held`), or replaced, which it does not. So
what is stored is cut to the size that was measured, and the read comes up short
if the file did (`BytesRead`, `FailFile`). The order of `continue`, `break` and
the assignments to `ret` is that of the loop: an over-long path leaves an error
in `ret` that the next entry clears, so it fails the directory only when
`readdir` gives it last. A link is what it leads to, so a directory may contain
itself. `listed` and `skipped` record what the loop passed over.

The store is the set `objects` of those whose files are whole. A blob or a tree
is stored in one step, but `git_object_write` empties an object that is there
before it can fail: a store that fails, or is killed, takes it out of `objects`
(`BreaksOff`). The history `stored` keeps all that some write got to the end,
and `seen` what every file has been.

### Status

`scan_directory` as a stack of frames over the same kind of work tree, here with
times, and links kept apart from directories, because the links the system
follows in one path are limited and nothing else is: the scan counts no depth.
The length of a path is counted, and a path that `snprintf` cuts is modelled by
what it does (`Found`): it names nothing, or, when the cut leaves only the
directory and its slash, the directory that is being read. That the name which
is left names nothing is an abstraction: it could be the name of another file.
The properties speak of paths that lead to their file and fit (`Leads`, by the
directories and lengths in `Ways`), and say nothing of cut ones. `Overflow` is the C
stack running out. `FindTracked` and `Compare` are two steps because the code
stats twice.

`add` appears as its two looks at a file (`AddLooks`, `AddReads`), which is what
the comparison depends on. It keys its entry by the path it was given
(`Spellings`): the one `status` uses, or, for `add .`, the same with `"."` in
front of it (`Dot`), which `status` never looks up. Other spellings, such as the
`sub//f` of `add sub/`, are to `status` what that one is. So the properties speak
of the entry under the path `status` gives a file, and `ListsAreComplete` says
what becomes of one that is staged under another: it stays untracked (section 5).
Times are in seconds. `WithName` is `add_to_list`,
which drops names beyond the capacity. History: `touched`, the files changed
since the command began, and `gaps`, that something could not be looked at or
listed.

### History

`init` takes one step per call that changes something and may be stopped after
each; `made` counts the directories. It runs in nothing, in what a stopped
`init` left, and in a repository in use, whose `HEAD` it empties. A commit is
its lines, and they are its name: `CommitLines` is what `commit-tree` writes and
`ParentOf` what `log` reads back, the last parent of the header. `commit-tree`
stores in two steps, the second of which may fail or never come; its parent may
be any name, of an object that is stored or not. Branches and `HEAD` are moved by
other programs (`MoveBranch`, `MoveHead`), to commits that were printed or that
they made themselves, also while `init` has `HEAD` open. `log` takes a step per
file it reads. A commit that is whole can still be unreadable, because it
compresses more than tenfold (`Dense`: one of its lines `Repeats`), and any read
may fail for want of memory or a failing disk (`ReadFails`). History: `asked`,
the parents `commit-tree` was given; `stored`, what has been stored once; `cut`,
the commits whose writer stopped; `failed`, that a read let `log` down; `alone`, nobody else has done anything since `log` began.

### Sha1Stream

`git_sha1_update` and `git_sha1_final`: the buffer, the two words of the count
with their carry, the padding byte by byte. `sha1_transform` is left out; its
state is a function of the bytes it was given in order, so those bytes (`fed`)
stand for the state. `Half` and `Digit` set the width of a word: it has `Half`
digits, and `Power` gives the weight of each.

### MC modules

`MCIndex`, `MCObjectStore`, `MCStaging`, `MCWriteTree`, `MCStatus`, `MCHistory`
and `MCSha1Stream` extend their component and give names to the values the
configurations use.

### Proof modules

Each component has one: `IndexProofs`, `ObjectStoreProofs`, `StagingProofs`,
`WriteTreeProofs`, `HistoryProofs`, `StatusProofs` and `Sha1StreamProofs`.
`SequenceLemmas` is what several of them cite: sequences, bijections, and the
least number with a property. Induction is not available as such, so where a
proof needs it, it takes the least counterexample (`LeastNatural`); in the same
way it is shown that a recursive function exists, before anything is said of
its values.

## 3. The runs

| Run | Result | What it shows |
|---|---|---|
| `index_table` | pass | any sequence of operations, with failing opens, no memory and unreadable or foreign trees: one entry per path, a complete ordered file, a truthful dirty flag, ordered trees, and the refinement `Index => StagingArea` |
| `index_torn` | pass | writes cut short in every way: the array bound, exact reads, and damage confined to the last path |
| `object_rewrite` | pass | three processes storing and reading one object at once; it is whole whenever nobody writes, undisturbed reads succeed, stored objects stay in the end; the refinement `ObjectStore => StoredObjects` where nothing fails |
| `object_faults` | pass | under failing calls and crashes, storing again repairs; the refinement `ObjectStore => StoredObjects` |
| `staging_two` | pass | two commands at once, `add` or `hash-object`, over changing files, with arguments that fail or are passed over in part: readable entries, truthful exit status, saved contents that the files have had, termination, an index file that does not stay torn |
| `staging_faults` | pass | two commands of each of two processes, under every fault: entries and printed names only for stored blobs, the entries of other paths kept, a torn index not taken for an empty one |
| `tree_walk` | pass | `write-tree` over a flat, a nested and a circular work tree, files changing meanwhile, under every fault, a second command after one that was broken off; what is stored can be listed |
| `status_scan` | pass | `status` while files are edited and added: what it shows, and that it ends where directories contain each other or a path is cut |
| `history_walk` | pass | `init`, `commit-tree`, `log` and other programs at once, `init` and `commit-tree` stopped anywhere |
| `sha1_stream` | pass | every way to cut a message into pieces: what is hashed is the message, padded as FIPS 180-4 says |
| `object_dense` | violation | an object that compresses more than tenfold is stored and cannot be read |
| `tree_nested` | violation | one subdirectory makes `write-tree` fail |

**Bounds.**

* `index_table`: three paths (one refused), two names of objects, initial
  capacity 1 and limit 2, so that the array fills, is refused and doubles;
  `SomeTrees` holds what other writers may have stored, a subdirectory, a link,
  a refused name, a name twice and out of order; `MaxTrees` bounds the trees.
* `index_torn`: four paths, capacity 2, limit 3, so that the uncapped growth
  passes the limit.
* `object_rewrite`: three processes with two calls each on one object of two
  pieces, which gives every overlap of two writers and a reader;
  `object_faults` adds a second object of three pieces, one without data, and
  is symmetric in the processes (its properties are safety, and no definition
  names a process). Since a read may then fail at any time, what the refinement
  says of readers is checked by `object_rewrite`.
* `staging_two`: two commands, of which one may be `hash-object`; a file whose
  path is too long below a directory and which is also given by name, one that
  is refused, one that is no regular file, and one that is none of these;
  contents that are empty, short and long, with one shared by two files; one
  edit; arguments that fail first, in the middle and last. One command per
  process is enough for termination.
* `staging_faults`: two processes, each with two commands over a file or a
  directory of one, so that one command finds what a killed one left and a third
  has something to lose; no edits, since the races of a look-up with an edit are
  the other run's.
* `tree_walk`: two commands, so that one stores what another left; two
  directories of three names, contents of no, one, two and three bytes, of which
  the last is too large for a file; a depth limit of 3 that the cycle reaches, paths of which one is too long below the top, two entries per
  tree, name buffers one byte longer than the longest name, as in the code.
* `status_scan`: two directories of three names in three shapes, a circle
  through a link, a directory whose path leaves no room for a name, and more
  files than a list has room for (`Capacity` 2). `Word` is 3, so that a size
  wraps onto another; a path has at most 8 bytes and one link. Two edits, one
  `add` under either spelling, one tick of the clock: an edit before and one after
  the look of `add`, in the same second and in another.
* `history_walk`: two branches, two commits by one committer after four of
  other programs (one a merge, one that cannot be inflated), parents of every
  kind, a message that imitates a parent line, reads that fail, one `init`, one `log`, one move: each race of `log`
  with one other program. Several committers, `log`s and moves are covered by
  the proofs.
* `sha1_stream`: blocks of 8 bytes and words of two hexadecimal digits, which
  wrap every 32 bytes; 70 bytes pass the wrap twice and every position in a
  block.

`MaxCalls`, `MaxRuns`, `MaxEdits`, `MaxTrees`, `MaxClock`, `MaxAdds`,
`MaxCommits`, `MaxInits`, `MaxLogs`, `MaxMoves` and `MaxLen` bound the models
and have no counterpart in the code.

**Deadlock.** The index can always be called and the hash always begun again,
so `index_table`, `index_torn` and `sha1_stream` are checked for deadlock. The
other runs say `CHECK_DEADLOCK FALSE`: commands and calls are bounded and the
model stops when all have ended.

**Fairness.** Weak fairness of what a process does once it has begun
(`Advance(p)`, `Step(p)`, `Step`). The code justifies it: loops over pieces,
arguments and entries are bounded, no step waits for another process, and the
system schedules every process. No process is ever forced to begin, to fail, or
to be killed, and no file is forced to change. `StoredInTheEnd`, `CommandsEnd`,
`TornHeals`, `CommandEnds` and `ScanEnds` use it; `TornHeals` is checked without
crashes, because a crash inside a save does leave the file torn. `ScanEnds`
holds because paths grow and links are limited, or because the C stack ends.
`History` and `Sha1Stream` state no liveness: their loops end by what they have
shown or been given.

## 4. What is proved

All theorems are for every value of the constants that satisfies the modules'
assumptions, so for any number of paths, processes, pieces and entries.

* **Index, every fault**: `TypeCorrect`, `ArrayBounded`, `NothingSkipped`,
  `ReadsAreExact`. The inductive invariant is `GrowthInv`: types,
  `CapacityBound` and `ReadInProgress`. The bound alone is not inductive: a read
  appends without a check of the limit, and what keeps it below twice the limit
  is that the entries loaded and the entries left are together the file, of
  which no more than the limit was accepted. `DamageConfined` is about the
  images a write can leave, and needs that a torn file with all its records can
  differ from what was meant in its last path alone.
* **Index, no torn write** (`NoTornWrites`: neither a short write, a failing
  close nor a crash): `PathsUnique`, `FileInOrder`, `CleanSaved`,
  `TreesOrdered` and `Refinement`. The invariant is `TableInv`. Uniqueness has
  to be stated of the concatenation of what a read has loaded and has left.
  That "the first entry with the path" exists is the least-number principle,
  `LeastNatural`, from the well-foundedness of the naturals; that a sorted
  array is a permutation rests on the bijection lemmas.
* **Object store, every fault**: `StoreTypeCorrect` (with `WritersHaveData`)
  and `RewriteRepairs`. `StoreImplementsObjects` is the refinement. Its
  invariant adds `FilesRemain` (what is being written has a file) and `AllCalm`: an undisturbed reader has measured the file
  as it is, has found its pieces so far sound exactly if they are there, and
  nobody writes it. The proof has a lemma per action. A written piece is a
  stutter or `Complete`, according to whether it was the last that was missing;
  a writer that stops leaves the object coming, if others are still to bring
  what is missing, or broken (`WriterGone`).
* **Object store, no failing write and no crash** (`NoFailure`): `MissingComes`
  and from it `QuietIsWhole`. `WholeWhenQuiet` is not inductive, and the piece
  that is missing is to come from a writer that has not got there yet.
  `ReadsUndisturbed` also needs `NoReadFailure` and `Dense = {}`, and the
  invariant `ReadersOK`: what an undisturbed reader has measured is the whole.
* **add and hash-object over the store, every fault**: `StoreImplemented`,
  `Spec => Store!Spec`: every step of a command is a step of the object store
  or leaves it alone. So what is proved of `ObjectStore` holds of the store the
  commands share, and is cited through an instance of its proof module:
  `BlobsRepaired`, `BlobsAsPromised` (the refinement), and the store's part of
  `CommandsTypeCorrect`. `BlobsFirst` is the order of blob and entry; its invariant `TablesStored` speaks of the
  tables of all processes, in memory and on disk, since one process's save is
  what the next one reads. `BlobsReadable`, where no write fails and nobody is
  killed, joins it with `QuietIsWhole`.
* **add, every fault**: `RestIsKept`, by the invariant `Kept`. Its parts: what a
  command has staged is in its table, and what it was asked for is staged, still
  to come, at hand, or passed over, unless something failed (`CommandsRight`); an
  index file that is not torn says what it said last (`LastRight`); and what a
  fresh table holds that the command did not stage is what the file said last,
  and the file is torn while a fresh command saves (`FreshRight`), which is where
  "nobody overtook it" enters and why a save that leaves the file whole is the
  command's own.
* **add, unless the last flush fails unseen** (`"close" \notin Faults`):
  `ExitIsTrue`, by `Kept` and `Truth`: the size a command has taken and the bytes
  it is storing or has staged come from the history `past` of the file. `Cuts` is
  where the race between `stat` and `fread` is admitted, and where it ends: a
  staged content is never of another file and never longer than one it has held.
* **Tree writer, every fault**: `TreeTypeCorrect`, `DepthCounted` and
  `NothingMissing`. The invariant is `TreeInv`. That no entry names an object
  that was never stored is not inductive of the store alone: a subdirectory's
  tree is stored by one call and named by another. So `Frames(O)` is the set of
  frames whose entries name objects of `O`; the stack is a sequence of
  `Frames(stored)`, and `FramesGrow` says that it stays one while `stored` grows.
  The same could not be said of `objects`, which shrinks when a store is broken
  off. `TreesShowFiles` and `NothingForgotten` extend it to `ShownInv`: in every
  frame the names taken, passed over and still to come are different ones, and
  each entry shows a mode of the history `seen` and a beginning of a content of
  it (`Cuts`), for what the frame has measured and what its open file may hold
  come from there; what the innermost call found is taken, passed over or to
  come; and what its entries name is whole in `objects`, unless the call has
  failed (`Covered`), since a store that is broken off makes it fail. A call that waits for one below need not be
  covered: it never writes a tree, because the builder refuses the directory
  (finding 2).
* **History, every fault**: `ParentComesBack`, that `ParentOf` undoes
  `CommitLines` for any message; `HistoryTypeCorrect`, `LogShowsParents` and
  `LogStopsRightly`, by the invariant `HistoryInv`. What it says of the store
  (`StoreRight`) is that an object stored once and not whole any more was cut or
  is being stored, and that the parent asked for is the one its commit gives
  back; of `log` (`LogRight`), that where it is is the parent of what it has shown
  last. Nothing is assumed of the parents `commit-tree` is given. `QuietLog`, of a `log`
  that runs alone, adds `QuietRight`: the branch it has read of is the one
  `HEAD` names, its walk began at `HeadName`, and it has shown no more than its
  limit. It assumes that no commit is the line that is no name.
* **What is stored can be listed**: `TreesListed`. It needs of `ShownInv` that
  the names in a stored tree are names a directory can have, and otherwise it is
  a fact about bytes. A loop stops where its field ends if the field ends in
  time (`StopAt`); the bytes of an entry, wherever they are, are read as that
  entry (`ParseOne`); so the parser, at the place where an entry begins, gives
  the lines from that entry on (`ParsedFrom`), counted back from the end. That
  the parser ends at all (`ParserExists`) is that each entry is followed by a
  later place (`AfterIsBehind`).
* **status, every fault**: `StatusTypeCorrect`, `SettledSeen` and
  `ListsComplete`, by the invariant `StatusInv`. Its parts: a file older than
  the look of `add` has the content that was staged (`FilesRight`), in memory,
  on disk, and while `add` is between its looks; the calls that list anything
  lie in each other, and what leads from one to the next is crossed out in it
  (`StackRight`), so no path is come by twice even where directories contain
  each other; a call on the way of a path reads the directory the path leads to
  (`WaysRight`); no two files share a key, since none but the dotted spellings
  begins with `Dot`; a list has a path once, and not while the scan has still to
  come by it (`ListsRight`); and every file that nobody touches is still to be
  come by, being compared, or judged rightly (`Complete`). The last is what the
  properties say at the end, and it is not inductive without the others. It is
  assumed that no file is from the future to begin with and that a path has room
  for a name.
* **SHA-1**: `StreamIsKept` and `DigestOfMessage`, for any number of bytes, any
  pieces, and any block and word size for which a word counts whole blocks.
  The invariant `StreamInv` says that what was transformed and what is buffered
  are together what was given, and that the two words are its length in bits.
  That the carry is right is `CountGrows`, and that the position in the block
  can be taken from the low word alone is `PositionIs`. For the digest,
  `PaddingRight` says of a hash that is being ended how many zeros it has been
  given and that they are not more than are needed; `NeededFacts` that there is
  one such number below a block; `LowDigits` and `HighDigits` that the bytes of
  the two words are the digits of the length.

Only checked by TLC: liveness (`StoredInTheEnd`, `CommandsEnd`, `TornHeals`,
`CommandEnds`, `ScanEnds`), which the prover cannot reach. Every other property
of a run is stated by a theorem.

## 5. Findings

Each is a violation run, and TLC's trace is the shortest way there.

1. `object_dense`: two buffer sizes and then an error (`object.c:197`, against
   `tests/test_object.c:127`).
2. `tree_nested`: `GIT_MODE_DIR` is `"40000"`, and `git_validate_mode` knows
   `"040000"` (`tree.c:317`, against CHANGELOG.md:278).

Seen while modelling, without a run of their own. In the index:

* `git_index_read` doubles the array without the cap of `git_index_add`, which
  then accepts entries over `MAX_TREE_ENTRIES`, up to an index that can be saved
  and never read (`index.c:214`, against CHANGELOG.md:66);
* the result of `fclose` is dropped, so a save whose last flush fails says OK
  and leaves the handle clean (`index.c:332`, against CHANGELOG.md:113);
* the checksum of the index is written and never verified: `DamageIsConfined`
  says what can get through, a shortened last path;
* versions 3 and 4 of the format are accepted and read as version 2.

In `add`, `hash-object` and the store:

* `add` takes a file's size from a `stat` before it opens the file
  (`index.c:414`), so one that grows in between is staged cut short;
* two overlapping `add`s: the later save drops what the earlier staged
  (`KeepsTheRest` holds only of commands that were not overtaken);
* a torn index makes every later `add` fail; only removing the file helps;
* an index that exists is rewritten by every `add`, even one that staged
  nothing, because reading clears the handle and that sets `dirty`;
* storing an object that is there empties its file first, and a write that
  fails leaves the truncated file under the object's name (`object.c:314`,
  against CHANGELOG.md:114);
* files without data can be neither added, nor hashed, nor written to a tree;
* a path that is too long below a directory given to `add` is left out with a
  message, and the command says OK; so is what is no regular file;
* directories given to `add` are walked without a limit on the depth.

In the trees:

* `write-tree` measures a file before it reads it, so one that grows in between
  is stored cut short; and it stores blobs and trees again that are there, which
  empties trees that others rely on when it is broken off (`object.c:302`);
* `write-tree` passes over a file it cannot open and reports success, and an
  over-long path fails a directory depending on the order of `readdir`;
* `git_index_write_tree` takes whole paths for names; `ls-tree` and `cat-file`
  cannot list a tree with one of 256 bytes or more.

In the other commands:

* `add .` stages `./f` (`add.c:69` and `131`; the path goes into the index as it
  is, `index.c:478`), and `status` looks up `f` (`status.c:138`). Each file is
  then listed as staged and as untracked, however often it is added, and a later
  change of it is never shown (against the usage at `add.c:105`, "Add all files",
  and the advice under "Untracked files:" at `status.c:302`);
* `status` counts no depth, against the limit in ARCHITECTURE.md:230, and a path
  that is cut leads back into its own directory;
* `status` shows neither deleted files nor changes within the second of the
  `add`, says nothing of directories it cannot read or of names beyond 1024;
* `commit-tree` moves no branch, though ARCHITECTURE.md:209 says so;
* `init` in a repository in use resets `HEAD` to `main`, and empties it first;
* `log` follows the last parent of a merge, and ends without an error at a
  parent it cannot read, be it one that compresses too well (finding 1);
* `git_validate_safe_path` accepts the empty path, which
  `tests/test_validation.c:38` says it rejects.

## 6. Not modelled, and what is left

Not modelled, with no plan to: `sha1_transform` and zlib (arithmetic; an
object's name stands for its content), printing and argument parsing,
`error.c`, the dispatch of commands, Windows code paths, and the two lines
`status` prints of `HEAD`. Of validation, `git_validate_mode` and
`git_safe_path_join` are in `WriteTree`; what `git_validate_safe_path` refuses
is a set of paths given as a constant, since its predicate on the characters of
a string is what a unit test reaches best.

The walk of `add` through a directory is the set of the files below it: that it
has no limit on the depth, and goes in a circle where links do until the path is
too long, is not modelled; the same scan in `status` and in `write-tree` is.
That more than 4 GiB in one piece would wrap the `uint32_t` position of
`git_sha1_update` is left out, since the program accepts no object of that size.

Left to do: `init` and `log` over the piecewise object store of `ObjectStore`
instead of the set `whole`.
