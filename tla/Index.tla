------------------------------- MODULE Index -------------------------------
(***************************************************************************)
(* The index of src/core/index.c: the array of entries a git_index holds,   *)
(* the index file it reads and writes, and the tree objects it is made from *)
(* and turned into.  One handle, used by one caller; module Staging lets    *)
(* several processes share the file.                                        *)
(*                                                                         *)
(* A path is its rank in strcmp order.  The stat fields of an entry are     *)
(* left to the modules that look at them.  The loops of git_index_read and  *)
(* git_index_read_tree take a step per entry: what they have loaded so far  *)
(* is what an error in the middle leaves behind.                            *)
(***************************************************************************)
EXTENDS Naturals, Sequences, FiniteSets, Functions, SequencesExt

CONSTANTS
    Paths,            \* the paths in play, each a rank in strcmp order
    UnsafePaths,      \* those git_validate_safe_path refuses
    Cut,              \* Cut[p]: what can be left of p when a file ends inside it
    Shas,             \* object names
    Modes,            \* file modes callers pass: "blob", "exec", "link", "tree"
    InitialCapacity,  \* INITIAL_CAPACITY, 64
    MaxTreeEntries,   \* MAX_TREE_ENTRIES, 10000
    ForeignTrees,     \* trees other programs put in the object store
    MaxTrees,         \* bound on the model: number of trees in the store
    Faults            \* what the environment may do to a call

FaultKinds == {"open", "write", "close", "crash", "nomem", "object"}
ModeNames == {"blob", "exec", "link", "tree"}

Entry == [path : Paths, sha1 : Shas, mode : ModeNames]

ASSUME PathsAssumption ==
    /\ Paths \subseteq Nat
    /\ UnsafePaths \subseteq Paths
    /\ Cut \in [Paths -> SUBSET Paths]
ASSUME ModesAssumption == Modes \subseteq ModeNames
ASSUME CapacityAssumption ==
    /\ InitialCapacity \in Nat \ {0}
    /\ MaxTreeEntries \in Nat
    /\ InitialCapacity <= MaxTreeEntries
ASSUME TreesAssumption ==
    /\ ForeignTrees \subseteq Seq(Entry)
    /\ MaxTrees \in Nat
ASSUME FaultsAssumption == Faults \subseteq FaultKinds

VARIABLES
    open,       \* the caller holds a git_index
    entries,    \* index->entries[0 .. entry_count-1]
    capacity,   \* index->capacity
    dirty,      \* index->dirty
    file,       \* .git/index
    trees,      \* contents of the tree objects in the store
    load,       \* progress of git_index_read or git_index_read_tree
    ret,        \* what the last call returned
    intent      \* history: the entries last handed to git_index_write

handle == <<open, entries, capacity, dirty>>
vars == <<open, entries, capacity, dirty, file, trees, load, ret, intent>>

-----------------------------------------------------------------------------
(* The file                                                                *)

Absent == [kind |-> "absent", count |-> 0, recs |-> <<>>]
Stub == [kind |-> "stub", count |-> 0, recs |-> <<>>]     \* no full header
Image(n, recs) == [kind |-> "index", count |-> n, recs |-> recs]

\* A file that ends early keeps the header's count and either whole entries,
\* or whole entries and one whose path is cut short; git_index_read takes
\* the end of the file for the end of the path.
CutEntry(e, q) == [e EXCEPT !.path = q]

\* Variant: the file is opened without truncation, the old tail shows through.
TornInPlace(s) ==
    {Image(Len(s), [i \in 1..Len(s) |->
        IF i > n /\ i \in DOMAIN file.recs THEN file.recs[i] ELSE s[i]])
            : n \in 0..Len(s)}

TornImages(s) ==
    {Stub}
    \cup {Image(Len(s), SubSeq(s, 1, n)) : n \in 0..Len(s)}
    \cup UNION {{Image(Len(s), Append(SubSeq(s, 1, n - 1), CutEntry(s[n], q)))
                    : q \in Cut[s[n].path]} : n \in 1..Len(s)}

-----------------------------------------------------------------------------
(* The array                                                               *)

Sorted(s) == \A i, j \in DOMAIN s : i < j => s[i].path <= s[j].path

Distinct(s) == \A i, j \in DOMAIN s : s[i].path = s[j].path => i = j

\* qsort is not stable: entries with equal paths may come out in any order.
Rearranged(s) ==
    {[i \in DOMAIN s |-> s[f[i]]] : f \in Bijection(DOMAIN s, DOMAIN s)}
\* Variant: no sort.
UnsortedForms(s) == {s}

SortedForms(s) == {t \in Rearranged(s) : Sorted(t)}

\* The entry every lookup finds: the first with the path.
FoundAt(s, p) ==
    {i \in DOMAIN s : s[i].path = p /\ \A j \in 1..(i - 1) : s[j].path # p}

\* Variant: the array grows one entry too late.
DoubledLate == IF Len(entries) > capacity THEN 2 * capacity ELSE capacity

DoubledCapacity == IF Len(entries) >= capacity THEN 2 * capacity ELSE capacity

CappedCapacity ==
    IF Len(entries) < capacity THEN capacity
    ELSE IF 2 * capacity > MaxTreeEntries THEN MaxTreeEntries
    ELSE 2 * capacity

-----------------------------------------------------------------------------
Idle == [kind |-> "idle", left |-> <<>>, missing |-> FALSE]

Init ==
    /\ open = FALSE /\ entries = <<>> /\ capacity = 0 /\ dirty = FALSE
    /\ file = Absent
    /\ trees = ForeignTrees
    /\ load = Idle
    /\ ret = "OK"
    /\ intent = <<>>

Ready == open /\ load = Idle

New ==
    /\ ~open
    /\ \/ /\ open' = TRUE /\ entries' = <<>> /\ dirty' = FALSE
          /\ capacity' = InitialCapacity
          /\ ret' = "OK"
       \/ "nomem" \in Faults /\ ret' = "NOMEM" /\ UNCHANGED handle
    /\ UNCHANGED <<file, trees, load, intent>>

DropHandle ==
    open' = FALSE /\ entries' = <<>> /\ capacity' = 0 /\ dirty' = FALSE

Free ==
    /\ Ready
    /\ DropHandle
    /\ UNCHANGED <<file, trees, load, ret, intent>>

Clear ==
    /\ Ready
    /\ entries' = <<>> /\ dirty' = TRUE
    /\ ret' = "OK"
    /\ UNCHANGED <<open, capacity, file, trees, load, intent>>

-----------------------------------------------------------------------------
(* git_index_add, also called for every entry of a tree that is read.       *)

Refused(p) ==
    /\ p \in UnsafePaths
    /\ ret' = "INVALID"
    /\ UNCHANGED handle

\* Variant: the change is not marked.
UpdateNotDirty(e) ==
    /\ e.path \notin UnsafePaths
    /\ \E i \in FoundAt(entries, e.path) :
        entries' = [entries EXCEPT ![i] = e]
    /\ ret' = "OK"
    /\ UNCHANGED <<open, capacity, dirty>>

\* Variant: the slot is zeroed first, as for a new entry, and loses its path.
UpdateZeroed(e) ==
    /\ e.path \notin UnsafePaths
    /\ \E i \in FoundAt(entries, e.path) :
        entries' = [entries EXCEPT ![i] = [sha1 |-> e.sha1, mode |-> e.mode]]
    /\ dirty' = TRUE
    /\ ret' = "OK"
    /\ UNCHANGED <<open, capacity>>

Update(e) ==
    /\ e.path \notin UnsafePaths
    /\ \E i \in FoundAt(entries, e.path) :
        entries' = [entries EXCEPT ![i] = [@ EXCEPT !.sha1 = e.sha1,
                                                    !.mode = e.mode]]
    /\ dirty' = TRUE
    /\ ret' = "OK"
    /\ UNCHANGED <<open, capacity>>

\* Variant: the lookup is skipped.
IsNewUnchecked(p) == p \notin UnsafePaths

IsNew(p) == p \notin UnsafePaths /\ FoundAt(entries, p) = {}

Full(p) ==
    /\ IsNew(p)
    /\ Len(entries) >= CappedCapacity
    /\ ret' = "OVERFLOW"
    /\ UNCHANGED handle

Insert(e) ==
    /\ IsNew(e.path)
    /\ Len(entries) < CappedCapacity
    /\ entries' = Append(entries, e)
    /\ capacity' = CappedCapacity
    /\ dirty' = TRUE
    /\ ret' = "OK"
    /\ UNCHANGED open

\* realloc fails, or strdup after the array has grown.
InsertNoMemory(p) ==
    /\ "nomem" \in Faults
    /\ IsNew(p)
    /\ Len(entries) < CappedCapacity
    /\ capacity' \in {capacity, CappedCapacity}
    /\ ret' = "NOMEM"
    /\ UNCHANGED <<open, entries, dirty>>

AddFails(e) == Refused(e.path) \/ Full(e.path) \/ InsertNoMemory(e.path)

AddEntry(e) == Update(e) \/ Insert(e) \/ AddFails(e)

Add(p, sha, mode) ==
    /\ Ready
    /\ AddEntry([path |-> p, sha1 |-> sha, mode |-> mode])
    /\ UNCHANGED <<file, trees, load, intent>>

RemovePath(p) ==
    /\ Ready
    /\ \/ /\ \E i \in FoundAt(entries, p) : entries' = RemoveAt(entries, i)
          /\ dirty' = TRUE
          /\ ret' = "OK"
       \/ /\ FoundAt(entries, p) = {}
          /\ ret' = "NOTFOUND"
          /\ UNCHANGED <<entries, dirty>>
    /\ UNCHANGED <<open, capacity, file, trees, load, intent>>

-----------------------------------------------------------------------------
(* git_index_read                                                          *)

\* The early returns, before git_index_clear: the handle keeps what it had.
ReadNothing ==
    /\ Ready
    /\ \/ file.kind = "absent" /\ ret' = "OK"
       \/ "open" \in Faults /\ ret' = "ERROR"
       \/ file.kind = "stub" /\ ret' = "ERROR"
       \/ file.kind = "index" /\ file.count > MaxTreeEntries /\ ret' = "OVERFLOW"
    /\ UNCHANGED <<handle, file, trees, load, intent>>

\* Variant: the old entries are not cleared.
BeginReadNoClear ==
    /\ Ready
    /\ file.kind = "index" /\ file.count <= MaxTreeEntries
    /\ dirty' = TRUE
    /\ load' = [kind |-> "file", left |-> file.recs,
                missing |-> Len(file.recs) < file.count]
    /\ UNCHANGED <<open, entries, capacity, file, trees, ret, intent>>

BeginRead ==
    /\ Ready
    /\ file.kind = "index" /\ file.count <= MaxTreeEntries
    /\ entries' = <<>> /\ dirty' = TRUE
    /\ load' = [kind |-> "file", left |-> file.recs,
                missing |-> Len(file.recs) < file.count]
    /\ UNCHANGED <<open, capacity, file, trees, ret, intent>>

\* One turn of the loop: no check of the path, of a duplicate or of the
\* checksum, and the array doubles without the cap git_index_add has.
ReadEntry ==
    /\ load.kind = "file" /\ load.left # <<>>
    /\ entries' = Append(entries, Head(load.left))
    /\ capacity' = DoubledCapacity
    /\ load' = [load EXCEPT !.left = Tail(@)]
    /\ UNCHANGED <<open, dirty, file, trees, ret, intent>>

ReadEntryNoMemory ==
    /\ "nomem" \in Faults
    /\ load.kind = "file" /\ load.left # <<>>
    /\ load' = Idle
    /\ ret' = "NOMEM"
    /\ UNCHANGED <<handle, file, trees, intent>>

\* Variant: the end of the file is taken for the end of the entries.
EndReadEarly ==
    /\ load.kind = "file" /\ load.left = <<>>
    /\ load' = Idle
    /\ ret' = "OK"
    /\ UNCHANGED <<handle, file, trees, intent>>

EndRead ==
    /\ load.kind = "file" /\ load.left = <<>>
    /\ load' = Idle
    /\ ret' = IF load.missing THEN "ERROR" ELSE "OK"
    /\ UNCHANGED <<handle, file, trees, intent>>

-----------------------------------------------------------------------------
(* git_index_write: truncate, sort in place, write, close.                  *)

WriteNotOpened ==
    /\ Ready
    /\ "open" \in Faults
    /\ ret' = "ERROR"
    /\ UNCHANGED <<handle, file, trees, load, intent>>

Write ==
    /\ Ready
    /\ \E s \in SortedForms(entries) :
        /\ intent' = s
        /\ \/ /\ file' = Image(Len(s), s)
              /\ entries' = s /\ dirty' = FALSE /\ ret' = "OK"
              /\ UNCHANGED <<open, capacity>>
           \/ /\ "write" \in Faults              \* an fwrite comes up short
              /\ file' \in TornImages(s)
              /\ entries' = s /\ ret' = "ERROR"
              /\ UNCHANGED <<open, capacity, dirty>>
           \/ /\ "close" \in Faults              \* the flush in fclose fails
              /\ file' \in TornImages(s)
              /\ entries' = s /\ dirty' = FALSE /\ ret' = "OK"
              /\ UNCHANGED <<open, capacity>>
           \/ /\ "crash" \in Faults
              /\ file' \in TornImages(s)
              /\ DropHandle
              /\ UNCHANGED ret
    /\ UNCHANGED <<trees, load>>

-----------------------------------------------------------------------------
(* Trees                                                                   *)

\* The mode string written: "40000", "100755", and "100644" for anything else.
TreeMode(mode) == IF mode \in {"tree", "exec"} THEN mode ELSE "blob"

TreeOf(s) == [i \in DOMAIN s |-> [s[i] EXCEPT !.mode = TreeMode(@)]]

WriteTreeEmpty ==
    /\ Ready
    /\ entries = <<>>
    /\ ret' = "ERROR"
    /\ UNCHANGED <<handle, file, trees, load, intent>>

\* The sort stays in the array whether or not the object can be written.
WriteTree ==
    /\ Ready
    /\ entries # <<>>
    /\ \E s \in SortedForms(entries) :
        /\ entries' = s
        /\ \/ /\ trees' = trees \cup {TreeOf(s)}
              /\ Cardinality(trees') <= MaxTrees
              /\ ret' = "OK"
           \/ /\ "object" \in Faults \/ "nomem" \in Faults
              /\ ret' \in {"ERROR", "NOMEM"}
              /\ UNCHANGED trees
    /\ UNCHANGED <<open, capacity, dirty, file, load, intent>>

\* git_index_read_tree; an object that is missing, is not a tree or cannot be
\* read leaves the handle alone.
BeginReadTree ==
    /\ Ready
    /\ \/ \E t \in trees :
            /\ entries' = <<>> /\ dirty' = TRUE
            /\ load' = [kind |-> "tree", left |-> t, missing |-> FALSE]
            /\ UNCHANGED <<open, capacity, ret>>
       \/ /\ \/ ret' \in {"NOTFOUND", "INVALID"}
             \/ "object" \in Faults /\ ret' = "ERROR"
          /\ UNCHANGED <<handle, load>>
    /\ UNCHANGED <<file, trees, intent>>

ReadTreeEntry ==
    /\ load.kind = "tree" /\ load.left # <<>>
    /\ LET e == Head(load.left) IN
        \/ /\ e.mode = "tree"
           /\ load' = [load EXCEPT !.left = Tail(@)]
           /\ UNCHANGED <<handle, ret>>
        \/ /\ e.mode # "tree"
           /\ \/ /\ Update(e) \/ Insert(e)
                 /\ load' = [load EXCEPT !.left = Tail(@)]
              \/ AddFails(e) /\ load' = Idle
    /\ UNCHANGED <<file, trees, intent>>

EndReadTree ==
    /\ load.kind = "tree" /\ load.left = <<>>
    /\ load' = Idle
    /\ ret' = "OK"
    /\ UNCHANGED <<handle, file, trees, intent>>

-----------------------------------------------------------------------------
Next ==
    \/ New \/ Free \/ Clear
    \/ \E p \in Paths, sha \in Shas, mode \in Modes : Add(p, sha, mode)
    \/ \E p \in Paths : RemovePath(p)
    \/ ReadNothing \/ BeginRead \/ ReadEntry \/ ReadEntryNoMemory \/ EndRead
    \/ WriteNotOpened \/ Write
    \/ WriteTreeEmpty \/ WriteTree
    \/ BeginReadTree \/ ReadTreeEntry \/ EndReadTree

Spec == Init /\ [][Next]_vars

-----------------------------------------------------------------------------
(* Properties                                                              *)

FileType == [kind : {"absent", "stub", "index"}, count : Nat, recs : Seq(Entry)]

LoadType ==
    [kind : {"idle", "file", "tree"}, left : Seq(Entry), missing : BOOLEAN]

\* The type invariant.
TypeOK ==
    /\ open \in BOOLEAN /\ dirty \in BOOLEAN
    /\ entries \in Seq(Entry) /\ capacity \in Nat
    /\ file \in FileType
    /\ trees \in SUBSET Seq(Entry)
    /\ load \in LoadType
    /\ ret \in {"OK", "ERROR", "INVALID", "NOTFOUND", "OVERFLOW", "NOMEM"}
    /\ intent \in Seq(Entry)

\* Every slot git_index_add and git_index_read store into has been allocated,
\* whatever mix of the capped and the uncapped growth produced the array, and
\* the array never reaches twice MAX_TREE_ENTRIES.  Holds under every fault.
CapacityBound ==
    open => Len(entries) <= capacity /\ capacity < 2 * MaxTreeEntries

\* The table has one entry per path in memory, on disk, and part-way through
\* a read, which does not look for duplicates.  Needs files nobody tore.
UniquePaths ==
    /\ Distinct(entries)
    /\ Distinct(file.recs)
    /\ load.kind = "file" => Distinct(entries \o load.left)

\* An index file in place is complete and in path order, so that a reader
\* that stops at the header's count has read all of it.
SavedInOrder == Sorted(file.recs) /\ file.count = Len(file.recs)

\* `dirty` tells the caller whether the file is behind the table: a clean
\* table with entries in it is the table on disk, in the order on disk.
CleanIsSaved == ~dirty => entries = <<>> \/ entries = file.recs

\* In the middle of a read, what has been loaded followed by what is left is
\* the file, which holds no more entries than it announces, and it announces
\* no more than the limit.  What makes CapacityBound and ReadIsExact hold.
ReadInProgress ==
    /\ load.kind # "idle" => open
    /\ Len(file.recs) <= file.count
    /\ load.kind = "file" =>
        /\ entries \o load.left = file.recs
        /\ file.count <= MaxTreeEntries
        /\ load.missing = (Len(file.recs) < file.count)

\* A read that reports success has loaded every entry the file announces, in
\* file order; anything less is reported.  Holds under every fault.
ReadIsExact ==
    [][load.kind = "file" /\ load' = Idle /\ ret' = "OK"
        => entries' = file.recs /\ Len(entries') = file.count]_vars

\* The trees made from the index are in order, name a path once and hold no
\* entry the table did not, whatever was read into the table before.
TreesInOrder ==
    [][\A t \in trees' \ trees :
        /\ Sorted(t) /\ Distinct(t)
        /\ \A i \in DOMAIN t : \E e \in Range(entries) :
              t[i].path = e.path /\ t[i].sha1 = e.sha1]_vars

\* Nothing checks the trailing checksum, so a file that lost its end can be
\* accepted.  What it can then get wrong is the path of the last entry and
\* nothing else.  Holds under every fault.
DamageIsConfined ==
    file.kind = "index" /\ Len(file.recs) = file.count =>
        /\ file.count = Len(intent)
        /\ \A i \in DOMAIN intent :
            /\ i < Len(intent) => file.recs[i] = intent[i]
            /\ file.recs[i].sha1 = intent[i].sha1
            /\ file.recs[i].path \in {intent[i].path} \cup Cut[intent[i].path]

\* The index implements the table of StagingArea while no write is torn.  A
\* read from the file is one Load: what it still has to read counts as staged.
StagedTable ==
    IF load.kind = "file" THEN Range(entries \o load.left) ELSE Range(entries)
SavedTable == Range(file.recs)

Staging == INSTANCE StagingArea WITH
    Entries <- Entry, staged <- StagedTable, saved <- SavedTable

ImplementsStagingArea == Staging!Spec
=============================================================================
