----------------------------- MODULE TreeFormat -----------------------------
(***************************************************************************)
(* The bytes of a tree object: how git_tree_builder_write of src/core/tree.c*)
(* puts them together, and how ls-tree and cat-file of src/commands take    *)
(* them apart, each with a parser of its own and buffers of fixed size.     *)
(*                                                                         *)
(* A byte is known by the field it is in and its place there.  The parsers  *)
(* look for a space and for a null byte; the bytes of a name hold neither,  *)
(* and those of a hash are never looked at.                                 *)
(***************************************************************************)
EXTENDS Naturals, Sequences

CONSTANTS
    Length,         \* Length[n]: the bytes of name n
    ModeBuf,        \* mode[10] of the parsers
    NameBuf,        \* their name[256]
    DigestSize      \* SHA1_DIGEST_SIZE, 20

ModeLength == 6     \* "100644"; the builder takes no mode of another length

\* A name in a directory has at most 255 bytes.
ASSUME FormatAssumption ==
    /\ {ModeBuf, NameBuf, DigestSize} \subseteq Nat \ {0}
    /\ ModeLength < ModeBuf
    /\ \A n \in DOMAIN Length : Length[n] < NameBuf

Field(kind, of, size) == [i \in 1..size |-> [kind |-> kind, of |-> of, at |-> i]]
Space == <<[kind |-> "space"]>>
Null == <<[kind |-> "null"]>>

ModeBytes(e) == Field("mode", e.mode, ModeLength)
NameBytes(e) == Field("name", e.name, Length[e.name])
HashBytes(e) == Field("hash", e.obj, DigestSize)

EntryBytes(e) == ModeBytes(e) \o Space \o NameBytes(e) \o Null \o HashBytes(e)

\* The bytes of the first entries, as the loop puts them together.
BytesUpTo(entries) ==
    LET upTo[i \in 0..Len(entries)] ==
            IF i = 0 THEN <<>> ELSE upTo[i - 1] \o EntryBytes(entries[i])
    IN upTo

\* The content of the tree object.
TreeBytes(entries) == BytesUpTo(entries)[Len(entries)]

-----------------------------------------------------------------------------
\* Variant: the buffer is thought to be one byte smaller.
StopShort(data, from, kind, size) ==
    CHOOSE k \in from..Len(data) + 1 :
        /\ k > Len(data) \/ data[k].kind = kind \/ k - from >= size - 2
        /\ \A j \in from..k - 1 : j - from < size - 2 /\ data[j].kind # kind

\* Where the loop that copies a field into a buffer of that size stops: at the
\* end of the field, where the buffer is full, or where the data ends.
Stop(data, from, kind, size) ==
    CHOOSE k \in from..Len(data) + 1 :
        /\ k > Len(data) \/ data[k].kind = kind \/ k - from >= size - 1
        /\ \A j \in from..k - 1 : j - from < size - 1 /\ data[j].kind # kind

IsAt(data, k, kind) == k <= Len(data) /\ data[k].kind = kind

Malformed == [error |-> "Malformed tree object"]

\* The entry that begins at o: its mode ends at a space, its name at a null,
\* and all of its hash is there.
ModeEnd(data, o) == Stop(data, o, "space", ModeBuf)
NameEnd(data, o) == Stop(data, ModeEnd(data, o) + 1, "null", NameBuf)
After(data, o) == NameEnd(data, o) + DigestSize + 1

IsEntry(data, o) ==
    /\ IsAt(data, ModeEnd(data, o), "space")
    /\ IsAt(data, NameEnd(data, o), "null")
    /\ After(data, o) <= Len(data) + 1

EntryAt(data, o) ==
    [mode |-> SubSeq(data, o, ModeEnd(data, o) - 1),
     name |-> SubSeq(data, ModeEnd(data, o) + 1, NameEnd(data, o) - 1),
     hash |-> SubSeq(data, NameEnd(data, o) + 1, After(data, o) - 1)]

\* The entries as they are printed, up to the first that is malformed.
Parsed(data) ==
    LET from[o \in 1..Len(data) + 1] ==
            IF o > Len(data) THEN <<>>
            ELSE IF ~IsEntry(data, o) THEN <<Malformed>>
            ELSE <<EntryAt(data, o)>> \o from[After(data, o)]
    IN from[1]

\* cmd_ls_tree, on an object that could be read.
LsTree(o) == IF o.type = "tree" THEN Parsed(TreeBytes(o.entries)) ELSE <<Malformed>>

\* cmd_cat_file prints the bytes of a blob, and no names for a tree.
CatFile(o) ==
    IF o.type # "tree" THEN <<o.content>>
    ELSE LET entries == Parsed(TreeBytes(o.entries))
         IN [i \in DOMAIN entries |-> IF entries[i] = Malformed THEN Malformed
                                      ELSE [mode |-> entries[i].mode,
                                            hash |-> entries[i].hash]]
=============================================================================
