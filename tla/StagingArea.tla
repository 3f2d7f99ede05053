---------------------------- MODULE StagingArea ----------------------------
(***************************************************************************)
(* What the index promises the rest of C-Git: a table with at most one     *)
(* entry per path (`staged`) and a saved copy of it (`saved`).  Saving      *)
(* replaces the copy as a whole, loading replaces the table as a whole.     *)
(* Nothing here knows about arrays, capacities, sorting or a file's bytes;  *)
(* module Index implements this one.                                        *)
(***************************************************************************)

CONSTANT Entries        \* the entries a caller can stage, records with a path

VARIABLES staged,       \* the table in memory
          saved         \* the table on disk

vars == <<staged, saved>>

OnePerPath(table) == \A e, f \in table : e.path = f.path => e = f

TypeOK ==
    /\ staged \in SUBSET Entries /\ OnePerPath(staged)
    /\ saved \in SUBSET Entries /\ OnePerPath(saved)

Init == staged = {} /\ saved = {}

Without(table, p) == {e \in table : e.path # p}

Stage(e) == /\ staged' = Without(staged, e.path) \cup {e}
            /\ UNCHANGED saved

Unstage(p) == /\ p \in {e.path : e \in staged}
              /\ staged' = Without(staged, p)
              /\ UNCHANGED saved

\* The table is emptied: by the caller, or with the handle that held it.
Reset == /\ staged' = {}
         /\ UNCHANGED saved

Save == /\ saved' = staged
        /\ UNCHANGED staged

Load == /\ staged' = saved
        /\ UNCHANGED saved

\* A load that runs out of memory keeps the part it had read.
LoadPart == /\ staged' \in SUBSET saved
            /\ UNCHANGED saved

Next == \/ \E e \in Entries : Stage(e) \/ Unstage(e.path)
        \/ Reset \/ Save \/ Load \/ LoadPart

Spec == Init /\ [][Next]_vars
=============================================================================
