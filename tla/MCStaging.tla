----------------------------- MODULE MCStaging -----------------------------
EXTENDS Staging, TLC

CONSTANTS p1, p2, f1, f2, f3, f4

One == <<1>>
Two == <<2, 2>>

ShortContents == {One, Two}
AllContents == {<<>>, One, Two}

OnePiece == [c \in Objects |-> 1]

File(f) == [kind |-> "file", under |-> {f}]
Directory(s) == [kind |-> "directory", under |-> s]

FileOrDirectory == {<<File(f1)>>, <<Directory({f2})>>}
FailuresAmong == {<<Directory({f1, f2, f4}), File(f1)>>, <<File(f3), Directory({f2, f3, f4})>>}

BothHere == (f1 :> One) @@ (f2 :> Two)
SameInBoth == (f1 :> One) @@ (f2 :> One) @@ (f3 :> Two) @@ (f4 :> Nothing)
=============================================================================
