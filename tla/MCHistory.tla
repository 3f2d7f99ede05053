----------------------------- MODULE MCHistory -----------------------------
EXTENDS History, TLC

CONSTANTS main, side, t1, blob, p1

Other == CommitLines(t1, NoCommit, <<Text>>)

\* A message that looks like the line of a parent, after an empty line.
Misleading == <<Text, Blank, Parent(Other)>>
SomeMessages == {Misleading}

RootCommit == CommitLines(t1, NoCommit, Misleading)

\* Two parents, of which log takes the second.
Merge == <<Line("tree", t1), Parent(Other), Parent(RootCommit),
           Line("author", NoCommit), Line("committer", NoCommit), Blank, Text>>

\* It cannot be inflated.
Heavy == CommitLines(t1, NoCommit, <<Repeats>>)

FourForeign == {Other, RootCommit, Merge, Heavy}

Refs == {(main :> Merge) @@ (side :> Garbage)}
SomeLimits == {2}
=============================================================================
