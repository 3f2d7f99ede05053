------------------------------ MODULE MCStatus ------------------------------
EXTENDS Status, TLC

CONSTANTS top, sub

One == <<1>>
Two == <<2>>
Wraps == <<1, 1, 1, 1>>      \* as long as One, up to a multiple of Word

SomeContents == {One, Two, Wraps}

\* The last name is the longest.
Lengths == [n \in Names |-> IF n = 3 THEN 7 ELSE 1]

Holds(a, b, c) == (1 :> a) @@ (2 :> b) @@ (3 :> c)

Old(c) == File(c, 0)

\* A subdirectory with a link back to the top and a file whose path gets too
\* long.
Circle == (top :> Holds(Old(One), Dir(sub), None))
          @@ (sub :> Holds(None, Link(top), Old(Two)))

\* A subdirectory whose path leaves no room for the names in it.
Long == (top :> Holds(None, None, Dir(sub)))
        @@ (sub :> Holds(Old(One), None, None))

\* One directory below the other, with more files than a list has room for.
Plain == (top :> Holds(Old(One), Dir(sub), Other))
         @@ (sub :> Holds(Old(One), Old(Two), None))

SomeTrees == {Circle, Long, Plain}

TopFile == [path |-> <<1>>, dir |-> top, name |-> 1]
SubFile == [path |-> <<2, 1>>, dir |-> sub, name |-> 1]
Both == {TopFile, SubFile}

JustTop == {<<top, 1>>}
=============================================================================
