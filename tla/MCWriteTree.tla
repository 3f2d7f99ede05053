---------------------------- MODULE MCWriteTree ----------------------------
EXTENDS WriteTree, TLC

CONSTANTS top, sub

c1 == <<1>>
c2 == <<2, 2>>
Empty == <<>>
Huge == <<3, 3, 3>>

AllContents == {c1, c2, Empty, Huge}

\* The last name is the longest.
Lengths == [n \in Names |-> IF n = 3 THEN 9 ELSE 1]

Holds(a, b, c) == (1 :> a) @@ (2 :> b) @@ (3 :> c)

\* Files only.
Flat == (top :> Holds(File(c1, FALSE), File(c1, TRUE), None))
        @@ (sub :> Holds(None, None, None))

\* A subdirectory with a file whose path is too long, and one to hold it up.
Nested == (top :> Holds(File(c1, FALSE), Dir(sub), None))
          @@ (sub :> Holds(File(c1, TRUE), Other, File(c2, FALSE)))

\* A link in the subdirectory leads back to the top.
Cyclic == (top :> Holds(None, Dir(sub), File(Huge, FALSE)))
          @@ (sub :> Holds(File(Empty, FALSE), Dir(top), None))

AllTrees == {Flat, Nested, Cyclic}

\* A file and a subdirectory with a file in it.
OnlyNested == {(top :> Holds(File(c1, FALSE), Dir(sub), None))
               @@ (sub :> Holds(File(c1, FALSE), None, None))}
=============================================================================
