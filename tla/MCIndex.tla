------------------------------ MODULE MCIndex ------------------------------
EXTENDS Index

ThreePaths == 0..2
FourPaths == 0..3

\* A path cut short is one of the paths before it in strcmp order; 0 stands
\* for the empty path, which is what is left of any path.
AnyPrefix == [p \in Paths |-> 0..(p - 1)]

NoTrees == {}

\* What other writers may have put in the store: a subdirectory and a link,
\* a name git_validate_safe_path refuses, the same name twice.
SomeTrees == {<<[path |-> 0, sha1 |-> "s1", mode |-> "tree"],
                [path |-> 1, sha1 |-> "s1", mode |-> "link"]>>,
              <<[path |-> 0, sha1 |-> "s1", mode |-> "blob"],
                [path |-> 2, sha1 |-> "s1", mode |-> "blob"],
                [path |-> 1, sha1 |-> "s1", mode |-> "blob"]>>,
              <<[path |-> 0, sha1 |-> "s1", mode |-> "blob"],
                [path |-> 0, sha1 |-> "s2", mode |-> "exec"]>>}
=============================================================================
