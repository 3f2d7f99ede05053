--------------------------- MODULE MCObjectStore ---------------------------
EXTENDS ObjectStore, TLC

CONSTANTS p1, p2, p3, o1, o2

TwoPieces == [o \in Objects |-> 2]
TwoAndThree == o1 :> 2 @@ o2 :> 3
ProcessSymmetry == Permutations(Processes)
=============================================================================
