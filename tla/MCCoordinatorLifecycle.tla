------------------------ MODULE MCCoordinatorLifecycle ------------------------
EXTENDS CoordinatorLifecycle, TLC

\* Rooms and calls are interchangeable.
Symmetry == Permutations(Rooms) \union Permutations(Calls)
===============================================================================
