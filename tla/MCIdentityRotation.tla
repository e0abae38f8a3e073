--------------------------- MODULE MCIdentityRotation ---------------------------
EXTENDS IdentityRotation, TLC

\* The rooms of HostWorkspace are interchangeable, and so are those of ChatRoute.
Symmetry == Permutations(HostRooms) \union Permutations(GuestRooms)
===============================================================================
