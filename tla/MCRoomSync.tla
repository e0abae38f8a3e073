------------------------------ MODULE MCRoomSync ------------------------------
EXTENDS RoomSync, TLC

\* Guests are interchangeable.
Symmetry == Permutations(Guests)

\* Sessions that write and faults, together.
Few == Cardinality({p \in Sessions : sends[p] > 0}) + faults <= MaxFaults

\* Two members write, or one does and one thing fails, or two things fail.
MCSpec == Init /\ [][Next /\ Few']_vars
===============================================================================
