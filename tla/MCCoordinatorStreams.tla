------------------------ MODULE MCCoordinatorStreams ------------------------
EXTENDS CoordinatorStreams, TLC

\* Streams and groups are interchangeable in the safety runs.
Symmetry == Permutations(Groups) \union Permutations(Streams)
=============================================================================
