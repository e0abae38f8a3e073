---------------------------- MODULE MCCoordinatorTab ----------------------------
(***************************************************************************)
(* The tab that runs the coordinator: how it keeps other tabs out          *)
(* (SingleInstance), and what of its rooms outlives it (SnapshotStorage).  *)
(* The storage takes the guard's promise for granted, that one instance at *)
(* a time has it open; they share no variable, and one is explored at a    *)
(* time while the other rests.                                             *)
(***************************************************************************)
EXTENDS SingleInstance, SnapshotStorage, TLC

VARIABLE focus

allVars == <<focus, vars, storageVars>>

\* What rests has one initial state, up to the symmetry; and the web lock of a browser
\* with one tab, which excludes nobody, is left out.
MCInit ==
  /\ Init
  /\ StorageInit
  /\ \/ /\ focus = "guard" /\ \A g \in Groups : hostedBy[g] = 1
        /\ \A b \in hasLocks : Cardinality({t \in Tabs : browserOf[t] = b}) > 1
     \/ focus = "storage" /\ hasLocks = {} /\ Cardinality({browserOf[t] : t \in Tabs}) = 1

MCNext ==
  \/ focus = "guard" /\ Next /\ UNCHANGED <<focus, storageVars>>
  \/ focus = "storage" /\ StorageNext /\ UNCHANGED <<focus, vars>>

MCSpec == MCInit /\ [][MCNext]_allVars

\* Tabs are interchangeable, and so are browsers and rooms.
Symmetry == Permutations(Tabs) \union Permutations(Browsers) \union Permutations(Groups)
===============================================================================
